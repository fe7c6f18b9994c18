---------------------------- MODULE BackendProofs -----------------------------
(***************************************************************************)
(* Proofs about the configuration daemon outside its sessions and          *)
(* transactions: its life, for any set of processes, plugins and command   *)
(* lines, any length of the archive and any number of starts and commits;  *)
(* its notifications, for any clients, plugins, streams and events; the    *)
(* memory allocator, for any size classes, blocks, labels and calls; and   *)
(* the difference of two databases with its commit vector, for any items,  *)
(* indexes and dependencies.                                               *)
(***************************************************************************)
EXTENDS Lifecycle, Notify, Chunk, DbDiff, SequenceLemmas, TLAPS

------------------------------------------------------------------------------
(***************************************************************************)
(* The daemon that serves can be found.  As long as no start or stop has   *)
(* overlapped with another, two processes are on the move only while one   *)
(* waits for the other, which it has told to go; and beside a daemon that  *)
(* serves there is at most one that has not yet looked at the pidfile, or  *)
(* has read its number in it.                                              *)
(***************************************************************************)
Alone == {"clean", "spec", "reload", "init", "load", "reset", "hooks", "commit", "config",
          "share", "daemon"}
Stages == Alone \cup {"off", "check", "zap", "zapwait", "socket", "serving", "finish", "unlink"}

ProcOK == proc \in [Daemons -> [stage : Stages, flags : SUBSET UNION OptionSets,
                                loaded : Nat, zapped : Daemons \cup {NoDaemon}]]

Moving(d) == proc[d].stage \notin {"off", "serving"}
Ousts(d, e) == /\ proc[d].stage = "zapwait" /\ proc[d].zapped = e
               /\ proc[e].stage \in {"finish", "unlink"}

Turns ==
  \A d, e \in Daemons :
    /\ d # e /\ Moving(d) /\ Moving(e) => Ousts(d, e) \/ Ousts(e, d)
    /\ Moving(d) /\ proc[e].stage = "serving" =>
         proc[d].stage = "check" \/ (proc[d].stage = "zap" /\ proc[d].zapped = e)
    /\ proc[d].stage = "socket" => pidfile = d

Reach == \A d \in Daemons : proc[d].stage = "serving" => pidfile = d /\ sockpath = d
ServerInv == ProcOK /\ Turns /\ Reach
LifeInv == ProcOK /\ (~overlapped => ServerInv)

\* A process goes on to stage s.
LEMMA GotoFacts ==
  ASSUME ProcOK, NEW d \in Daemons, NEW s \in Stages, Goto(d, s)
  PROVE  /\ ProcOK' /\ proc'[d].stage = s
         /\ \A e \in Daemons \ {d} : proc'[e] = proc[e]
PROOF
<1>1. CASE s = "off"
  <2>1. proc' = [proc EXCEPT ![d] = Off]
    BY <1>1 DEF Goto
  <2>2. Off \in [stage : Stages, flags : SUBSET UNION OptionSets, loaded : Nat,
                 zapped : Daemons \cup {NoDaemon}] /\ Off.stage = "off"
    BY DEF Off, Stages
  <2> QED
    BY <1>1, <2>1, <2>2 DEF ProcOK
<1>2. CASE s # "off"
  <2>1. proc' = [proc EXCEPT ![d].stage = s]
    BY <1>2 DEF Goto
  <2> QED
    BY <2>1 DEF ProcOK
<1> QED
  BY <1>1, <1>2

\* The stages in which a process looks at its databases and plugins, up to
\* the one where it binds the socket, have it all alone.
LEMMA NobodyElse ==
  ASSUME ServerInv, NEW d \in Daemons, proc[d].stage \in Alone \cup {"socket"}
  PROVE  \A e \in Daemons \ {d} : proc[e].stage = "off"
PROOF
<1> SUFFICES ASSUME NEW e \in Daemons, e # d, proc[e].stage # "off" PROVE FALSE
  OBVIOUS
<1>1. Moving(d) /\ proc[d].stage \notin {"check", "zap", "zapwait", "finish", "unlink"}
  BY DEF Moving, Alone
<1>2. proc[e].stage # "serving"
  BY <1>1 DEF ServerInv, Turns
<1>3. Moving(e)
  BY <1>2 DEF Moving
<1> QED
  BY <1>1, <1>3 DEF ServerInv, Turns, Ousts

\* A step of a process that is alone.
LEMMA AloneKeeps ==
  ASSUME ServerInv, NEW d \in Daemons, proc[d].stage \in Alone, ProcOK',
         \A e \in Daemons \ {d} : proc'[e] = proc[e],
         \/ proc'[d].stage \in Alone \cup {"finish", "off"}
         \/ proc'[d].stage = "socket" /\ pidfile' = d
  PROVE  ServerInv'
PROOF
<1>1. \A e \in Daemons \ {d} : proc'[e].stage = "off"
  BY NobodyElse
<1>2. proc'[d].stage # "serving"
  BY DEF Alone
<1>3. Reach'
  BY <1>1, <1>2 DEF Reach
<1>4. proc'[d].stage = "socket" => pidfile' = d
  BY DEF Alone
<1>5. Turns'
  BY <1>1, <1>2, <1>4 DEF Turns, Moving
<1> QED
  BY <1>3, <1>5 DEF ServerInv

\* The steps of main() from the removal of old files to the pidfile.
LEMMA StartKeeps ==
  ASSUME ServerInv, NEW d \in Daemons,
         \/ Unlink(d) \/ DbspecMain(d) \/ ReloadRunning(d) \/ RundbInit(d) \/ PluginLoad(d)
         \/ ResetState(d) \/ StartHooks(d) \/ ReloadCommit(d) \/ RundbMain(d)
         \/ ShareCandidate(d) \/ PidfileWrite(d)
  PROVE  ServerInv'
PROOF
<1> DEFINE Goes == \E s \in Alone \cup {"finish", "off", "socket"} :
                     Goto(d, s) /\ (s = "socket" => pidfile' = d)
<1>1. ProcOK
  BY DEF ServerInv
<1>2. ASSUME proc[d].stage \in Alone, Goes
      PROVE  ServerInv'
  <2>1. PICK s \in Alone \cup {"finish", "off", "socket"} :
          Goto(d, s) /\ (s = "socket" => pidfile' = d)
    BY <1>2
  <2>2. s \in Stages
    BY DEF Stages
  <2>3. /\ ProcOK' /\ proc'[d].stage = s
        /\ \A e \in Daemons \ {d} : proc'[e] = proc[e]
    BY <1>1, <2>1, <2>2, GotoFacts
  <2> QED
    BY <1>2, <2>1, <2>3, AloneKeeps
<1>3. CASE Unlink(d) \/ DbspecMain(d)
  BY <1>2, <1>3 DEF Unlink, DbspecMain, Alone
<1>4. CASE ReloadRunning(d)
  <2>1. CASE proc' = [proc EXCEPT ![d].stage = "init", ![d].flags = @ \ {"r"}]
    <3>1. ProcOK' /\ proc'[d].stage = "init" /\ \A e \in Daemons \ {d} : proc'[e] = proc[e]
      BY <1>1, <2>1, ZenonT(60) DEF ProcOK, Stages, Alone
    <3>2. proc[d].stage \in Alone /\ "init" \in Alone
      BY <1>4 DEF ReloadRunning, Alone
    <3> QED
      BY <3>1, <3>2, AloneKeeps
  <2>2. CASE Goto(d, "init") \/ Goto(d, "finish")
    BY <1>2, <1>4, <2>2 DEF ReloadRunning, Alone
  <2> QED
    BY <1>4, <2>1, <2>2 DEF ReloadRunning
<1>5. CASE RundbInit(d)
  BY <1>2, <1>5 DEF RundbInit, Alone
<1>6. CASE PluginLoad(d)
  <2>1. CASE proc' = [proc EXCEPT ![d].loaded = @ + 1]
    <3>1. ProcOK' /\ proc'[d].stage = proc[d].stage /\ \A e \in Daemons \ {d} : proc'[e] = proc[e]
      BY <1>1, <2>1 DEF ProcOK
    <3>2. proc[d].stage \in Alone
      BY <1>6 DEF PluginLoad, Alone
    <3> QED
      BY <3>1, <3>2, AloneKeeps
  <2>2. CASE Goto(d, "finish") \/ Goto(d, "reset")
    BY <1>2, <1>6, <2>2 DEF PluginLoad, Alone
  <2> QED
    BY <1>6, <2>1, <2>2 DEF PluginLoad
<1>7. CASE ResetState(d)
  <2>1. Goto(d, "finish") \/ Goto(d, "hooks")
    BY <1>7 DEF ResetState
  <2> QED
    BY <1>2, <1>7, <2>1 DEF ResetState, Alone
<1>8. CASE StartHooks(d)
  BY <1>2, <1>8 DEF StartHooks, Alone
<1>9. CASE ReloadCommit(d)
  <2>1. Goto(d, "finish") \/ Goto(d, "config")
    BY <1>9 DEF ReloadCommit
  <2> QED
    BY <1>2, <1>9, <2>1 DEF ReloadCommit, Alone
<1>10. CASE RundbMain(d)
  <2>1. Goto(d, "finish") \/ Goto(d, "share")
    BY <1>10 DEF RundbMain
  <2> QED
    BY <1>2, <1>10, <2>1 DEF RundbMain, Alone
<1>11. CASE ShareCandidate(d)
  <2>1. Goto(d, "finish") \/ Goto(d, "daemon")
    BY <1>11 DEF ShareCandidate
  <2> QED
    BY <1>2, <1>11, <2>1 DEF ShareCandidate, Alone
<1>12. CASE PidfileWrite(d)
  BY <1>2, <1>12 DEF PidfileWrite, Alone
<1> QED
  BY <1>3, <1>4, <1>5, <1>6, <1>7, <1>8, <1>9, <1>10, <1>11, <1>12

\* The look at the pidfile, and what -z does.
LEMMA CheckKeeps ==
  ASSUME ServerInv, NEW d \in Daemons, PidfileGet(d)
  PROVE  ServerInv'
PROOF
<1>1. ProcOK /\ proc[d].stage = "check" /\ UNCHANGED <<pidfile, sockpath>>
  BY DEF ServerInv, PidfileGet, names
<1>2. \A e \in Daemons \ {d} : proc[e].stage \in {"off", "serving"}
  BY <1>1 DEF ServerInv, Turns, Moving, Ousts
<1>3. \A e \in Daemons : proc[e].stage = "serving" => OldDaemon = e /\ OldDaemon # NoDaemon
  BY LifecycleAssumption DEF ServerInv, Reach, OldDaemon
<1>4. OldDaemon \in Daemons \cup {NoDaemon}
  BY DEF OldDaemon
<1>5. /\ ProcOK' /\ \A e \in Daemons \ {d} : proc'[e] = proc[e]
      /\ \/ proc'[d].stage = "zap" /\ proc'[d].zapped = OldDaemon
         \/ proc'[d].stage = "off"
         \/ proc'[d].stage = "clean" /\ OldDaemon = NoDaemon
  <2>1. CASE "z" \in proc[d].flags
    <3>1. proc' = [proc EXCEPT ![d].stage = "zap", ![d].zapped = OldDaemon]
      BY <2>1 DEF PidfileGet
    <3> HIDE DEF OldDaemon
    <3> QED
      BY <1>1, <1>4, <3>1, ZenonT(60) DEF ProcOK, Stages
  <2>2. CASE "z" \notin proc[d].flags
    <3>1. Goto(d, IF OldDaemon # NoDaemon THEN "off" ELSE "clean")
      BY <2>2 DEF PidfileGet
    <3>2. "off" \in Stages /\ "clean" \in Stages
      BY DEF Stages, Alone
    <3> QED
      BY <1>1, <3>1, <3>2, GotoFacts
  <2> QED
    BY <2>1, <2>2
<1>6. Reach'
  BY <1>1, <1>5 DEF ServerInv, Reach
<1>7. Turns'
  BY <1>1, <1>2, <1>3, <1>5 DEF Turns, Moving
<1> QED
  BY <1>5, <1>6, <1>7 DEF ServerInv

LEMMA ZapKillKeeps ==
  ASSUME ServerInv, NEW d \in Daemons, ZapKill(d)
  PROVE  ServerInv'
PROOF
<1> DEFINE e == proc[d].zapped
           sent == [proc EXCEPT ![d].stage = "zapwait"]
<1>1. ProcOK /\ proc[d].stage = "zap" /\ e \in Daemons \cup {NoDaemon}
  BY DEF ServerInv, ZapKill, ProcOK
<1>2. \A f \in Daemons \ {d} : /\ proc[f].stage \in {"off", "serving"}
                               /\ proc[f].stage = "serving" => f = e
  BY <1>1 DEF ServerInv, Turns, Moving, Ousts
<1>3. CASE e = NoDaemon \/ ~Alive(e)
  <2>1. proc' = sent
    BY <1>3 DEF ZapKill
  <2>2. /\ ProcOK' /\ proc'[d].stage = "zapwait"
        /\ \A f \in Daemons \ {d} : proc'[f] = proc[f]
    BY <1>1, <2>1 DEF ProcOK, Stages
  <2>3. \A f \in Daemons \ {d} : proc'[f].stage = "off"
    BY <1>2, <1>3, <2>2, LifecycleAssumption DEF Alive
  <2> QED
    BY <2>2, <2>3 DEF ServerInv, Turns, Moving, Reach
<1>4. CASE e \in Daemons /\ proc[e].stage \in {"serving", "finish", "unlink"}
  <2>1. proc' = [sent EXCEPT ![e].stage = IF @ = "serving" THEN "finish" ELSE @]
    BY <1>4, LifecycleAssumption DEF ZapKill, Alive
  <2>2. e # d /\ proc[e].stage = "serving"
    BY <1>1, <1>2, <1>4
  <2>3. /\ ProcOK' /\ proc'[d].stage = "zapwait" /\ proc'[d].zapped = e
        /\ proc'[e].stage = "finish"
        /\ \A f \in Daemons \ {d, e} : proc'[f] = proc[f]
    BY <1>1, <1>4, <2>1, <2>2 DEF ProcOK, Stages
  <2>4. \A f \in Daemons \ {d, e} : proc'[f].stage = "off"
    BY <1>2, <2>3
  <2> QED
    BY <1>4, <2>2, <2>3, <2>4 DEF ServerInv, Turns, Moving, Ousts, Reach
<1>5. CASE e \in Daemons /\ Alive(e) /\ proc[e].stage \notin {"serving", "finish", "unlink"}
  <2>1. proc' = [sent EXCEPT ![e] = Off]
    BY <1>5, LifecycleAssumption DEF ZapKill
  <2>2. e = d
    BY <1>2, <1>5 DEF Alive
  <2>3. Off \in [stage : Stages, flags : SUBSET UNION OptionSets, loaded : Nat,
                 zapped : Daemons \cup {NoDaemon}] /\ Off.stage = "off"
    BY DEF Off, Stages
  <2>4. /\ ProcOK' /\ proc'[d].stage = "off"
        /\ \A f \in Daemons \ {d} : proc'[f] = proc[f]
    BY <1>1, <2>1, <2>2, <2>3 DEF ProcOK, Stages
  <2>5. \A f \in Daemons : proc'[f].stage = "off"
    BY <1>2, <2>2, <2>4
  <2> QED
    BY <2>4, <2>5 DEF ServerInv, Turns, Moving, Reach
<1> QED
  BY <1>1, <1>3, <1>4, <1>5

LEMMA ZapDoneKeeps ==
  ASSUME ServerInv, NEW d \in Daemons, ZapDone(d)
  PROVE  ServerInv'
PROOF
<1>1. ProcOK /\ proc[d].stage = "zapwait" /\ Goto(d, "off")
  BY DEF ServerInv, ZapDone
<1>2. ProcOK' /\ proc'[d].stage = "off" /\ \A e \in Daemons \ {d} : proc'[e] = proc[e]
  BY <1>1, GotoFacts DEF Stages
<1>3. \A e \in Daemons : proc[e].stage \notin {"serving", "socket"}
  BY <1>1 DEF ServerInv, Turns, Moving, Ousts
<1>4. \A e \in Daemons : proc'[e].stage \notin {"serving", "socket"}
  BY <1>2, <1>3
<1>5. \A e, f \in Daemons : e # f /\ Moving(e)' /\ Moving(f)' =>
         /\ Moving(e) /\ Moving(f) /\ proc'[e] = proc[e] /\ proc'[f] = proc[f]
  BY <1>2 DEF Moving
<1>6. Turns'
  BY <1>4, <1>5 DEF ServerInv, Turns, Ousts
<1> QED
  BY <1>2, <1>4, <1>6 DEF ServerInv, Reach

\* The only daemon that gets to serve has its number in the pidfile.
LEMMA ServerSocketKeeps ==
  ASSUME ServerInv, NEW d \in Daemons, ServerSocket(d)
  PROVE  ServerInv'
PROOF
<1>1. ProcOK /\ proc[d].stage = "socket" /\ pidfile' = pidfile /\ pidfile = d
  BY DEF ServerInv, ServerSocket, Turns
<1>2. \A e \in Daemons \ {d} : proc[e].stage = "off"
  BY <1>1, NobodyElse
<1>3. PICK s \in {"serving", "finish"} : Goto(d, s) /\ (s = "serving" => sockpath' = d)
  BY DEF ServerSocket
<1>4. ProcOK' /\ proc'[d].stage = s /\ \A e \in Daemons \ {d} : proc'[e] = proc[e]
  BY <1>1, <1>3, GotoFacts DEF Stages
<1>5. \A e \in Daemons \ {d} : proc'[e].stage = "off"
  BY <1>2, <1>4
<1>6. Reach'
  BY <1>1, <1>3, <1>4, <1>5 DEF Reach
<1>7. Turns'
  BY <1>3, <1>4, <1>5 DEF Turns, Moving
<1> QED
  BY <1>4, <1>6, <1>7 DEF ServerInv

\* A daemon leaves the event loop or begins, and everybody else stands still.
LEMMA BeginKeeps ==
  ASSUME ServerInv, NEW d \in Daemons, UNCHANGED names, ProcOK',
         \A e \in Daemons \ {d} : proc'[e] = proc[e] /\ proc[e].stage \in {"off", "serving"},
         \/ proc'[d].stage = "check"
         \/ proc'[d].stage = "finish" /\ proc[d].stage = "serving"
  PROVE  ServerInv'
PROOF
<1>1. Reach'
  BY DEF ServerInv, Reach, names
<1>2. \A e \in Daemons \ {d} : proc'[e].stage \in {"off", "serving"}
  OBVIOUS
<1>3. proc[d].stage = "serving" => \A e \in Daemons \ {d} : proc'[e].stage # "serving"
  BY DEF ServerInv, Reach
<1>4. Turns'
  BY <1>2, <1>3 DEF Turns, Moving
<1> QED
  BY <1>1, <1>4 DEF ServerInv

\* config_terminate() only runs when no other daemon serves.
LEMMA TerminateKeeps ==
  ASSUME ServerInv, NEW d \in Daemons, Terminate(d) \/ TerminateSocket(d)
  PROVE  ServerInv'
PROOF
<1>1. ProcOK /\ proc[d].stage \in {"finish", "unlink"}
  BY DEF ServerInv, Terminate, TerminateSocket
<1>2. /\ ProcOK' /\ proc'[d].stage \in {"unlink", "off"}
      /\ \A e \in Daemons \ {d} : proc'[e] = proc[e]
  <2>1. CASE Terminate(d)
    BY <1>1, <2>1, ZenonT(60) DEF Terminate, ProcOK, Stages
  <2>2. CASE TerminateSocket(d)
    BY <1>1, <2>2, GotoFacts DEF TerminateSocket, Stages
  <2> QED
    BY <2>1, <2>2
<1>3. \A e \in Daemons : proc[e].stage \notin {"serving", "socket"}
  BY <1>1 DEF ServerInv, Turns, Moving, Ousts
<1>4. \A e \in Daemons : proc'[e].stage \notin {"serving", "socket"}
  BY <1>2, <1>3
<1>5. \A e, f \in Daemons : e # f /\ Moving(e)' /\ Moving(f)' => Ousts(e, f) \/ Ousts(f, e)
  BY <1>1, <1>2 DEF ServerInv, Turns, Moving
<1>6. \A e, f \in Daemons : e # f /\ Ousts(e, f) /\ Moving(f)' => Ousts(e, f)'
  BY <1>1, <1>2 DEF Ousts, Moving
<1>7. Turns'
  BY <1>4, <1>5, <1>6 DEF Turns
<1> QED
  BY <1>2, <1>4, <1>7 DEF ServerInv, Reach

LEMMA CrashKeeps ==
  ASSUME ServerInv, NEW d \in Daemons, Crash(d)
  PROVE  ServerInv'
PROOF
<1>1. ProcOK /\ Goto(d, "off") /\ pidfile' = Left(pidfile, d) /\ sockpath' = Left(sockpath, d)
  BY DEF ServerInv, Crash
<1>2. ProcOK' /\ proc'[d].stage = "off" /\ \A e \in Daemons \ {d} : proc'[e] = proc[e]
  BY <1>1, GotoFacts DEF Stages
<1>3. \A e \in Daemons \ {d} : /\ pidfile = e => pidfile' = e
                               /\ sockpath = e => sockpath' = e
  BY <1>1 DEF Left
<1>4. Reach'
  BY <1>2, <1>3 DEF ServerInv, Reach
<1>5. Turns'
  <2>1. \A e \in Daemons : proc'[e].stage \in {"off", proc[e].stage}
    BY <1>2
  <2>2. \A e, f \in Daemons :
          /\ e # f /\ Moving(e)' /\ Moving(f)' => Ousts(e, f)' \/ Ousts(f, e)'
          /\ Moving(e)' /\ proc'[f].stage = "serving" =>
               proc'[e].stage = "check" \/ (proc'[e].stage = "zap" /\ proc'[e].zapped = f)
    BY <1>2 DEF ServerInv, Turns, Moving, Ousts
  <2>3. \A e \in Daemons : proc'[e].stage = "socket" => pidfile' = e
    BY <1>2, <1>3 DEF ServerInv, Turns
  <2> QED
    BY <2>2, <2>3 DEF Turns
<1> QED
  BY <1>2, <1>4, <1>5 DEF ServerInv

LEMMA ServerInit == LifeInit => ServerInv
PROOF
<1> SUFFICES ASSUME LifeInit PROVE ServerInv
  OBVIOUS
<1>1. Off \in [stage : Stages, flags : SUBSET UNION OptionSets, loaded : Nat,
               zapped : Daemons \cup {NoDaemon}] /\ Off.stage = "off"
  BY DEF Off, Stages
<1> QED
  BY <1>1 DEF LifeInit, ServerInv, ProcOK, Turns, Moving, Reach

\* What a process is, however starts and stops overlap.
LEMMA ProcStep == ProcOK /\ [LifeNext]_lifeVars => ProcOK'
PROOF
<1> SUFFICES ASSUME ProcOK, [LifeNext]_lifeVars PROVE ProcOK'
  OBVIOUS
<1>1. ASSUME NEW d \in Daemons, NEW s \in Stages, Goto(d, s) PROVE ProcOK'
  BY <1>1, GotoFacts
<1>2. ASSUME UNCHANGED proc PROVE ProcOK'
  BY <1>2 DEF ProcOK
<1>3. ASSUME NEW d \in Daemons, NEW opts \in OptionSets, Exec(d, opts) PROVE ProcOK'
  <2>1. proc' = [proc EXCEPT ![d] = [stage |-> "check", flags |-> opts, loaded |-> 0,
                                     zapped |-> NoDaemon]]
    BY <1>3 DEF Exec
  <2>2. [stage |-> "check", flags |-> opts, loaded |-> 0, zapped |-> NoDaemon]
          \in [stage : Stages, flags : SUBSET UNION OptionSets, loaded : Nat,
               zapped : Daemons \cup {NoDaemon}]
    BY <1>3 DEF Stages
  <2> QED
    BY <2>1, <2>2 DEF ProcOK
<1>4. ASSUME NEW d \in Daemons, PidfileGet(d) PROVE ProcOK'
  <2>1. OldDaemon \in Daemons \cup {NoDaemon}
    BY DEF OldDaemon
  <2>2. CASE proc' = [proc EXCEPT ![d].stage = "zap", ![d].zapped = OldDaemon]
    <3> HIDE DEF OldDaemon
    <3> QED
      BY <2>1, <2>2, ZenonT(60) DEF ProcOK, Stages
  <2>3. CASE Goto(d, IF OldDaemon # NoDaemon THEN "off" ELSE "clean")
    <3>1. "off" \in Stages /\ "clean" \in Stages
      BY DEF Stages, Alone
    <3> QED
      BY <1>1, <2>3, <3>1
  <2> QED
    BY <1>4, <2>2, <2>3 DEF PidfileGet
<1>5. ASSUME NEW d \in Daemons, ZapKill(d) PROVE ProcOK'
  <2>1. PICK e \in Daemons \cup {NoDaemon} : e = proc[d].zapped
    BY DEF ProcOK
  <2>2. PICK sent : sent = [proc EXCEPT ![d].stage = "zapwait"]
    OBVIOUS
  <2>3. sent \in [Daemons -> [stage : Stages, flags : SUBSET UNION OptionSets, loaded : Nat,
                              zapped : Daemons \cup {NoDaemon}]]
    BY <2>2 DEF ProcOK, Stages
  <2>4. Off \in [stage : Stages, flags : SUBSET UNION OptionSets, loaded : Nat,
                 zapped : Daemons \cup {NoDaemon}]
    BY DEF Off, Stages
  <2>5. \/ proc' = sent
        \/ e \in Daemons /\ proc' = [sent EXCEPT ![e].stage = IF @ = "serving" THEN "finish" ELSE @]
        \/ e \in Daemons /\ proc' = [sent EXCEPT ![e] = Off]
    BY <1>5, <2>1, <2>2 DEF ZapKill
  <2>6. CASE e \in Daemons /\ proc' = [sent EXCEPT ![e].stage = IF @ = "serving" THEN "finish" ELSE @]
    BY <2>3, <2>6 DEF ProcOK, Stages
  <2> QED
    BY <2>3, <2>4, <2>5, <2>6 DEF ProcOK
<1>6. ASSUME NEW d \in Daemons,
             \/ ZapDone(d) \/ Unlink(d) \/ DbspecMain(d) \/ RundbInit(d) \/ ResetState(d) \/ StartHooks(d)
             \/ ReloadCommit(d) \/ RundbMain(d) \/ ShareCandidate(d) \/ PidfileWrite(d) \/ ServerSocket(d)
             \/ TerminateSocket(d) \/ LeaveLoop(d) \/ Crash(d)
      PROVE  ProcOK'
  <2>1. \E s \in Stages : Goto(d, s)
    <3>1. {"off", "finish", "socket", "serving"} \cup Alone \subseteq Stages
      BY DEF Stages
    <3>2. {"spec", "reload", "load", "hooks", "commit", "config", "share", "daemon"} \subseteq Alone
      BY DEF Alone
    <3>3. CASE ZapDone(d) \/ Unlink(d) \/ DbspecMain(d) \/ RundbInit(d)
      BY <3>1, <3>2, <3>3 DEF ZapDone, Unlink, DbspecMain, RundbInit
    <3>4. CASE ResetState(d)
      <4>1. Goto(d, "finish") \/ Goto(d, "hooks")
        BY <3>4 DEF ResetState
      <4> QED
        BY <3>1, <3>2, <4>1
    <3>5. CASE ReloadCommit(d)
      <4>1. Goto(d, "finish") \/ Goto(d, "config")
        BY <3>5 DEF ReloadCommit
      <4> QED
        BY <3>1, <3>2, <4>1
    <3>6. CASE RundbMain(d)
      <4>1. Goto(d, "finish") \/ Goto(d, "share")
        BY <3>6 DEF RundbMain
      <4> QED
        BY <3>1, <3>2, <4>1
    <3>7. CASE ShareCandidate(d)
      <4>1. Goto(d, "finish") \/ Goto(d, "daemon")
        BY <3>7 DEF ShareCandidate
      <4> QED
        BY <3>1, <3>2, <4>1
    <3>8. CASE StartHooks(d) \/ PidfileWrite(d) \/ ServerSocket(d) \/ TerminateSocket(d) \/ LeaveLoop(d) \/ Crash(d)
      BY <3>1, <3>2, <3>8 DEF StartHooks, PidfileWrite, ServerSocket, TerminateSocket, LeaveLoop, Crash
    <3> QED
      BY <1>6, <3>3, <3>4, <3>5, <3>6, <3>7, <3>8
  <2> QED
    BY <1>1, <2>1
<1>7. ASSUME NEW d \in Daemons, ReloadRunning(d) PROVE ProcOK'
  <2>1. CASE proc' = [proc EXCEPT ![d].stage = "init", ![d].flags = @ \ {"r"}]
    BY <2>1, ZenonT(60) DEF ProcOK, Stages, Alone
  <2>2. CASE Goto(d, "init") \/ Goto(d, "finish")
    BY <1>1, <2>2 DEF Stages, Alone
  <2> QED
    BY <1>7, <2>1, <2>2 DEF ReloadRunning
<1>8. ASSUME NEW d \in Daemons, PluginLoad(d) PROVE ProcOK'
  <2>1. CASE proc' = [proc EXCEPT ![d].loaded = @ + 1]
    BY <2>1 DEF ProcOK
  <2>2. CASE Goto(d, "finish") \/ Goto(d, "reset")
    BY <1>1, <2>2 DEF Stages, Alone
  <2> QED
    BY <1>8, <2>1, <2>2 DEF PluginLoad
<1>9. ASSUME NEW d \in Daemons, Terminate(d) PROVE ProcOK'
  BY <1>9, ZenonT(60) DEF Terminate, ProcOK, Stages
<1>10. ASSUME NEW d \in Daemons, NEW c \in Edits, NEW snapshot \in BOOLEAN, NEW start \in BOOLEAN,
             ClientCommit(d, c, snapshot, start)
       PROVE  ProcOK'
  BY <1>2, <1>10 DEF ClientCommit
<1>11. CASE UNCHANGED lifeVars
  BY <1>2, <1>11 DEF lifeVars
<1> QED
  BY <1>3, <1>4, <1>5, <1>6, <1>7, <1>8, <1>9, <1>10, <1>11 DEF LifeNext, LifeStep

LEMMA ServerNext == LifeInv /\ [LifeNext]_lifeVars => LifeInv'
PROOF
<1> SUFFICES ASSUME LifeInv, [LifeNext]_lifeVars, ~overlapped' PROVE ServerInv'
  BY ProcStep DEF LifeInv
<1>1. ProcOK /\ ProcOK' /\ (~overlapped => ServerInv)
  BY ProcStep DEF LifeInv
<1>2. ASSUME UNCHANGED <<proc, names, overlapped>> PROVE ServerInv'
  <2>1. ServerInv
    BY <1>1, <1>2
  <2> QED
    BY <1>2, <2>1 DEF ServerInv, ProcOK, Turns, Moving, Ousts, Reach, names
<1>3. CASE UNCHANGED lifeVars
  BY <1>2, <1>3 DEF lifeVars, counts
<1>4. ASSUME NEW d \in Daemons, NEW opts \in OptionSets, Exec(d, opts)
      PROVE  ServerInv'
  <2>1. /\ UNCHANGED names /\ \A e \in Daemons \ {d} : proc[e].stage \in {"off", "serving"}
        /\ overlapped => \A e \in Daemons : proc[e].stage = "off"
    BY <1>4 DEF Exec, OthersMove, Alive
  <2>2. proc' = [proc EXCEPT ![d] = [stage |-> "check", flags |-> opts, loaded |-> 0,
                                     zapped |-> NoDaemon]]
    BY <1>4 DEF Exec
  <2>3. /\ proc'[d].stage = "check"
        /\ \A e \in Daemons \ {d} : proc'[e] = proc[e]
    BY <1>1, <2>2 DEF ProcOK
  <2>4. CASE ~overlapped
    BY <1>1, <2>1, <2>3, <2>4, BeginKeeps
  <2>5. CASE overlapped
    <3>1. \A e \in Daemons \ {d} : proc'[e].stage = "off"
      BY <2>1, <2>3, <2>5
    <3> QED
      BY <1>1, <2>3, <3>1 DEF ServerInv, Turns, Moving, Reach
  <2> QED
    BY <2>4, <2>5
<1>5. ASSUME NEW d \in Daemons, LifeStep(d) PROVE ServerInv'
  <2>1. overlapped' = overlapped
    BY <1>5 DEF LifeStep, PidfileGet, ZapKill, ZapDone, Unlink, DbspecMain, ReloadRunning, RundbInit, PluginLoad,
                ResetState, StartHooks, ReloadCommit, RundbMain, ShareCandidate, PidfileWrite, ServerSocket,
                Terminate, TerminateSocket, counts
  <2>2. ServerInv
    BY <1>1, <2>1
  <2> QED
    BY <1>5, <2>2, StartKeeps, CheckKeeps, ZapKillKeeps, ZapDoneKeeps, ServerSocketKeeps, TerminateKeeps
       DEF LifeStep
<1>6. ASSUME NEW d \in Daemons, LeaveLoop(d) PROVE ServerInv'
  <2>1. /\ proc[d].stage = "serving" /\ Goto(d, "finish") /\ UNCHANGED names /\ ~overlapped
        /\ \A e \in Daemons \ {d} : proc[e].stage \in {"off", "serving"}
    BY <1>6 DEF LeaveLoop, OthersMove
  <2>2. ProcOK' /\ proc'[d].stage = "finish" /\ \A e \in Daemons \ {d} : proc'[e] = proc[e]
    BY <1>1, <2>1, GotoFacts DEF Stages
  <2> QED
    BY <1>1, <2>1, <2>2, BeginKeeps
<1>7. ASSUME NEW d \in Daemons, NEW c \in Edits, NEW snapshot \in BOOLEAN, NEW start \in BOOLEAN,
             ClientCommit(d, c, snapshot, start)
      PROVE  ServerInv'
  BY <1>2, <1>7 DEF ClientCommit, counts
<1>8. ASSUME NEW d \in Daemons, Crash(d) PROVE ServerInv'
  <2>1. overlapped' = overlapped
    BY <1>8 DEF Crash, counts
  <2> QED
    BY <1>1, <1>8, <2>1, CrashKeeps
<1> QED
  BY <1>3, <1>4, <1>5, <1>6, <1>7, <1>8 DEF LifeNext

(***************************************************************************)
(* As long as no start or stop has overlapped with another since all       *)
(* processes were last gone, the daemon that serves is the one that        *)
(* pidfile and socket lead to, through any number of starts, crashes,      *)
(* failed starts and -z: so one daemon serves at most.  And whatever the   *)
(* overlap of two left behind, a start when all processes are gone brings  *)
(* this back.                                                              *)
(***************************************************************************)
THEOREM ServerFound == LifeSpec => []ServerReachable
PROOF
<1>1. LifeInv => ServerReachable
  BY DEF LifeInv, ServerInv, Reach, ServerReachable
<1>2. LifeInit => LifeInv
  BY ServerInit DEF LifeInv, ServerInv
<1> QED
  BY <1>1, <1>2, ServerNext, PTL DEF LifeSpec

------------------------------------------------------------------------------
(***************************************************************************)
(* The archive.  A rotation keeps the order of the entries that it moves,  *)
(* those it leaves below the place where a rename failed, and the last.    *)
(***************************************************************************)
Slots == 0..(SNAPSHOTS_NR - 1)
Entries(n) == {Missing, Cut} \cup 1..n

InOrder(a) ==
  \A i, j \in Slots : i < j /\ {a[i], a[j]} \cap {Missing, Cut} = {} => a[i] > a[j]

ArchiveInv ==
  /\ committed \in Seq(Edits)
  /\ archive \in [Slots -> Entries(Len(committed))]
  /\ InOrder(archive)

LEMMA RotateKeepsOrder ==
  ASSUME NEW n \in Nat, NEW a \in [Slots -> Entries(n)], InOrder(a), NEW k \in Slots
  PROVE  Rotate(a, k) \in [Slots -> Entries(n)] /\ InOrder(Rotate(a, k))
PROOF
<1> DEFINE r == Rotate(a, k)
           last == SNAPSHOTS_NR - 1
<1>1. SNAPSHOTS_NR \in Nat \ {0}
  BY LifecycleAssumption
<1>2. \A i \in Slots : r[i] = IF i < k \/ (i = last /\ (i = k \/ a[i - 1] = Missing)) THEN a[i]
                              ELSE IF i = k THEN Missing ELSE a[i - 1]
  BY DEF Rotate
<1>3. r = [i \in Slots |-> r[i]]
  BY DEF Rotate
<1> HIDE DEF r
<1>4. \A i \in Slots : i > k => i - 1 \in Slots
  BY <1>1 DEF Slots
<1>5. \A i \in Slots : i < k \/ i = k \/ i > k
  BY DEF Slots
<1>6. \A i \in Slots : r[i] \in Entries(n)
  BY <1>2, <1>4, <1>5 DEF Entries
<1>7. r \in [Slots -> Entries(n)]
  BY <1>3, <1>6
<1>8. ASSUME NEW i \in Slots, NEW j \in Slots, i < j, {r[i], r[j]} \cap {Missing, Cut} = {}
      PROVE  r[i] > r[j]
  <2>1. i # last
    BY <1>1, <1>8 DEF Slots
  <2>2. (i < k /\ r[i] = a[i]) \/ (i > k /\ r[i] = a[i - 1])
    BY <1>2, <1>5, <1>8, <2>1
  <2>3. (j < k /\ r[j] = a[j]) \/ (j > k /\ r[j] = a[j - 1]) \/ (j = last /\ r[j] = a[j])
    BY <1>2, <1>5, <1>8
  <2>4. i \in Int /\ j \in Int /\ k \in Int
    BY DEF Slots
  <2>5. \E x, y \in Slots : x < y /\ r[i] = a[x] /\ r[j] = a[y]
    <3>1. CASE i < k /\ r[i] = a[i]
      <4>1. CASE j > k /\ r[j] = a[j - 1]
        <5>1. j - 1 \in Slots /\ i < j - 1
          BY <1>4, <2>4, <3>1, <4>1
        <5> QED
          BY <3>1, <4>1, <5>1
      <4>2. CASE r[j] = a[j]
        BY <1>8, <3>1, <4>2
      <4> QED
        BY <2>3, <4>1, <4>2
    <3>2. CASE i > k /\ r[i] = a[i - 1]
      <4>1. i - 1 \in Slots /\ i - 1 < j
        BY <1>4, <1>8, <2>4, <3>2
      <4>2. CASE j > k /\ r[j] = a[j - 1]
        <5>1. j - 1 \in Slots /\ i - 1 < j - 1
          BY <1>4, <1>8, <2>4, <4>2
        <5> QED
          BY <3>2, <4>1, <4>2, <5>1
      <4>3. CASE r[j] = a[j]
        BY <3>2, <4>1, <4>3
      <4> QED
        BY <2>3, <4>2, <4>3
    <3> QED
      BY <2>2, <3>1, <3>2
  <2> QED
    BY <1>8, <2>5 DEF InOrder
<1>9. InOrder(r)
  BY <1>8 DEF InOrder
<1> QED
  BY <1>7, <1>9 DEF r

\* The new entry 0 is the number of the last commit, or no number.
LEMMA NewestFirst ==
  ASSUME NEW n \in Nat, NEW a \in [Slots -> Entries(n)], InOrder(a), NEW v \in {n + 1, Cut}
  PROVE  [a EXCEPT ![0] = v] \in [Slots -> Entries(n + 1)] /\ InOrder([a EXCEPT ![0] = v])
PROOF
<1> DEFINE b == [a EXCEPT ![0] = v]
<1>1. 0 \in Slots /\ v \in Entries(n + 1) /\ \A i \in Slots : i \in Nat
  BY LifecycleAssumption DEF Slots, Entries
<1>2. \A x \in Entries(n) : x \in Entries(n + 1) /\ (x \notin {Missing, Cut} => x \in Nat /\ x < n + 1)
  BY DEF Entries
<1>3. b[0] = v /\ \A i \in Slots : i # 0 => b[i] = a[i]
  BY <1>1
<1>4. b \in [Slots -> Entries(n + 1)]
  BY <1>1, <1>2
<1> HIDE DEF b
<1>5. ASSUME NEW i \in Slots, NEW j \in Slots, i < j, {b[i], b[j]} \cap {Missing, Cut} = {}
      PROVE  b[i] > b[j]
  <2>1. j # 0 /\ b[j] = a[j]
    BY <1>1, <1>3, <1>5
  <2>2. CASE i = 0
    <3>1. b[i] = n + 1
      BY <1>3, <1>5, <2>2
    <3>2. b[j] \in Nat /\ b[j] < n + 1
      BY <1>2, <1>5, <2>1
    <3> QED
      BY <3>1, <3>2
  <2>3. CASE i # 0
    BY <1>3, <1>5, <2>1, <2>3 DEF InOrder
  <2> QED
    BY <2>2, <2>3
<1>6. InOrder(b)
  BY <1>5 DEF InOrder
<1> QED
  BY <1>4, <1>6 DEF b

LEMMA ArchiveNext == ArchiveInv /\ [LifeNext]_lifeVars => ArchiveInv'
PROOF
<1> SUFFICES ASSUME ArchiveInv, [LifeNext]_lifeVars PROVE ArchiveInv'
  OBVIOUS
<1>1. ASSUME UNCHANGED <<committed, archive>> PROVE ArchiveInv'
  BY <1>1 DEF ArchiveInv, InOrder
<1>2. CASE UNCHANGED lifeVars
  BY <1>1, <1>2 DEF lifeVars, files
<1>3. ASSUME NEW d \in Daemons, LifeStep(d) \/ LeaveLoop(d) \/ Crash(d)
      PROVE  ArchiveInv'
  BY <1>1, <1>3 DEF LifeStep, LeaveLoop, Crash, PidfileGet, ZapKill, ZapDone, Unlink, DbspecMain,
     ReloadRunning, RundbInit, PluginLoad, ResetState, StartHooks, ReloadCommit, RundbMain,
     ShareCandidate, PidfileWrite, ServerSocket, Terminate, TerminateSocket, files
<1>4. ASSUME NEW d \in Daemons, NEW opts \in OptionSets, Exec(d, opts)
      PROVE  ArchiveInv'
  BY <1>1, <1>4 DEF Exec, files
<1>5. ASSUME NEW d \in Daemons, NEW c \in Edits, NEW snapshot \in BOOLEAN, NEW start \in BOOLEAN,
             ClientCommit(d, c, snapshot, start)
      PROVE  ArchiveInv'
  <2> DEFINE n == Len(committed)
  <2>1. PICK o \in CommitOutcomes(c) :
          /\ committed' = IF o[1] THEN committed ELSE Append(committed, c)
          /\ \E snap \in IF snapshot /\ ~o[1] THEN Snapshots(Len(committed) + 1) ELSE {<<o[1], archive>>} :
               archive' = snap[2]
    BY <1>5 DEF ClientCommit
  <2>2. n \in Nat /\ committed \in Seq(Edits) /\ archive \in [Slots -> Entries(n)] /\ InOrder(archive)
    BY DEF ArchiveInv
  <2>3. 0 \in Slots /\ Slots = 0..(SNAPSHOTS_NR - 1)
    BY LifecycleAssumption DEF Slots
  <2>4. \A a \in [Slots -> Entries(n)] : a \in [Slots -> Entries(n + 1)]
    BY <2>2 DEF Entries
  <2>5. CASE committed' = committed /\ archive' = archive
    BY <1>1, <2>5
  <2>6. CASE committed' = Append(committed, c)
    <3>1. committed' \in Seq(Edits) /\ Len(committed') = n + 1
      BY <1>5, <2>2, <2>6
    <3>2. CASE archive' = archive
      BY <2>2, <2>4, <3>1, <3>2 DEF ArchiveInv, InOrder
    <3>3. CASE \E snap \in Snapshots(n + 1) : archive' = snap[2]
      <4>1. \/ archive' = [Rotate(archive, 0) EXCEPT ![0] = n + 1]
            \/ \E k \in Slots : archive' = Rotate(archive, k)
            \/ archive' = [Rotate(archive, 0) EXCEPT ![0] = Cut]
        <5>1. PICK snap \in Snapshots(n + 1) : archive' = snap[2]
          BY <3>3
        <5>2. \/ snap = <<FALSE, [Rotate(archive, 0) EXCEPT ![0] = n + 1]>>
              \/ \E k \in Slots : snap = <<TRUE, Rotate(archive, k)>>
              \/ snap = <<TRUE, [Rotate(archive, 0) EXCEPT ![0] = Cut]>>
          <6> DEFINE x == [Rotate(archive, 0) EXCEPT ![0] = n + 1]
                     y == [Rotate(archive, 0) EXCEPT ![0] = Cut]
          <6>1. Snapshots(n + 1) = {<<FALSE, x>>} \cup {<<TRUE, Rotate(archive, k)>> : k \in Slots}
                                    \cup {<<TRUE, y>>}
            BY <2>3 DEF Snapshots
          <6> HIDE DEF x, y
          <6>2. snap = <<FALSE, x>> \/ snap = <<TRUE, y>> \/ \E k \in Slots : snap = <<TRUE, Rotate(archive, k)>>
            BY <5>1, <6>1
          <6> QED
            BY <6>2 DEF x, y
        <5>3. ASSUME NEW b, NEW x, snap = <<b, x>> PROVE archive' = x
          BY <5>1, <5>3
        <5> QED
          BY <5>2, <5>3
      <4> HIDE DEF n
      <4>2. \A k \in Slots : Rotate(archive, k) \in [Slots -> Entries(n)] /\ InOrder(Rotate(archive, k))
        BY <2>2, RotateKeepsOrder
      <4>3. archive' \in [Slots -> Entries(n + 1)] /\ InOrder(archive')
        <5>1. CASE \E k \in Slots : archive' = Rotate(archive, k)
          BY <2>4, <4>2, <5>1
        <5>2. CASE archive' = [Rotate(archive, 0) EXCEPT ![0] = n + 1]
          BY <2>2, <2>3, <4>2, <5>2, NewestFirst
        <5>3. CASE archive' = [Rotate(archive, 0) EXCEPT ![0] = Cut]
          BY <2>2, <2>3, <4>2, <5>3, NewestFirst
        <5> QED
          BY <4>1, <5>1, <5>2, <5>3
      <4> QED
        BY <3>1, <4>3 DEF ArchiveInv, InOrder
    <3> QED
      BY <2>1, <3>2, <3>3
  <2> QED
    BY <2>1, <2>5, <2>6
<1> QED
  BY <1>2, <1>3, <1>4, <1>5 DEF LifeNext

(***************************************************************************)
(* The archive of snapshots is in order, the latest commit first and none  *)
(* twice, whichever rename or copy of config_snapshot() failed before.     *)
(***************************************************************************)
THEOREM SnapshotsOrdered == LifeSpec => []ArchiveInOrder
<1>1. LifeInit => ArchiveInv
  <2> SUFFICES ASSUME LifeInit PROVE ArchiveInv
    OBVIOUS
  <2>1. archive = [i \in Slots |-> Missing] /\ committed = <<>>
    BY DEF LifeInit, Slots
  <2>2. archive \in [Slots -> Entries(Len(committed))] /\ \A i \in Slots : archive[i] = Missing
    BY <2>1 DEF Entries
  <2>3. \A i, j \in Slots : Missing \in {archive[i], archive[j]} \cap {Missing, Cut}
    BY <2>2
  <2>4. InOrder(archive)
    BY <2>3 DEF InOrder
  <2>5. committed \in Seq(Edits)
    BY <2>1
  <2> QED
    BY <2>2, <2>4, <2>5 DEF ArchiveInv
<1>2. ArchiveInv => ArchiveInOrder
  BY DEF ArchiveInv, ArchiveInOrder, InOrder
<1> QED
  BY <1>1, <1>2, ArchiveNext, PTL DEF LifeSpec

------------------------------------------------------------------------------
(* Damage. *)

\* A commit on a running database that is cut changes nothing.
LEMMA NoCommitOnCut ==
  ASSUME running = Cut, NEW c, NEW o \in CommitOutcomes(c)
  PROVE  o[2] = Cut
PROOF
  BY DEF CommitOutcomes, Good

(***************************************************************************)
(* A running database that a crash has cut stays cut through every start,  *)
(* commit and crash: only a start with -I makes a new one.                 *)
(***************************************************************************)
THEOREM CutStaysCut == LifeSpec => DamageStays
<1> DEFINE Renewed == \E d \in Daemons : "I" \in proc[d].flags /\ proc[d].stage = "init"
<1>1. ASSUME [LifeNext]_lifeVars, running = Cut PROVE running' = Cut \/ Renewed
  <2>1. CASE UNCHANGED lifeVars
    BY <1>1, <2>1 DEF lifeVars, files
  <2>2. ASSUME NEW d \in Daemons,
               \/ PidfileGet(d) \/ ZapKill(d) \/ ZapDone(d) \/ Unlink(d) \/ DbspecMain(d)
               \/ ReloadRunning(d) \/ PluginLoad(d) \/ StartHooks(d) \/ ShareCandidate(d)
               \/ PidfileWrite(d) \/ ServerSocket(d) \/ Terminate(d) \/ TerminateSocket(d)
               \/ LeaveLoop(d)
        PROVE  running' = Cut
    BY <1>1, <2>2 DEF PidfileGet, ZapKill, ZapDone, Unlink, DbspecMain, ReloadRunning, PluginLoad,
       StartHooks, ShareCandidate, PidfileWrite, ServerSocket, Terminate, TerminateSocket,
       LeaveLoop, files
  <2>3. ASSUME NEW d \in Daemons, RundbInit(d) PROVE running' = Cut \/ Renewed
    <3>1. running # Missing
      BY <1>1, LifecycleAssumption
    <3> QED
      BY <1>1, <2>3, <3>1 DEF RundbInit
  <2>4. ASSUME NEW d \in Daemons, ResetState(d) PROVE running' = Cut
    <3>1. ~Good(running)
      BY <1>1 DEF Good
    <3> QED
      BY <1>1, <2>4, <3>1 DEF ResetState
  <2>5. ASSUME NEW d \in Daemons, ReloadCommit(d) \/ RundbMain(d) PROVE running' = Cut
    BY <1>1, <2>5, NoCommitOnCut DEF ReloadCommit, RundbMain
  <2>6. ASSUME NEW d \in Daemons, NEW c \in Edits, NEW snapshot \in BOOLEAN, NEW start \in BOOLEAN,
               ClientCommit(d, c, snapshot, start)
        PROVE  running' = Cut
    BY <1>1, <2>6, NoCommitOnCut DEF ClientCommit
  <2>7. ASSUME NEW d \in Daemons, Crash(d) PROVE running' = Cut
    BY <1>1, <2>7 DEF Crash
  <2>8. ASSUME NEW d \in Daemons, NEW opts \in OptionSets, Exec(d, opts) PROVE running' = Cut
    BY <1>1, <2>8 DEF Exec, files
  <2> QED
    BY <1>1, <2>1, <2>2, <2>3, <2>4, <2>5, <2>6, <2>7, <2>8 DEF LifeNext, LifeStep
<1> QED
  BY <1>1, PTL DEF LifeSpec, DamageStays

------------------------------------------------------------------------------
(***************************************************************************)
(* Notifications.  An event's walk over the subscriptions is the set of    *)
(* the targets that are left; what a connection has been written and what  *)
(* it has in the walk make up what it is owed.                             *)
(***************************************************************************)
Subscribers == [socket : Sockets, subs : Seq([stream : Streams, filter : Filters])]
Hooks == [stream : Streams, format : Kinds, fn : Plugins]

\* The targets of a walk have different places, so one of them is the first.
Placed(targets) ==
  /\ IsFiniteSet(targets)
  /\ \A t \in targets : t.at \in Nat \X Nat
  /\ \A t, u \in targets : t.at = u.at => t = u

NotifyTypes ==
  /\ ceSubs \in Seq(Subscribers) /\ hsSubs \in Seq(Hooks)
  /\ told \in [Sockets -> Nat] /\ due \in [Sockets -> Nat]
  /\ logging \in BOOLEAN /\ logCb \in BOOLEAN /\ failed \in BOOLEAN

\* What is still to be told is in the walk; the counter is up only as long as
\* a message of the log is on its way.
NothingLost ==
  ~failed =>
    /\ \A c \in Sockets : told[c] + Times(c, walk) = due[c]
    /\ logCb /\ (walk = {} => ~logging) /\ (~logging => logDepth = 0)
NotifyInv == NotifyTypes /\ Placed(walk) /\ NothingLost

LEMMA EntryTypes ==
  ASSUME ceSubs \in Seq(Subscribers), hsSubs \in Seq(Hooks)
  PROVE  /\ \A i \in DOMAIN ceSubs : /\ ceSubs[i].socket \in Sockets
                                     /\ \E n \in Nat : DOMAIN ceSubs[i].subs = 1..n
         /\ \A i \in DOMAIN hsSubs : hsSubs[i].fn \in Plugins
PROOF
<1>1. ASSUME NEW i \in DOMAIN ceSubs
      PROVE  ceSubs[i].socket \in Sockets /\ \E n \in Nat : DOMAIN ceSubs[i].subs = 1..n
  <2>1. ceSubs[i] \in Subscribers
    OBVIOUS
  <2>2. ceSubs[i].socket \in Sockets /\ ceSubs[i].subs \in Seq([stream : Streams, filter : Filters])
    BY <2>1 DEF Subscribers
  <2>3. PICK s : s = ceSubs[i].subs /\ s \in Seq([stream : Streams, filter : Filters])
    BY <2>2
  <2>4. DOMAIN s = 1..Len(s) /\ Len(s) \in Nat
    BY <2>3
  <2> QED
    BY <2>2, <2>3, <2>4
<1>2. ASSUME NEW i \in DOMAIN hsSubs PROVE hsSubs[i].fn \in Plugins
  <2>1. hsSubs[i] \in Hooks
    OBVIOUS
  <2> QED
    BY <2>1 DEF Hooks
<1> QED
  BY <1>1, <1>2

LEMMA FirstIsOne ==
  ASSUME NEW T, Placed(T), T # {}
  PROVE  FirstOf(T) \in T
PROOF
<1>1. PICK a \in {t.at[1] : t \in T} : \A m \in {t.at[1] : t \in T} : a <= m
  <2>1. {t.at[1] : t \in T} \subseteq Nat /\ {t.at[1] : t \in T} # {}
    BY DEF Placed
  <2> QED
    BY <2>1, LeastNat
<1>2. PICK U : U = {t \in T : t.at[1] = a}
  OBVIOUS
<1>3. PICK b \in {t.at[2] : t \in U} : \A m \in {t.at[2] : t \in U} : b <= m
  <2>1. {t.at[2] : t \in U} \subseteq Nat /\ {t.at[2] : t \in U} # {}
    BY <1>1, <1>2 DEF Placed
  <2> QED
    BY <2>1, LeastNat
<1>4. PICK t \in T : t.at[1] = a /\ t.at[2] = b
  BY <1>2, <1>3
<1>5. \A u \in T \ {t} : Before(t, u)
  <2> SUFFICES ASSUME NEW u \in T, u # t PROVE Before(t, u)
    OBVIOUS
  <2>1. t.at \in Nat \X Nat /\ u.at \in Nat \X Nat /\ t.at # u.at
    BY DEF Placed
  <2>2. a \in Nat /\ b \in Nat /\ u.at[1] \in Nat /\ u.at[2] \in Nat
    BY <1>4, <2>1
  <2>3. a <= u.at[1]
    BY <1>1
  <2>4. u.at[1] = a => b <= u.at[2]
    BY <1>2, <1>3
  <2>5. u.at[1] = a => b # u.at[2]
    BY <1>4, <2>1
  <2> QED
    BY <1>4, <2>2, <2>3, <2>4, <2>5 DEF Before
<1> QED
  BY <1>5 DEF FirstOf

LEMMA TimesOfRest ==
  ASSUME NEW T, IsFiniteSet(T), NEW t \in T, NEW c
  PROVE  /\ Times(c, T) \in Nat /\ Times(c, T \ {t}) \in Nat
         /\ Times(c, T) = Times(c, T \ {t}) + (IF t.to = c THEN 1 ELSE 0)
PROOF
<1>1. PICK A, B : A = {u \in T : u.to = c} /\ B = {u \in T \ {t} : u.to = c}
  OBVIOUS
<1>2. IsFiniteSet(A) /\ IsFiniteSet(B) /\ B = A \ {t} /\ (t \in A <=> t.to = c)
  BY <1>1, FS_Subset
<1>3. Cardinality(A) \in Nat /\ Cardinality(B) \in Nat
  BY <1>2, FS_CardinalityType
<1>4. Cardinality(B) = IF t \in A THEN Cardinality(A) - 1 ELSE Cardinality(A)
  BY <1>2, FS_RemoveElement
<1>5. Times(c, T) = Cardinality(A) /\ Times(c, T \ {t}) = Cardinality(B)
  BY <1>1 DEF Times
<1> QED
  BY <1>2, <1>3, <1>4, <1>5

LEMMA TimesOfNone ==
  ASSUME NEW c PROVE Times(c, {}) = 0
PROOF
<1>1. {t \in {} : t.to = c} = {}
  OBVIOUS
<1> QED
  BY <1>1, FS_EmptySet DEF Times

\* The targets of one client, and all of them, are finitely many.
LEMMA ClientTargetsFinite ==
  ASSUME ceSubs \in Seq(Subscribers), hsSubs \in Seq(Hooks), NEW stream, NEW kind
  PROVE  IsFiniteSet(ClientTargets(stream, kind))
PROOF
<1> DEFINE Of(i) == {k \in DOMAIN ceSubs[i].subs : /\ ceSubs[i].subs[k].stream = stream
                                                   /\ Match(ceSubs[i].subs[k].filter, kind)}
           Told(i) == {[to |-> ceSubs[i].socket, at |-> <<i, j>>] : j \in Of(i)}
<1>1. ASSUME NEW i \in DOMAIN ceSubs PROVE IsFiniteSet(Told(i))
  <2>1. IsFiniteSet(Of(i))
    <3>1. PICK n \in Nat : DOMAIN ceSubs[i].subs = 1..n
      BY EntryTypes
    <3>2. Of(i) \subseteq 1..n
      BY <3>1
    <3>3. IsFiniteSet(1..n)
      BY FS_Interval
    <3> QED
      BY <3>2, <3>3, FS_Subset
  <2>2. PICK f : f = [j \in Of(i) |-> [to |-> ceSubs[i].socket, at |-> <<i, j>>]]
    OBVIOUS
  <2>3. f \in Surjection(Of(i), Told(i))
    BY <2>2 DEF Surjection
  <2> QED
    BY <2>1, <2>3, FS_Surjection
<1>2. PICK g : g = [i \in DOMAIN ceSubs |-> Told(i)]
  OBVIOUS
<1>3. g \in Surjection(DOMAIN ceSubs, {Told(i) : i \in DOMAIN ceSubs})
  BY <1>2 DEF Surjection
<1>4. IsFiniteSet(DOMAIN ceSubs)
  <2>1. DOMAIN ceSubs = 1..Len(ceSubs) /\ Len(ceSubs) \in Nat
    OBVIOUS
  <2> QED
    BY <2>1, FS_Interval
<1>5. IsFiniteSet({Told(i) : i \in DOMAIN ceSubs})
  BY <1>3, <1>4, FS_Surjection
<1>6. IsFiniteSet(UNION {Told(i) : i \in DOMAIN ceSubs})
  BY <1>1, <1>5, FS_UNION
<1> QED
  BY <1>6 DEF ClientTargets

LEMMA TargetsPlaced ==
  ASSUME ceSubs \in Seq(Subscribers), hsSubs \in Seq(Hooks), NEW stream, NEW kind
  PROVE  /\ Placed(Targets(stream, kind))
         /\ \A c \in Sockets : /\ Times(c, Targets(stream, kind)) = Times(c, ClientTargets(stream, kind))
                               /\ Times(c, ClientTargets(stream, kind)) \in Nat
PROOF
<1>0. DOMAIN ceSubs = 1..Len(ceSubs) /\ Len(ceSubs) \in Nat /\ DOMAIN hsSubs = 1..Len(hsSubs) /\ Len(hsSubs) \in Nat
  OBVIOUS
<1>1. ASSUME NEW t \in ClientTargets(stream, kind)
      PROVE  \E i \in DOMAIN ceSubs : \E j \in Nat : t = [to |-> ceSubs[i].socket, at |-> <<i, j>>]
  <2>1. PICK i \in DOMAIN ceSubs : \E j \in DOMAIN ceSubs[i].subs : t = [to |-> ceSubs[i].socket, at |-> <<i, j>>]
    BY <1>1 DEF ClientTargets
  <2>2. DOMAIN ceSubs[i].subs \subseteq Nat
    BY EntryTypes
  <2> QED
    BY <2>1, <2>2
<1>2. ASSUME NEW t \in PluginTargets(stream, kind)
      PROVE  \E i \in DOMAIN hsSubs : t = [to |-> hsSubs[i].fn, at |-> <<Len(ceSubs) + i, 1>>]
  BY <1>2 DEF PluginTargets
<1>3. IsFiniteSet(PluginTargets(stream, kind))
  <2>1. PICK D : D = {k \in DOMAIN hsSubs : hsSubs[k].stream = stream /\ hsSubs[k].format = kind}
    OBVIOUS
  <2>2. PICK f : f = [i \in D |-> [to |-> hsSubs[i].fn, at |-> <<Len(ceSubs) + i, 1>>]]
    OBVIOUS
  <2>3. f \in Surjection(D, PluginTargets(stream, kind))
    BY <2>1, <2>2 DEF Surjection, PluginTargets
  <2>4. IsFiniteSet(D)
    <3>1. D \subseteq 1..Len(hsSubs) /\ IsFiniteSet(1..Len(hsSubs))
      BY <1>0, <2>1, FS_Interval
    <3> QED
      BY <3>1, FS_Subset
  <2> QED
    BY <2>3, <2>4, FS_Surjection
<1>4. IsFiniteSet(ClientTargets(stream, kind)) /\ IsFiniteSet(Targets(stream, kind))
  BY <1>3, ClientTargetsFinite, FS_Union DEF Targets
<1>5. \A t \in Targets(stream, kind) : t.at \in Nat \X Nat
  BY <1>0, <1>1, <1>2 DEF Targets
<1>6. ASSUME NEW t \in Targets(stream, kind), NEW u \in Targets(stream, kind), t.at = u.at PROVE t = u
  <2>1. CASE t \in ClientTargets(stream, kind) /\ u \in ClientTargets(stream, kind)
    <3>1. PICK i \in DOMAIN ceSubs : \E j \in Nat : t = [to |-> ceSubs[i].socket, at |-> <<i, j>>]
      BY <1>1, <2>1
    <3>2. PICK k \in DOMAIN ceSubs : \E j \in Nat : u = [to |-> ceSubs[k].socket, at |-> <<k, j>>]
      BY <1>1, <2>1
    <3> QED
      BY <1>6, <3>1, <3>2
  <2>2. CASE t \in PluginTargets(stream, kind) /\ u \in PluginTargets(stream, kind)
    <3>1. PICK i \in DOMAIN hsSubs : t = [to |-> hsSubs[i].fn, at |-> <<Len(ceSubs) + i, 1>>]
      BY <1>2, <2>2
    <3>2. PICK k \in DOMAIN hsSubs : u = [to |-> hsSubs[k].fn, at |-> <<Len(ceSubs) + k, 1>>]
      BY <1>2, <2>2
    <3> QED
      BY <1>0, <1>6, <3>1, <3>2
  <2>3. ASSUME NEW x \in ClientTargets(stream, kind), NEW y \in PluginTargets(stream, kind) PROVE x.at # y.at
    <3>1. PICK i \in DOMAIN ceSubs : \E j \in Nat : x = [to |-> ceSubs[i].socket, at |-> <<i, j>>]
      BY <1>1
    <3>2. PICK k \in DOMAIN hsSubs : y = [to |-> hsSubs[k].fn, at |-> <<Len(ceSubs) + k, 1>>]
      BY <1>2
    <3>3. i # Len(ceSubs) + k
      BY <1>0
    <3> QED
      BY <3>1, <3>2, <3>3
  <2> QED
    BY <1>6, <2>1, <2>2, <2>3 DEF Targets
<1>7. ASSUME NEW c \in Sockets
      PROVE  /\ Times(c, Targets(stream, kind)) = Times(c, ClientTargets(stream, kind))
             /\ Times(c, ClientTargets(stream, kind)) \in Nat
  <2>1. \A t \in PluginTargets(stream, kind) : t.to # c
    <3> SUFFICES ASSUME NEW t \in PluginTargets(stream, kind) PROVE t.to # c
      OBVIOUS
    <3>1. PICK i \in DOMAIN hsSubs : t = [to |-> hsSubs[i].fn, at |-> <<Len(ceSubs) + i, 1>>]
      BY <1>2
    <3>2. hsSubs[i].fn \in Plugins
      BY EntryTypes
    <3> QED
      BY <3>1, <3>2, NotifyAssumption
  <2>2. {t \in Targets(stream, kind) : t.to = c} = {t \in ClientTargets(stream, kind) : t.to = c}
    BY <2>1 DEF Targets
  <2>3. IsFiniteSet({t \in ClientTargets(stream, kind) : t.to = c})
    BY <1>4, FS_Subset
  <2> QED
    BY <2>2, <2>3, FS_CardinalityType DEF Times
<1> QED
  BY <1>4, <1>5, <1>6, <1>7 DEF Placed

LEMMA WithoutOne ==
  ASSUME NEW S, NEW s \in Seq(S), NEW i \in DOMAIN s
  PROVE  RemoveAt(s, i) \in Seq(S)
PROOF
<1>1. i \in Nat /\ i >= 1 /\ i <= Len(s) /\ Len(s) \in Nat
  OBVIOUS
<1>2. PICK u, v : u = SubSeq(s, 1, i - 1) /\ v = SubSeq(s, i + 1, Len(s))
  OBVIOUS
<1>3. u \in Seq(S) /\ v \in Seq(S)
  BY <1>1, <1>2
<1> QED
  BY <1>2, <1>3 DEF RemoveAt

\* What leaves the walk and the numbers alone.
LEMMA QuietStep ==
  ASSUME NotifyInv, ceSubs' \in Seq(Subscribers), hsSubs' \in Seq(Hooks),
         UNCHANGED <<told, due, walk, logging, logDepth>>,
         failed' \in BOOLEAN, logCb' \in BOOLEAN, failed => failed', ~failed' => (logCb' <=> logCb)
  PROVE  NotifyInv'
PROOF
<1>1. NotifyTypes' /\ Placed(walk)'
  BY DEF NotifyInv, NotifyTypes, Placed
<1>2. NothingLost'
  <2> SUFFICES ASSUME ~failed' PROVE NothingLost'
    BY DEF NothingLost
  <2>1. ~failed /\ (logCb' <=> logCb)
    OBVIOUS
  <2>2. /\ \A c \in Sockets : told[c] + Times(c, walk) = due[c]
        /\ logCb /\ (walk = {} => ~logging) /\ (~logging => logDepth = 0)
    BY <2>1 DEF NotifyInv, NothingLost
  <2>3. \A c \in Sockets : Times(c, walk)' = Times(c, walk)
    BY DEF Times
  <2> QED
    BY <2>1, <2>2, <2>3 DEF NothingLost
<1> QED
  BY <1>1, <1>2 DEF NotifyInv

LEMMA StartStreamKeeps ==
  ASSUME NotifyInv, NEW u \in Users, NEW s \in Streams, NEW f \in Filters, StartStream(u, s, f)
  PROVE  NotifyInv'
PROOF
<1>1. PICK c \in Sockets, answered \in BOOLEAN : Subscribe(c, s, f, answered)
  <2>1. PICK c : c = CHOOSE x \in FreeSockets : TRUE
    OBVIOUS
  <2>2. c \in FreeSockets
    BY <2>1 DEF StartStream
  <2>3. c \in Sockets
    BY <2>2 DEF FreeSockets
  <2> QED
    BY <2>1, <2>3 DEF StartStream
<1>2. UNCHANGED <<hsSubs, told, due, walk, logging, logDepth>>
  BY DEF StartStream
<1>3. ceSubs \in Seq(Subscribers) /\ hsSubs \in Seq(Hooks)
  BY DEF NotifyInv, NotifyTypes
<1>4. PICK e : e = [socket |-> c, subs |-> <<[stream |-> s, filter |-> f]>>] /\ e \in Subscribers
  <2>1. PICK r : r = [stream |-> s, filter |-> f]
    OBVIOUS
  <2>2. r \in [stream : Streams, filter : Filters]
    BY <2>1
  <2>3. PICK q : q = <<r>>
    OBVIOUS
  <2>4. q \in Seq([stream : Streams, filter : Filters])
    BY <2>2, <2>3
  <2>5. [socket |-> c, subs |-> q] \in Subscribers
    BY <2>4 DEF Subscribers
  <2> QED
    BY <2>1, <2>3, <2>5
<1>5. ceSubs' = <<e>> \o ceSubs /\ <<e>> \in Seq(Subscribers)
  BY <1>1, <1>4 DEF Subscribe
<1>6. ceSubs' \in Seq(Subscribers)
  BY <1>3, <1>5
<1>7. failed \in BOOLEAN /\ logCb \in BOOLEAN
  BY DEF NotifyInv, NotifyTypes
<1>8. failed' = (failed \/ ~answered) /\ logCb' = (logCb /\ answered)
  BY <1>1 DEF Subscribe
<1>9. failed' \in BOOLEAN /\ logCb' \in BOOLEAN /\ (failed => failed') /\ (~failed' => (logCb' <=> logCb))
  BY <1>7, <1>8, Zenon
<1> QED
  BY <1>2, <1>3, <1>6, <1>9, QuietStep

\* A stream is not stopped: the request comes on a connection that has no
\* subscription.
LEMMA StopStreamKeeps ==
  ASSUME NotifyInv, NEW u \in Users, NEW s \in Streams, StopStream(u, s)
  PROVE  NotifyInv'
PROOF
<1>1. ceSubs \in Seq(Subscribers) /\ hsSubs \in Seq(Hooks)
  BY DEF NotifyInv, NotifyTypes
<1>2. \A i \in DOMAIN ceSubs : ceSubs[i].socket # NoSocket
  BY <1>1, EntryTypes, NotifyAssumption
<1>3. Unsubscribe(NoSocket, s) = [i \in DOMAIN ceSubs |-> ceSubs[i]]
  BY <1>2 DEF Unsubscribe
<1>4. ceSubs' = ceSubs
  BY <1>1, <1>3 DEF StopStream
<1>5. UNCHANGED <<hsSubs, told, due, walk, logging, logCb, logDepth, failed>>
  BY DEF StopStream
<1> QED
  BY <1>1, <1>4, <1>5, QuietStep DEF NotifyInv, NotifyTypes

LEMMA ClientRmKeeps ==
  ASSUME NotifyInv, ClientRm
  PROVE  NotifyInv'
PROOF
<1>1. PICK i \in DOMAIN ceSubs :
        /\ ceSubs' = RemoveAt(ceSubs, i)
        /\ told' = [told EXCEPT ![ceSubs[i].socket] = 0] /\ due' = [due EXCEPT ![ceSubs[i].socket] = 0]
  BY DEF ClientRm
<1>2. walk = {} /\ UNCHANGED <<hsSubs, walk, logging, logCb, logDepth, failed>>
  BY DEF ClientRm, Idle
<1>3. NotifyTypes /\ Placed(walk) /\ NothingLost
  BY DEF NotifyInv
<1>4. ceSubs' \in Seq(Subscribers)
  BY <1>1, <1>3, WithoutOne DEF NotifyTypes
<1>5. told' \in [Sockets -> Nat] /\ due' \in [Sockets -> Nat]
  BY <1>1, <1>3 DEF NotifyTypes
<1>6. NotifyTypes'
  BY <1>2, <1>3, <1>4, <1>5 DEF NotifyTypes
<1>7. Placed(walk)'
  BY <1>2, <1>3 DEF Placed
<1>8. NothingLost'
  <2> SUFFICES ASSUME ~failed' PROVE NothingLost'
    BY DEF NothingLost
  <2>1. /\ \A c \in Sockets : told[c] + Times(c, walk) = due[c]
        /\ logCb /\ (walk = {} => ~logging) /\ (~logging => logDepth = 0)
    BY <1>2, <1>3 DEF NothingLost
  <2>2. \A c : Times(c, walk) = 0 /\ Times(c, walk)' = 0
    BY <1>2, TimesOfNone
  <2>3. \A c \in Sockets : told'[c] + Times(c, walk)' = due'[c]
    BY <1>1, <1>3, <2>1, <2>2 DEF NotifyTypes
  <2> QED
    BY <1>2, <2>1, <2>3 DEF NothingLost
<1> QED
  BY <1>6, <1>7, <1>8 DEF NotifyInv

LEMMA HooksKeep ==
  ASSUME NotifyInv, NEW fn \in Plugins, NEW s \in Streams,
         PluginUnsubscribe(fn, s) \/ \E k \in Kinds : PluginSubscribe(fn, s, k)
  PROVE  NotifyInv'
PROOF
<1>1. ceSubs \in Seq(Subscribers) /\ hsSubs \in Seq(Hooks)
  BY DEF NotifyInv, NotifyTypes
<1>2. UNCHANGED <<ceSubs, told, due, walk, logging, logDepth, logCb, failed>>
  BY DEF PluginUnsubscribe, PluginSubscribe
<1>3. hsSubs' \in Seq(Hooks)
  <2>1. CASE PluginUnsubscribe(fn, s)
    <3>1. PICK i \in DOMAIN hsSubs : hsSubs' = RemoveAt(hsSubs, i)
      BY <2>1 DEF PluginUnsubscribe
    <3> QED
      BY <1>1, <3>1, WithoutOne
  <2>2. CASE \E k \in Kinds : PluginSubscribe(fn, s, k)
    <3>1. PICK k \in Kinds : PluginSubscribe(fn, s, k)
      BY <2>2
    <3>2. PICK h : h = [stream |-> s, format |-> k, fn |-> fn]
      OBVIOUS
    <3>3. h \in Hooks
      BY <3>2 DEF Hooks
    <3>4. hsSubs' = <<h>> \o hsSubs /\ <<h>> \in Seq(Hooks)
      BY <3>1, <3>2, <3>3 DEF PluginSubscribe
    <3> QED
      BY <1>1, <3>4
  <2> QED
    BY <2>1, <2>2
<1> QED
  BY <1>1, <1>2, <1>3, QuietStep DEF NotifyInv, NotifyTypes

\* An event begins: all who are to be told are in the walk.
LEMMA EventOwed ==
  ASSUME NotifyInv, walk = {}, NEW s, NEW k, Distribute(s, k), UNCHANGED told
  PROVE  /\ due' \in [Sockets -> Nat] /\ Placed(walk)'
         /\ ~failed => \A c \in Sockets : told'[c] + Times(c, walk)' = due'[c]
PROOF
<1>1. NotifyTypes
  BY DEF NotifyInv
<1>2. walk' = Targets(s, k) /\ due' = [c \in Sockets |-> due[c] + Times(c, ClientTargets(s, k))]
  BY DEF Distribute
<1>3. PICK T : T = Targets(s, k)
  OBVIOUS
<1>4. Placed(T) /\ \A c \in Sockets : Times(c, T) = Times(c, ClientTargets(s, k)) /\ Times(c, T) \in Nat
  BY <1>1, <1>3, TargetsPlaced DEF NotifyTypes
<1>5. walk' = T /\ due' = [c \in Sockets |-> due[c] + Times(c, T)]
  BY <1>2, <1>3, <1>4
<1>6. Placed(walk)'
  BY <1>4, <1>5 DEF Placed
<1>7. \A c : Times(c, walk) = 0
  BY TimesOfNone
<1>8. \A c : Times(c, walk)' = Times(c, T)
  BY <1>5 DEF Times
<1>9. due' \in [Sockets -> Nat]
  BY <1>1, <1>4, <1>5 DEF NotifyTypes
<1>10. ASSUME ~failed, NEW c \in Sockets PROVE told'[c] + Times(c, walk)' = due'[c]
  <2>1. told[c] + Times(c, walk) = due[c] /\ told[c] \in Nat /\ due[c] \in Nat
    BY <1>1, <1>10 DEF NotifyInv, NothingLost, NotifyTypes
  <2>2. told[c] = due[c]
    BY <1>7, <2>1
  <2>3. due'[c] = due[c] + Times(c, T)
    BY <1>5
  <2> QED
    BY <1>8, <2>1, <2>2, <2>3
<1> QED
  BY <1>6, <1>9, <1>10

LEMMA NotifyEventKeeps ==
  ASSUME NotifyInv, NEW s, NEW k, NotifyEvent(s, k)
  PROVE  NotifyInv'
PROOF
<1>1. walk = {} /\ Distribute(s, k) /\ UNCHANGED <<ceSubs, hsSubs, told, logging, logCb, logDepth, failed>>
  BY DEF NotifyEvent, Idle
<1>2. /\ due' \in [Sockets -> Nat] /\ Placed(walk)'
      /\ ~failed => \A c \in Sockets : told'[c] + Times(c, walk)' = due'[c]
  BY <1>1, EventOwed
<1>3. NotifyTypes'
  BY <1>1, <1>2 DEF NotifyInv, NotifyTypes
<1>4. ~failed => logCb /\ ~logging /\ logDepth = 0
  BY <1>1 DEF NotifyInv, NothingLost
<1>5. NothingLost'
  BY <1>1, <1>2, <1>4 DEF NothingLost
<1> QED
  BY <1>2, <1>3, <1>5 DEF NotifyInv

LEMMA LogKeeps ==
  ASSUME NotifyInv, Log
  PROVE  NotifyInv'
PROOF
<1>1. walk = {} /\ UNCHANGED <<ceSubs, hsSubs, told, logCb>>
  BY DEF Log, Idle
<1>2. CASE Distribute("CLICON", "txt")
  /\ (IF walk' = {} THEN UNCHANGED <<logDepth, logging>> ELSE logDepth' = 1 /\ logging' = TRUE)
  /\ UNCHANGED failed
  <2>1. /\ due' \in [Sockets -> Nat] /\ Placed(walk)'
        /\ ~failed => \A c \in Sockets : told'[c] + Times(c, walk)' = due'[c]
    BY <1>1, <1>2, EventOwed
  <2>2. logging \in BOOLEAN /\ logging' \in BOOLEAN
    BY <1>2 DEF NotifyInv, NotifyTypes
  <2>3. NotifyTypes'
    BY <1>1, <1>2, <2>1, <2>2 DEF NotifyInv, NotifyTypes
  <2>4. ~failed => logCb /\ ~logging /\ logDepth = 0
    BY <1>1 DEF NotifyInv, NothingLost
  <2>5. ~failed => logCb' /\ (walk' = {} => ~logging') /\ (~logging' => logDepth' = 0)
    BY <1>1, <1>2, <2>4
  <2>6. NothingLost'
    BY <1>2, <2>1, <2>5 DEF NothingLost
  <2> QED
    BY <2>1, <2>3, <2>6 DEF NotifyInv
<1>3. CASE failed' = TRUE /\ UNCHANGED <<due, walk, logging>>
  <2>1. NotifyTypes' /\ Placed(walk)'
    BY <1>1, <1>3 DEF NotifyInv, NotifyTypes, Placed
  <2>2. NothingLost'
    BY <1>3 DEF NothingLost
  <2> QED
    BY <2>1, <2>2 DEF NotifyInv
<1> QED
  BY <1>2, <1>3 DEF Log

LEMMA SendNotifyKeeps ==
  ASSUME NotifyInv, SendNotify
  PROVE  NotifyInv'
PROOF
<1>1. PICK t : t = FirstOf(walk) /\ t \in walk
  BY FirstIsOne DEF NotifyInv, SendNotify
<1>2. /\ walk' = walk \ {t} /\ UNCHANGED <<ceSubs, hsSubs, due, logCb, failed>>
      /\ \/ t.to \notin Sockets /\ told' = told
         \/ t.to \in Sockets /\ told' = [told EXCEPT ![t.to] = @ + 1]
  BY <1>1 DEF SendNotify
<1>3. NotifyTypes /\ Placed(walk) /\ NothingLost
  BY DEF NotifyInv
<1>4. /\ IF logging /\ walk' = {} THEN logDepth' = 0 /\ logging' = FALSE ELSE UNCHANGED <<logDepth, logging>>
  BY DEF SendNotify, LogEnds
<1>5. NotifyTypes'
  <2>1. told' \in [Sockets -> Nat]
    <3>1. told \in [Sockets -> Nat]
      BY <1>3 DEF NotifyTypes
    <3>2. CASE t.to \notin Sockets /\ told' = told
      BY <3>1, <3>2
    <3>3. CASE t.to \in Sockets /\ told' = [told EXCEPT ![t.to] = @ + 1]
      BY <3>1, <3>3
    <3> QED
      BY <1>2, <3>2, <3>3
  <2>2. logging' \in BOOLEAN
    BY <1>3, <1>4 DEF NotifyTypes
  <2> QED
    BY <1>2, <1>3, <2>1, <2>2 DEF NotifyTypes
<1>6. PICK T : T = walk
  OBVIOUS
<1>7. IsFiniteSet(T) /\ t \in T
  BY <1>1, <1>3, <1>6 DEF Placed
<1>8. Placed(walk)'
  <2>1. IsFiniteSet(walk \ {t})
    BY <1>6, <1>7, FS_RemoveElement
  <2> QED
    BY <1>2, <1>3, <2>1 DEF Placed
<1>9. NothingLost'
  <2> SUFFICES ASSUME ~failed' PROVE NothingLost'
    BY DEF NothingLost
  <2>1. /\ \A c \in Sockets : told[c] + Times(c, T) = due[c]
        /\ logCb /\ (walk = {} => ~logging) /\ (~logging => logDepth = 0)
    BY <1>2, <1>3, <1>6 DEF NothingLost
  <2>2. ASSUME NEW c \in Sockets PROVE told'[c] + Times(c, T \ {t}) = due'[c]
    <3>1. /\ Times(c, T) \in Nat /\ Times(c, T \ {t}) \in Nat
          /\ Times(c, T) = Times(c, T \ {t}) + (IF t.to = c THEN 1 ELSE 0)
      BY <1>7, TimesOfRest
    <3>2. told[c] \in Nat /\ due[c] \in Nat /\ due'[c] = due[c]
      BY <1>2, <1>3 DEF NotifyTypes
    <3>3. told'[c] = told[c] + (IF t.to = c THEN 1 ELSE 0)
      BY <1>2, <1>3, <2>2, <3>2 DEF NotifyTypes
    <3> QED
      BY <2>1, <2>2, <3>1, <3>2, <3>3
  <2>3. \A c : Times(c, walk)' = Times(c, T \ {t})
    BY <1>2, <1>6 DEF Times
  <2>4. logCb' /\ (walk' = {} => ~logging') /\ (~logging' => logDepth' = 0)
    BY <1>2, <1>4, <2>1
  <2> QED
    BY <2>2, <2>3, <2>4 DEF NothingLost
<1> QED
  BY <1>5, <1>8, <1>9 DEF NotifyInv

LEMMA SendFailsKeeps ==
  ASSUME NotifyInv, SendFails
  PROVE  NotifyInv'
PROOF
<1>1. walk' = {} /\ failed' = TRUE /\ UNCHANGED <<ceSubs, hsSubs, told, due, logCb>>
  BY DEF SendFails
<1>2. logging' \in BOOLEAN
  BY DEF SendFails, LogEnds, NotifyInv, NotifyTypes
<1>3. NotifyTypes'
  BY <1>1, <1>2 DEF NotifyInv, NotifyTypes
<1>4. Placed({})
  BY FS_EmptySet DEF Placed
<1>5. Placed(walk)' /\ NothingLost'
  BY <1>1, <1>4 DEF Placed, NothingLost
<1> QED
  BY <1>3, <1>5 DEF NotifyInv

(***************************************************************************)
(* However clients and plugins come, go and subscribe: once an event has   *)
(* been distributed every connection has been written one notification for *)
(* each event that its subscriptions match, unless a send or an allocation *)
(* failed; and the log is neither silenced nor stuck.                      *)
(***************************************************************************)
THEOREM NobodyForgotten == NotifySpec => []AllSubscribersTold
PROOF
<1>1. NotifyInit => NotifyInv
  <2> SUFFICES ASSUME NotifyInit PROVE NotifyInv
    OBVIOUS
  <2>1. NotifyTypes
    <3>1. told \in [Sockets -> Nat] /\ due \in [Sockets -> Nat]
      BY DEF NotifyInit
    <3>2. ceSubs \in Seq(Subscribers) /\ hsSubs \in Seq(Hooks)
      BY DEF NotifyInit
    <3> QED
      BY <3>1, <3>2 DEF NotifyInit, NotifyTypes
  <2>2. Placed(walk)
    BY FS_EmptySet DEF NotifyInit, Placed
  <2>3. \A c : Times(c, walk) = 0
    BY TimesOfNone DEF NotifyInit
  <2>4. NothingLost
    BY <2>3 DEF NotifyInit, NothingLost
  <2> QED
    BY <2>1, <2>2, <2>4 DEF NotifyInv
<1>2. NotifyInv /\ [NotifyNext]_notifyVars => NotifyInv'
  <2> SUFFICES ASSUME NotifyInv, [NotifyNext]_notifyVars PROVE NotifyInv'
    OBVIOUS
  <2>1. ceSubs \in Seq(Subscribers) /\ hsSubs \in Seq(Hooks) /\ failed \in BOOLEAN /\ logCb \in BOOLEAN
    BY DEF NotifyInv, NotifyTypes
  <2>2. CASE UNCHANGED notifyVars
    BY <2>1, <2>2, QuietStep DEF notifyVars
  <2>3. ASSUME NEW u \in Users, NEW s \in Streams, NEW f \in Filters, StartStream(u, s, f) PROVE NotifyInv'
    BY <2>3, StartStreamKeeps
  <2>4. ASSUME NEW u \in Users, NEW s \in Streams, StopStream(u, s) PROVE NotifyInv'
    BY <2>4, StopStreamKeeps
  <2>5. ASSUME NEW u \in Users, NEW s \in Streams, ReadNotify(u, s) PROVE NotifyInv'
    BY <2>1, <2>5, QuietStep DEF ReadNotify
  <2>6. ASSUME NEW u \in Users, UserExit(u) PROVE NotifyInv'
    BY <2>1, <2>6, QuietStep DEF UserExit
  <2>7. CASE ClientRm
    BY <2>7, ClientRmKeeps
  <2>8. ASSUME NEW fn \in Plugins, NEW s \in Streams,
               PluginUnsubscribe(fn, s) \/ \E k \in Kinds : PluginSubscribe(fn, s, k)
        PROVE  NotifyInv'
    BY <2>8, HooksKeep
  <2>9. ASSUME NEW s \in Streams, NEW k \in Kinds, NotifyEvent(s, k) PROVE NotifyInv'
    BY <2>9, NotifyEventKeeps
  <2>10. CASE Log
    BY <2>10, LogKeeps
  <2>11. CASE SendNotify
    BY <2>11, SendNotifyKeeps
  <2>12. CASE SendFails
    BY <2>12, SendFailsKeeps
  <2>13. CASE Sigpipe
    BY <2>1, <2>13, QuietStep DEF Sigpipe
  <2> QED
    BY <2>2, <2>3, <2>4, <2>5, <2>6, <2>7, <2>8, <2>9, <2>10, <2>11, <2>12, <2>13 DEF NotifyNext
<1>3. NotifyInv => AllSubscribersTold
  <2> SUFFICES ASSUME NotifyInv, Idle, ~failed PROVE told = due /\ logCb /\ logDepth = 0
    BY DEF AllSubscribersTold
  <2>1. /\ \A c \in Sockets : told[c] + Times(c, walk) = due[c]
        /\ logCb /\ logDepth = 0
    BY DEF NotifyInv, NothingLost, Idle
  <2>2. \A c \in Sockets : Times(c, walk) = 0
    BY TimesOfNone DEF Idle
  <2>3. \A c \in Sockets : told[c] = due[c]
    BY <2>1, <2>2 DEF NotifyInv, NotifyTypes
  <2> QED
    BY <2>1, <2>3 DEF NotifyInv, NotifyTypes
<1> QED
  BY <1>1, <1>2, <1>3, PTL DEF NotifySpec

------------------------------------------------------------------------------
(***************************************************************************)
(* The memory of the programs.  The allocator keeps its own structures in  *)
(* the chunks it gives out, so its invariant speaks of both: the groups    *)
(* and entries refer to each other and to what the program holds           *)
(* (Grouped), no chunk has two owners (Apart), every other chunk of a      *)
(* mapped block is in the free list of its class once, and a block counts  *)
(* the chunks that are in use (Memory, Mapped).                            *)
(***************************************************************************)
\* chunk_release_block() takes the chunks of the block out one after the other.
LEMMA UnlinkFold ==
  ASSUME NEW s, NEW b, PerBlock[ClassOf[b]] \in Nat
  PROVE  \E F : /\ F[0] = s /\ \A i \in 1..PerBlock[ClassOf[b]] : F[i] = RemoveFirst(F[i - 1], <<b, i>>)
                /\ Unlinked(s, b) = F[PerBlock[ClassOf[b]]]
PROOF
<1> DEFINE n == PerBlock[ClassOf[b]]
           v == [i \in 1..n |-> <<b, i>>]
<1>a. n \in Nat /\ DOMAIN v = 1..n /\ \A i \in 1..n : v[i] = <<b, i>>
  OBVIOUS
<1>b. Unlinked(s, b) = FoldLeft(LAMBDA a, c : RemoveFirst(a, c), s, v)
  BY Zenon DEF Unlinked
<1> HIDE DEF n, v
<1> DEFINE Step(g, t) == IF t = {} THEN s ELSE RemoveFirst(g[t \ {Max(t)}], v[Max(t)])
           T == {m \in Nat : \E g : g = [t \in SUBSET (1..m) |-> Step(g, t)]}
<1>1. 0 \in T
  <2> DEFINE g == [t \in SUBSET (1..0) |-> s]
  <2>1. g = [t \in SUBSET (1..0) |-> Step(g, t)]
    OBVIOUS
  <2> QED
    BY <2>1
<1>2. ASSUME NEW m \in Nat, m \in T PROVE m + 1 \in T
  <2>1. PICK g : g = [t \in SUBSET (1..m) |-> Step(g, t)]
    BY <1>2
  <2> DEFINE f == [t \in SUBSET (1..(m + 1)) |->
                    IF m + 1 \in t THEN RemoveFirst(g[t \ {m + 1}], v[m + 1]) ELSE g[t]]
  <2>2. ASSUME NEW t \in SUBSET (1..(m + 1)) PROVE f[t] = Step(f, t)
    <3>1. CASE m + 1 \in t
      <4>1. Max(t) = m + 1 /\ t \ {m + 1} \in SUBSET (1..m) /\ t # {}
        BY <3>1, TopOfSet
      <4>2. f[t \ {m + 1}] = g[t \ {m + 1}]
        BY <4>1
      <4> QED
        BY <3>1, <4>1, <4>2
    <3>2. CASE m + 1 \notin t
      <4>1. t \in SUBSET (1..m) /\ t \ {Max(t)} \in SUBSET (1..m)
        BY <3>2, TopOfSet
      <4>2. f[t \ {Max(t)}] = g[t \ {Max(t)}] /\ f[t] = g[t]
        BY <3>2, <4>1
      <4>3. g[t] = Step(g, t)
        BY <2>1, <4>1
      <4> QED
        BY <4>2, <4>3
    <3> QED
      BY <3>1, <3>2
  <2>3. f = [t \in SUBSET (1..(m + 1)) |-> f[t]]
    OBVIOUS
  <2> HIDE DEF f
  <2>4. f = [t \in SUBSET (1..(m + 1)) |-> Step(f, t)]
    BY <2>2, <2>3, Zenon
  <2> HIDE DEF Step
  <2> QED
    BY <2>4
<1>3. n \in T
  <2> HIDE DEF T
  <2> QED
    BY <1>a, <1>1, <1>2, SetInduction
<1> DEFINE I == CHOOSE g : g = [t \in SUBSET (1..n) |-> Step(g, t)]
<1>4. I = [t \in SUBSET (1..n) |-> Step(I, t)]
  BY <1>3
<1>5. Unlinked(s, b) = I[1..n]
  BY <1>a, <1>b, Zenon DEF FoldLeft, MapThenFoldSet
<1> HIDE DEF I
<1>6. \A t \in SUBSET (1..n) : I[t] = Step(I, t)
  BY <1>4
<1> DEFINE F == [i \in 0..n |-> I[1..i]]
<1>7. F[0] = s
  <2>1. 1..0 = {} /\ {} \in SUBSET (1..n)
    BY <1>a
  <2>2. I[{}] = s
    BY <1>6, <2>1
  <2> QED
    BY <1>a, <2>1, <2>2
<1>8. ASSUME NEW i \in 1..n PROVE F[i] = RemoveFirst(F[i - 1], v[i])
  <2>1. i - 1 \in Nat /\ (i - 1) + 1 = i /\ i \in 1..i /\ (1..i) \ {i} = 1..(i - 1) /\ 1..i \in SUBSET (1..n)
    BY <1>a
  <2>2. Max(1..i) = i
    BY <2>1, TopOfSet
  <2>3. I[1..i] = RemoveFirst(I[1..(i - 1)], v[i])
    BY <1>6, <2>1, <2>2
  <2> QED
    BY <1>a, <2>1, <2>3
<1>9. F[n] = I[1..n]
  BY <1>a
<1> HIDE DEF F
<1> QED
  BY <1>a, <1>5, <1>7, <1>8, <1>9 DEF n

\* What a chunk is.
LEMMA ChunkFacts ==
  /\ \A c \in Chunks : /\ c[1] \in Blocks /\ Class(c) \in Classes /\ c \in ChunksOf(c[1])
                       /\ \E i \in 1..PerBlock[Class(c)] : c = <<c[1], i>>
  /\ \A b \in Blocks : /\ ClassOf[b] \in Classes /\ PerBlock[ClassOf[b]] \in Nat \ {0}
                       /\ ChunksOf(b) = {c \in Chunks : c[1] = b}
  /\ Nil \notin Chunks
PROOF
<1>1. ASSUME NEW b \in Blocks
      PROVE  ClassOf[b] \in Classes /\ PerBlock[ClassOf[b]] \in Nat \ {0}
  BY ChunkAssumption DEF Classes
<1>2. ASSUME NEW c \in Chunks
      PROVE  /\ c[1] \in Blocks /\ c \in ChunksOf(c[1])
             /\ \E i \in 1..PerBlock[Class(c)] : c = <<c[1], i>>
  <2>1. PICK b \in Blocks : \E i \in 1..PerBlock[ClassOf[b]] : c = <<b, i>>
    BY DEF Chunks, ChunksOf
  <2> QED
    BY <2>1 DEF ChunksOf, Class
<1>3. ASSUME NEW b \in Blocks PROVE ChunksOf(b) = {c \in Chunks : c[1] = b}
  <2>1. ChunksOf(b) \subseteq {c \in Chunks : c[1] = b}
    BY DEF Chunks, ChunksOf
  <2> QED
    BY <1>2, <2>1
<1>4. Nil \notin Chunks
  BY ChunkAssumption
<1> QED
  BY <1>1, <1>2, <1>3, <1>4 DEF Class

\* A block has finitely many chunks.
LEMMA ChunksFinite == \A b \in Blocks : IsFiniteSet(ChunksOf(b))
PROOF
<1> SUFFICES ASSUME NEW b \in Blocks PROVE IsFiniteSet(ChunksOf(b))
  OBVIOUS
<1> DEFINE n == PerBlock[ClassOf[b]]
           f == [i \in 1..n |-> <<b, i>>]
<1>1. n \in Nat
  BY ChunkFacts
<1>2. IsFiniteSet(1..n)
  BY <1>1, FS_Interval
<1>3. f \in Surjection(1..n, ChunksOf(b))
  BY DEF ChunksOf, Surjection
<1> HIDE DEF f, n
<1> QED
  BY <1>2, <1>3, FS_Surjection

\* chunk_release_block() leaves of a free list what is in other blocks.
LEMMA BlockUnlinked ==
  ASSUME NEW s \in Seq(Chunks), IsInjective(s), NEW b \in Blocks
  PROVE  /\ Unlinked(s, b) \in Seq(Chunks) /\ IsInjective(Unlinked(s, b))
         /\ Range(Unlinked(s, b)) = Range(s) \ ChunksOf(b)
PROOF
<1> DEFINE n == PerBlock[ClassOf[b]]
<1>1. n \in Nat
  BY ChunkFacts
<1>3. ChunksOf(b) = {<<b, i>> : i \in 1..n}
  BY DEF ChunksOf
<1>4. PICK F : /\ F[0] = s /\ \A i \in 1..n : F[i] = RemoveFirst(F[i - 1], <<b, i>>)
               /\ Unlinked(s, b) = F[n]
  BY <1>1, UnlinkFold
<1> HIDE DEF n
<1> DEFINE T == {m \in Nat : m <= n => /\ F[m] \in Seq(Chunks) /\ IsInjective(F[m])
                                       /\ Range(F[m]) = Range(s) \ {<<b, i>> : i \in 1..m}}
<1>5. 0 \in T
  <2>1. {<<b, i>> : i \in 1..0} = {}
    OBVIOUS
  <2> QED
    BY <1>4, <2>1
<1>6. ASSUME NEW m \in Nat, m \in T PROVE m + 1 \in T
  <2> SUFFICES ASSUME m + 1 <= n
               PROVE  /\ F[m + 1] \in Seq(Chunks) /\ IsInjective(F[m + 1])
                      /\ Range(F[m + 1]) = Range(s) \ {<<b, i>> : i \in 1..(m + 1)}
    OBVIOUS
  <2> DEFINE q == F[m]
             x == <<b, m + 1>>
  <2>1. /\ q \in Seq(Chunks) /\ IsInjective(q)
        /\ Range(q) = Range(s) \ {<<b, i>> : i \in 1..m}
    BY <1>1, <1>6
  <2>2. F[m + 1] = RemoveFirst(q, x)
    <3>1. m + 1 \in 1..n /\ (m + 1) - 1 = m
      BY <1>1
    <3> QED
      BY <1>4, <3>1
  <2> HIDE DEF q, x
  <2>3. /\ F[m + 1] \in Seq(Chunks) /\ IsInjective(F[m + 1])
        /\ Range(F[m + 1]) = Range(q) \ {x}
    BY <2>1, <2>2, RemoveProperties
  <2>4. {<<b, i>> : i \in 1..(m + 1)} = {<<b, i>> : i \in 1..m} \cup {<<b, m + 1>>}
    OBVIOUS
  <2> QED
    BY <2>1, <2>3, <2>4 DEF x
<1>7. n \in T
  <2> HIDE DEF T
  <2> QED
    BY <1>1, <1>5, <1>6, SetInduction
<1> QED
  BY <1>1, <1>3, <1>4, <1>7

------------------------------------------------------------------------------
\* The structures of the allocator.
Heaps ==
  [free : [Classes -> Seq(Chunks)], ref : [Blocks -> Int], mapped : SUBSET Blocks,
   ent : [Chunks -> Chunks \cup {Nil}], of : [Chunks -> (Chunks \X Chunks) \cup {Nil}],
   ents : [Chunks -> Seq(Chunks)], name : [Chunks -> (Chunks \X Labels) \cup {Nil}],
   groups : Seq(Chunks)]

\* Free lists and counts of references: U is in use, and P is in the free
\* lists already but still counted.
Memory(h, U, P) ==
  /\ U \cap P = {}
  /\ \A c \in U \cup P : c \in Chunks /\ c[1] \in h.mapped
  /\ \A k \in Classes : /\ IsInjective(h.free[k])
                        /\ Range(h.free[k]) = {c \in Chunks : Class(c) = k /\ c[1] \in h.mapped} \ U
  /\ \A b \in Blocks : h.ref[b] = Cardinality(ChunksOf(b) \cap (U \cup P))
\* The blocks that are mapped are those with references.
Mapped(h) == h.mapped = {b \in Blocks : h.ref[b] > 0}

\* g and h differ in memory only.
SameGroups(g, h) ==
  g.ent = h.ent /\ g.of = h.of /\ g.ents = h.ents /\ g.name = h.name /\ g.groups = h.groups

\* The chunks of a block in S are one more when a chunk of it joins S.
LEMMA CountChunks ==
  ASSUME NEW S
  PROVE  /\ \A b \in Blocks : /\ Cardinality(ChunksOf(b) \cap S) \in Nat
                              /\ Cardinality(ChunksOf(b) \cap S) = 0 <=> ChunksOf(b) \cap S = {}
         /\ \A c \in Chunks \ S, b \in Blocks :
              Cardinality(ChunksOf(b) \cap (S \cup {c})) =
                IF b = c[1] THEN Cardinality(ChunksOf(b) \cap S) + 1 ELSE Cardinality(ChunksOf(b) \cap S)
PROOF
<1>1. ASSUME NEW b \in Blocks PROVE IsFiniteSet(ChunksOf(b) \cap S)
  BY ChunksFinite, FS_Intersection
<1>2. ASSUME NEW b \in Blocks
      PROVE  /\ Cardinality(ChunksOf(b) \cap S) \in Nat
             /\ Cardinality(ChunksOf(b) \cap S) = 0 <=> ChunksOf(b) \cap S = {}
  BY <1>1, FS_CardinalityType, FS_EmptySet
<1>3. ASSUME NEW c \in Chunks \ S, NEW b \in Blocks
      PROVE  Cardinality(ChunksOf(b) \cap (S \cup {c})) =
                IF b = c[1] THEN Cardinality(ChunksOf(b) \cap S) + 1 ELSE Cardinality(ChunksOf(b) \cap S)
  <2>1. CASE b = c[1]
    <3>1. ChunksOf(b) \cap (S \cup {c}) = (ChunksOf(b) \cap S) \cup {c}
      BY <2>1, ChunkFacts
    <3>2. c \notin ChunksOf(b) \cap S
      OBVIOUS
    <3>3. Cardinality((ChunksOf(b) \cap S) \cup {c}) = Cardinality(ChunksOf(b) \cap S) + 1
      BY <1>1, <3>2, FS_AddElement
    <3> QED
      BY <2>1, <3>1, <3>3
  <2>2. CASE b # c[1]
    <3>1. ChunksOf(b) \cap (S \cup {c}) = ChunksOf(b) \cap S
      BY <2>2, ChunkFacts
    <3> QED
      BY <2>2, <3>1
  <2> QED
    BY <2>1, <2>2
<1> QED
  BY <1>2, <1>3

\* A new block whose chunks are all free.
LEMMA NewBlock ==
  ASSUME NEW h \in Heaps, NEW U, Memory(h, U, {}), Mapped(h),
         NEW b \in Blocks \ h.mapped, h.free[ClassOf[b]] = <<>>
  PROVE  LET g == ChunkNewBlock(h, b)
         IN /\ g \in Heaps /\ SameGroups(g, h) /\ g.ref = h.ref /\ g.mapped = h.mapped \cup {b}
            /\ Memory(g, U, {}) /\ g.free[ClassOf[b]] # <<>>
            /\ \A c \in Range(g.free[ClassOf[b]]) : c[1] = b
PROOF
<1> DEFINE g == ChunkNewBlock(h, b)
           n == PerBlock[ClassOf[b]]
           s == [i \in 1..n |-> <<b, n + 1 - i>>]
<1>1. n \in Nat \ {0} /\ ClassOf[b] \in Classes /\ ChunksOf(b) = {<<b, i>> : i \in 1..n}
  BY ChunkFacts DEF ChunksOf
<1>2. s \in Seq(Chunks) /\ Len(s) = n /\ IsInjective(s)
  <2>1. \A i \in 1..n : <<b, n + 1 - i>> \in Chunks
    BY <1>1, ChunkFacts
  <2>2. s \in Seq(Chunks) /\ Len(s) = n
    BY <1>1, <2>1
  <2> QED
    BY <1>1, <2>2 DEF IsInjective
<1>3. Range(s) = ChunksOf(b)
  <2>1. \A i \in 1..n : n + 1 - i \in 1..n /\ n + 1 - (n + 1 - i) = i
    BY <1>1
  <2>2. Range(s) \subseteq ChunksOf(b)
    BY <1>1, <2>1 DEF Range
  <2>3. ASSUME NEW i \in 1..n PROVE <<b, i>> \in Range(s)
    <3>1. s[n + 1 - i] = <<b, i>>
      BY <1>1, <2>1
    <3> QED
      BY <1>2, <2>1, <3>1 DEF Range
  <2> QED
    BY <1>1, <2>2, <2>3
<1>4. g = [h EXCEPT !.mapped = h.mapped \cup {b}, !.free[ClassOf[b]] = s]
  <2>1. s \o <<>> = s
    BY <1>2
  <2> QED
    BY <1>1, <2>1, Zenon DEF ChunkNewBlock
<1> HIDE DEF g, s
<1>5. /\ g \in Heaps /\ SameGroups(g, h) /\ g.ref = h.ref /\ g.mapped = h.mapped \cup {b}
      /\ g.free = [h.free EXCEPT ![ClassOf[b]] = s]
  BY <1>1, <1>2, <1>4 DEF Heaps, SameGroups
<1>6. \A c \in U : c \in Chunks /\ c[1] # b
  BY DEF Memory
<1>7. Memory(g, U, {})
  <2>1. ASSUME NEW k \in Classes
        PROVE  /\ IsInjective(g.free[k])
               /\ Range(g.free[k]) = {c \in Chunks : Class(c) = k /\ c[1] \in g.mapped} \ U
    <3>1. CASE k = ClassOf[b]
      <4>1. g.free[k] = s /\ h.free[k] = <<>>
        BY <1>1, <1>5, <3>1 DEF Heaps
      <4>2. {c \in Chunks : Class(c) = k /\ c[1] \in h.mapped} \ U = {}
        <5>1. Range(<<>>) = {}
          BY DEF Range
        <5> QED
          BY <4>1, <5>1 DEF Memory
      <4>3. {c \in Chunks : Class(c) = k /\ c[1] \in g.mapped} \ U = ChunksOf(b)
        BY <1>5, <1>6, <3>1, <4>2, ChunkFacts DEF Class
      <4> QED
        BY <1>2, <1>3, <4>1, <4>3
    <3>2. CASE k # ClassOf[b]
      <4>1. g.free[k] = h.free[k]
        BY <1>5, <3>2 DEF Heaps
      <4>2. {c \in Chunks : Class(c) = k /\ c[1] \in g.mapped} = {c \in Chunks : Class(c) = k /\ c[1] \in h.mapped}
        BY <1>5, <3>2 DEF Class
      <4> QED
        BY <4>1, <4>2 DEF Memory
    <3> QED
      BY <3>1, <3>2
  <2> QED
    BY <1>5, <2>1 DEF Memory
<1>8. g.free[ClassOf[b]] = s
  BY <1>1, <1>5 DEF Heaps
<1>9. s # <<>> /\ \A c \in Range(s) : c[1] = b
  BY <1>1, <1>2, <1>3, ChunkFacts
<1> QED
  BY <1>5, <1>7, <1>8, <1>9 DEF g

\* The head of a free list is put to use.
LEMMA TakeHead ==
  ASSUME NEW h \in Heaps, NEW U, Memory(h, U, {}), NEW k \in Classes, h.free[k] # <<>>,
         {b \in Blocks : h.ref[b] > 0} \cup {Head(h.free[k])[1]} = h.mapped
  PROVE  LET r == TakeChunk(h, k)
         IN /\ r.ok
            /\ r.c \in Chunks \ U /\ Class(r.c) = k
            /\ r.h \in Heaps /\ SameGroups(r.h, h) /\ Memory(r.h, U \cup {r.c}, {}) /\ Mapped(r.h)
PROOF
<1> DEFINE r == TakeChunk(h, k)
           c == Head(h.free[k])
           g == r.h
<1>0. r.ok = TRUE /\ r.c = c /\ g = [h EXCEPT !.free[k] = Tail(h.free[k]), !.ref[c[1]] = h.ref[c[1]] + 1]
  BY DEF TakeChunk, Heaps
<1> HIDE DEF r
<1>01. c = Head(h.free[k]) /\ {b \in Blocks : h.ref[b] > 0} \cup {c[1]} = h.mapped
  OBVIOUS
<1> HIDE DEF c
<1>1. /\ h.free[k] \in Seq(Chunks) /\ IsInjective(h.free[k])
      /\ Range(h.free[k]) = {x \in Chunks : Class(x) = k /\ x[1] \in h.mapped} \ U
  BY DEF Heaps, Memory
<1>2. /\ Tail(h.free[k]) \in Seq(Chunks) /\ IsInjective(Tail(h.free[k])) /\ c \in Range(h.free[k])
      /\ Range(Tail(h.free[k])) = Range(h.free[k]) \ {c}
  BY <1>01, <1>1, QueueProperties
<1>3. c \in Chunks \ U /\ Class(c) = k /\ c[1] \in h.mapped /\ c[1] \in Blocks
  BY <1>1, <1>2, ChunkFacts
<1>4. /\ g \in Heaps /\ SameGroups(g, h) /\ g.mapped = h.mapped
      /\ g.free = [h.free EXCEPT ![k] = Tail(h.free[k])]
      /\ g.ref = [h.ref EXCEPT ![c[1]] = h.ref[c[1]] + 1]
  <2> DEFINE f == [h.free EXCEPT ![k] = Tail(h.free[k])]
             x == [h.ref EXCEPT ![c[1]] = h.ref[c[1]] + 1]
  <2>1. h.free \in [Classes -> Seq(Chunks)] /\ h.ref \in [Blocks -> Int]
    BY DEF Heaps
  <2>2. f \in [Classes -> Seq(Chunks)] /\ x \in [Blocks -> Int]
    BY <1>2, <1>3, <2>1
  <2>3. g = [h EXCEPT !.free = f, !.ref = x]
    BY <1>0, Zenon DEF Heaps
  <2> HIDE DEF f, x
  <2>4. g \in Heaps /\ SameGroups(g, h) /\ g.mapped = h.mapped /\ g.free = f /\ g.ref = x
    BY <2>2, <2>3 DEF Heaps, SameGroups
  <2> QED
    BY <2>4 DEF f, x
<1>5. ASSUME NEW j \in Classes
      PROVE  /\ IsInjective(g.free[j])
             /\ Range(g.free[j]) = {x \in Chunks : Class(x) = j /\ x[1] \in g.mapped} \ (U \cup {c})
  <2>1. CASE j = k
    <3>1. g.free[j] = Tail(h.free[k])
      BY <1>4, <2>1 DEF Heaps
    <3> QED
      BY <1>1, <1>2, <1>4, <2>1, <3>1
  <2>2. CASE j # k
    <3>1. g.free[j] = h.free[j]
      BY <1>4, <2>2 DEF Heaps
    <3> QED
      BY <1>3, <1>4, <2>2, <3>1 DEF Memory
  <2> QED
    BY <2>1, <2>2
<1>6. ASSUME NEW b \in Blocks PROVE g.ref[b] = Cardinality(ChunksOf(b) \cap (U \cup {c}))
  <2>1. h.ref[b] = Cardinality(ChunksOf(b) \cap U)
    BY DEF Memory
  <2>2. Cardinality(ChunksOf(b) \cap (U \cup {c})) =
          IF b = c[1] THEN Cardinality(ChunksOf(b) \cap U) + 1 ELSE Cardinality(ChunksOf(b) \cap U)
    <3>1. c \in Chunks \ U
      BY <1>3
    <3> QED
      BY <3>1, CountChunks, SMTT(40)
  <2> QED
    BY <1>3, <1>4, <2>1, <2>2 DEF Heaps
<1>7. Memory(g, U \cup {c}, {})
  <2>1. \A x \in (U \cup {c}) \cup {} : x \in Chunks /\ x[1] \in g.mapped
    BY <1>3, <1>4 DEF Memory
  <2>2. \A b \in Blocks : g.ref[b] = Cardinality(ChunksOf(b) \cap ((U \cup {c}) \cup {}))
    <3>1. (U \cup {c}) \cup {} = U \cup {c}
      OBVIOUS
    <3> QED
      BY <1>6, <3>1
  <2> QED
    BY <1>5, <2>1, <2>2 DEF Memory
<1>8. Mapped(g)
  <2>1. h.ref[c[1]] >= 0
    <3>1. \A b \in Blocks : h.ref[b] = Cardinality(ChunksOf(b) \cap U)
      <4>1. U \cup {} = U
        OBVIOUS
      <4> QED
        BY <4>1 DEF Memory
    <3>2. \A b \in Blocks : Cardinality(ChunksOf(b) \cap U) \in Nat
      BY CountChunks
    <3>3. \A b \in Blocks : h.ref[b] >= 0
      <4> SUFFICES ASSUME NEW b \in Blocks PROVE h.ref[b] >= 0
        OBVIOUS
      <4> DEFINE m == Cardinality(ChunksOf(b) \cap U)
      <4>1. m \in Nat /\ h.ref[b] = m
        BY <3>1, <3>2
      <4> HIDE DEF m
      <4> QED
        BY <4>1
    <3> QED
      BY <1>3, <3>3
  <2>2. \A b \in Blocks : g.ref[b] = IF b = c[1] THEN h.ref[b] + 1 ELSE h.ref[b]
    BY <1>3, <1>4 DEF Heaps
  <2>3. h.ref \in [Blocks -> Int]
    BY DEF Heaps
  <2> QED
    BY <1>01, <1>3, <1>4, <2>1, <2>2, <2>3 DEF Mapped
<1> QED
  BY <1>0, <1>3, <1>4, <1>7, <1>8 DEF r

\* chunk_alloc()
LEMMA AllocMemory ==
  ASSUME NEW h \in Heaps, NEW U, Memory(h, U, {}), Mapped(h), NEW k \in Classes
  PROVE  LET r == ChunkAlloc(h, k)
         IN /\ r.ok \in BOOLEAN
            /\ r.ok => /\ r.c \in Chunks \ U /\ Class(r.c) = k
                       /\ r.h \in Heaps /\ SameGroups(r.h, h)
                       /\ Memory(r.h, U \cup {r.c}, {}) /\ Mapped(r.h)
            /\ ~r.ok => r.h = h
PROOF
<1> DEFINE spare == {b \in Blocks \ h.mapped : ClassOf[b] = k}
<1>1. CASE h.free[k] # <<>>
  <2>1. ChunkAlloc(h, k) = TakeChunk(h, k)
    BY <1>1 DEF ChunkAlloc
  <2>2. {b \in Blocks : h.ref[b] > 0} \cup {Head(h.free[k])[1]} = h.mapped
    <3>1. Head(h.free[k]) \in Range(h.free[k])
      BY <1>1, QueueProperties DEF Heaps, Memory
    <3>2. Head(h.free[k])[1] \in h.mapped
      BY <3>1 DEF Memory
    <3> QED
      BY <3>2 DEF Mapped
  <2> DEFINE r == TakeChunk(h, k)
  <2>3. /\ r.ok
        /\ r.c \in Chunks \ U /\ Class(r.c) = k
        /\ r.h \in Heaps /\ SameGroups(r.h, h) /\ Memory(r.h, U \cup {r.c}, {}) /\ Mapped(r.h)
    BY <1>1, <2>2, TakeHead
  <2> HIDE DEF r
  <2> QED
    BY <2>1, <2>3 DEF r
<1>2. CASE h.free[k] = <<>> /\ spare # {}
  <2> DEFINE b == CHOOSE x \in spare : TRUE
             f == ChunkNewBlock(h, b)
  <2>1. ChunkAlloc(h, k) = TakeChunk(f, k)
    BY <1>2 DEF ChunkAlloc
  <2>2. b \in Blocks \ h.mapped /\ ClassOf[b] = k
    BY <1>2
  <2> HIDE DEF b
  <2>3. /\ f \in Heaps /\ SameGroups(f, h) /\ f.ref = h.ref /\ f.mapped = h.mapped \cup {b}
        /\ Memory(f, U, {}) /\ f.free[k] # <<>>
        /\ \A x \in Range(f.free[k]) : x[1] = b
    BY <1>2, <2>2, NewBlock
  <2> HIDE DEF f
  <2>4. {x \in Blocks : f.ref[x] > 0} \cup {Head(f.free[k])[1]} = f.mapped
    <3>1. Head(f.free[k]) \in Range(f.free[k])
      BY <2>3, QueueProperties DEF Heaps, Memory
    <3>2. Head(f.free[k])[1] = b
      BY <2>3, <3>1
    <3> QED
      BY <2>3, <3>2 DEF Mapped
  <2> DEFINE r == TakeChunk(f, k)
  <2>5. /\ r.ok
        /\ r.c \in Chunks \ U /\ Class(r.c) = k
        /\ r.h \in Heaps /\ SameGroups(r.h, f) /\ Memory(r.h, U \cup {r.c}, {}) /\ Mapped(r.h)
    BY <2>3, <2>4, TakeHead
  <2> HIDE DEF r
  <2>6. SameGroups(r.h, h)
    BY <2>3, <2>5 DEF SameGroups
  <2> QED
    BY <2>1, <2>5, <2>6 DEF r
<1>3. CASE h.free[k] = <<>> /\ spare = {}
  <2>1. ChunkAlloc(h, k) = [ok |-> FALSE, c |-> Nil, h |-> h]
    BY <1>3 DEF ChunkAlloc
  <2> QED
    BY <2>1
<1> QED
  BY <1>1, <1>2, <1>3

\* The first end of unchunk(): the chunk is free, and still counted.
LEMMA PutFreeMemory ==
  ASSUME NEW h \in Heaps, NEW U, NEW P, Memory(h, U, P), NEW c \in U
  PROVE  LET g == PutFree(h, c)
         IN /\ g \in Heaps /\ SameGroups(g, h) /\ Memory(g, U \ {c}, P \cup {c})
            /\ Mapped(h) => Mapped(g)
PROOF
<1> DEFINE k == Class(c)
           f == <<c>> \o h.free[k]
           x == [h.free EXCEPT ![k] = f]
           g == PutFree(h, c)
<1>1. c \in Chunks /\ k \in Classes /\ c[1] \in h.mapped /\ c \notin P
  BY ChunkFacts DEF Memory
<1>2. /\ h.free \in [Classes -> Seq(Chunks)] /\ h.free[k] \in Seq(Chunks) /\ IsInjective(h.free[k])
      /\ Range(h.free[k]) = {y \in Chunks : Class(y) = k /\ y[1] \in h.mapped} \ U
  BY <1>1 DEF Heaps, Memory
<1>3. f \in Seq(Chunks) /\ IsInjective(f) /\ Range(f) = Range(h.free[k]) \cup {c}
  BY <1>1, <1>2, InsertProperties
<1>4. g = [h EXCEPT !.free = x]
  BY Zenon DEF PutFree, Heaps
<1> HIDE DEF f, g
<1>5. x \in [Classes -> Seq(Chunks)]
  BY <1>1, <1>2, <1>3
<1>6. x[k] = f /\ \A j \in Classes \ {k} : x[j] = h.free[j]
  BY <1>1, <1>2
<1> HIDE DEF x
<1>7. g \in Heaps /\ SameGroups(g, h) /\ g.free = x /\ g.mapped = h.mapped /\ g.ref = h.ref
  BY <1>4, <1>5 DEF Heaps, SameGroups
<1>8. ASSUME NEW j \in Classes
      PROVE  /\ IsInjective(g.free[j])
             /\ Range(g.free[j]) = {y \in Chunks : Class(y) = j /\ y[1] \in g.mapped} \ (U \ {c})
  <2>1. CASE j = k
    BY <1>1, <1>2, <1>3, <1>6, <1>7, <2>1
  <2>2. CASE j # k
    <3>1. g.free[j] = h.free[j]
      BY <1>6, <1>7, <2>2
    <3>2. {y \in Chunks : Class(y) = j /\ y[1] \in h.mapped} \ U =
            {y \in Chunks : Class(y) = j /\ y[1] \in h.mapped} \ (U \ {c})
      BY <2>2
    <3> QED
      BY <1>7, <3>1, <3>2 DEF Memory
  <2> QED
    BY <2>1, <2>2
<1>9. Memory(g, U \ {c}, P \cup {c})
  <2>1. (U \ {c}) \cup (P \cup {c}) = U \cup P
    OBVIOUS
  <2> QED
    BY <1>1, <1>7, <1>8, <2>1 DEF Memory
<1> QED
  BY <1>7, <1>9 DEF g, Mapped

\* The other end: the block is unmapped with its last chunk.
LEMMA UnrefMemory ==
  ASSUME NEW h \in Heaps, NEW U, NEW P, Memory(h, U, P), Mapped(h), NEW c \in P
  PROVE  LET g == Unref(h, c)
         IN g \in Heaps /\ SameGroups(g, h) /\ Memory(g, U, P \ {c}) /\ Mapped(g)
PROOF
<1> DEFINE b == c[1]
           Q == P \ {c}
           x == [h.ref EXCEPT ![b] = h.ref[b] - 1]
           f == [h EXCEPT !.ref = x]
           g == Unref(h, c)
<1>1. c \in Chunks /\ b \in Blocks /\ b \in h.mapped /\ c \notin U \cup Q
  BY ChunkFacts DEF Memory
<1>2. \A y \in Blocks : Cardinality(ChunksOf(y) \cap (U \cup Q)) \in Nat
  BY CountChunks
<1>3. h.ref \in [Blocks -> Int] /\ x \in [Blocks -> Int] /\ x[b] = h.ref[b] - 1
      /\ \A y \in Blocks \ {b} : x[y] = h.ref[y]
  BY <1>1 DEF Heaps
<1>4. ASSUME NEW y \in Blocks PROVE x[y] = Cardinality(ChunksOf(y) \cap (U \cup Q))
  <2>1. U \cup P = (U \cup Q) \cup {c}
    OBVIOUS
  <2>2. h.ref[y] = Cardinality(ChunksOf(y) \cap ((U \cup Q) \cup {c}))
    BY <2>1 DEF Memory
  <2>3. Cardinality(ChunksOf(y) \cap ((U \cup Q) \cup {c})) =
          IF y = c[1] THEN Cardinality(ChunksOf(y) \cap (U \cup Q)) + 1
          ELSE Cardinality(ChunksOf(y) \cap (U \cup Q))
    BY <1>1, CountChunks
  <2> QED
    BY <1>2, <1>3, <2>2, <2>3
<1>5. g = IF x[b] = 0 THEN ChunkReleaseBlock(f, b) ELSE f
  <2>1. f = [h EXCEPT !.ref[b] = @ - 1]
    BY Zenon DEF Heaps
  <2>2. f.ref = x
    BY DEF Heaps
  <2> QED
    BY <2>1, <2>2, Zenon DEF Unref
<1> HIDE DEF x, g
<1>6. f \in Heaps /\ SameGroups(f, h) /\ f.mapped = h.mapped /\ f.ref = x /\ f.free = h.free
  BY <1>3 DEF Heaps, SameGroups
<1> HIDE DEF f
<1>7. Memory(f, U, Q)
  BY <1>4, <1>6 DEF Memory
<1>8. CASE x[b] # 0
  <2>1. Mapped(f)
    <3>1. x[b] > 0
      <4> DEFINE m == Cardinality(ChunksOf(b) \cap (U \cup Q))
      <4>1. m \in Nat /\ x[b] = m
        BY <1>1, <1>2, <1>4
      <4> HIDE DEF m
      <4> QED
        BY <1>8, <4>1
    <3> QED
      BY <1>1, <1>3, <1>6, <3>1 DEF Mapped
  <2> QED
    BY <1>5, <1>6, <1>7, <1>8, <2>1 DEF g
<1>9. CASE x[b] = 0
  <2> DEFINE k == ClassOf[b]
             s == Unlinked(h.free[k], b)
             z == [h.free EXCEPT ![k] = s]
  <2>1. k \in Classes
    BY <1>1, ChunkFacts
  <2>2. /\ h.free \in [Classes -> Seq(Chunks)] /\ h.free[k] \in Seq(Chunks) /\ IsInjective(h.free[k])
        /\ Range(h.free[k]) = {y \in Chunks : Class(y) = k /\ y[1] \in h.mapped} \ U
    BY <2>1 DEF Heaps, Memory
  <2>3. s \in Seq(Chunks) /\ IsInjective(s) /\ Range(s) = Range(h.free[k]) \ ChunksOf(b)
    BY <1>1, <2>2, BlockUnlinked
  <2>4. g = [f EXCEPT !.mapped = h.mapped \ {b}, !.free = z]
    <3>1. ChunkReleaseBlock(f, b) = [f EXCEPT !.mapped = f.mapped \ {b}, !.free[k] = Unlinked(f.free[k], b)]
      BY Zenon DEF ChunkReleaseBlock
    <3>2. ChunkReleaseBlock(f, b) = [f EXCEPT !.mapped = h.mapped \ {b}, !.free[k] = s]
      BY <1>6, <3>1
    <3> HIDE DEF s
    <3>3. f.free = h.free
      BY <1>6
    <3> QED
      BY <1>5, <1>9, <3>2, <3>3, Zenon
  <2> HIDE DEF s
  <2>5. z \in [Classes -> Seq(Chunks)] /\ z[k] = s /\ \A j \in Classes \ {k} : z[j] = h.free[j]
    BY <2>1, <2>2, <2>3
  <2> HIDE DEF z
  <2>6. g \in Heaps /\ SameGroups(g, h) /\ g.free = z /\ g.mapped = h.mapped \ {b} /\ g.ref = x
    BY <1>6, <2>4, <2>5 DEF Heaps, SameGroups
  <2>7. \A y \in U \cup Q : y[1] # b
    <3>1. Cardinality(ChunksOf(b) \cap (U \cup Q)) = 0
      BY <1>1, <1>4, <1>9
    <3>2. ChunksOf(b) \cap (U \cup Q) = {}
      BY <1>1, <3>1, CountChunks
    <3>3. \A y \in U \cup Q : y \in Chunks
      BY <1>7 DEF Memory
    <3> QED
      BY <1>1, <3>2, <3>3, ChunkFacts
  <2>8. ASSUME NEW j \in Classes
        PROVE  /\ IsInjective(g.free[j])
               /\ Range(g.free[j]) = {y \in Chunks : Class(y) = j /\ y[1] \in g.mapped} \ U
    <3>1. CASE j = k
      <4>1. ChunksOf(b) = {y \in Chunks : y[1] = b}
        BY <1>1, ChunkFacts
      <4> QED
        BY <2>2, <2>3, <2>5, <2>6, <3>1, <4>1
    <3>2. CASE j # k
      <4>1. g.free[j] = h.free[j]
        BY <2>5, <2>6, <3>2
      <4>2. {y \in Chunks : Class(y) = j /\ y[1] \in h.mapped} = {y \in Chunks : Class(y) = j /\ y[1] \in g.mapped}
        BY <2>6, <3>2 DEF Class
      <4> QED
        BY <4>1, <4>2 DEF Memory
    <3> QED
      BY <3>1, <3>2
  <2>9. Memory(g, U, Q)
    <3>1. \A y \in U \cup Q : y \in Chunks /\ y[1] \in g.mapped
      BY <1>6, <1>7, <2>6, <2>7 DEF Memory
    <3> QED
      BY <1>4, <1>7, <2>6, <2>8, <3>1 DEF Memory
  <2>10. Mapped(g)
    BY <1>3, <1>9, <2>6 DEF Mapped
  <2> QED
    BY <2>6, <2>9, <2>10 DEF g
<1> QED
  BY <1>8, <1>9

\* unchunk() of a chunk without an entry.
LEMMA PlainMemory ==
  ASSUME NEW h \in Heaps, NEW U, NEW P, Memory(h, U, P), Mapped(h), NEW c \in U
  PROVE  LET g == UnchunkPlain(h, c)
         IN g \in Heaps /\ SameGroups(g, h) /\ Memory(g, U \ {c}, P) /\ Mapped(g)
PROOF
<1> DEFINE f == PutFree(h, c)
           g == Unref(f, c)
<1>1. f \in Heaps /\ SameGroups(f, h) /\ Memory(f, U \ {c}, P \cup {c}) /\ Mapped(f)
  BY PutFreeMemory
<1> HIDE DEF f
<1>2. c \in P \cup {c}
  OBVIOUS
<1>3. g \in Heaps /\ SameGroups(g, f) /\ Memory(g, U \ {c}, (P \cup {c}) \ {c}) /\ Mapped(g)
  BY <1>1, <1>2, UnrefMemory
<1>4. (P \cup {c}) \ {c} = P
  BY DEF Memory
<1> HIDE DEF g
<1>5. SameGroups(g, h)
  BY <1>1, <1>3 DEF SameGroups
<1>6. UnchunkPlain(h, c) = g
  BY DEF UnchunkPlain, f, g
<1> QED
  BY <1>3, <1>4, <1>5, <1>6

\* The chunks that are entries, groups and names of groups, and all chunks
\* that have an owner: the program (L), the allocator, or nobody (X).
EntryChunks(h) == {e \in Chunks : h.of[e] # Nil}
GroupChunks(h) == {g \in Chunks : h.name[g] # Nil}
NameChunks(h) == {h.name[g][1] : g \in GroupChunks(h)}
Owned(h, L, X) == DOMAIN L \cup EntryChunks(h) \cup GroupChunks(h) \cup NameChunks(h) \cup X
\* No chunk has two owners.
Apart(h, L, X) ==
  /\ DOMAIN L \cap (EntryChunks(h) \cup GroupChunks(h) \cup NameChunks(h) \cup X) = {}
  /\ EntryChunks(h) \cap (GroupChunks(h) \cup NameChunks(h) \cup X) = {}
  /\ GroupChunks(h) \cap (NameChunks(h) \cup X) = {} /\ NameChunks(h) \cap X = {}

\* The groups, their entries and the chunks L that the program holds.
Grouped(h, L) ==
  /\ IsInjective(h.groups) /\ Range(h.groups) = GroupChunks(h)
  /\ \A g \in Chunks : /\ IsInjective(h.ents[g])
                       /\ Range(h.ents[g]) = {e \in EntryChunks(h) : h.of[e][2] = g}
  /\ \A e \in EntryChunks(h) : /\ h.of[e][1] \in DOMAIN L /\ h.of[e][2] \in GroupChunks(h)
                           /\ h.ent[h.of[e][1]] = e /\ L[h.of[e][1]] = h.name[h.of[e][2]][2]
  /\ \A c \in Chunks : h.ent[c] # Nil => h.ent[c] \in EntryChunks(h) /\ h.of[h.ent[c]][1] = c
  /\ \A x, y \in GroupChunks(h) : h.name[x][1] = h.name[y][1] \/ h.name[x][2] = h.name[y][2] => x = y
  /\ DOMAIN L \subseteq Chunks /\ L \in [DOMAIN L -> Labels \cup {NoLabel}]
  /\ \A c \in DOMAIN L : L[c] # NoLabel => h.ent[c] # Nil

\* The allocator between two steps.
HeapInv(h, L, X) ==
  /\ h \in Heaps /\ Grouped(h, L) /\ Apart(h, L, X)
  /\ Memory(h, Owned(h, L, X), {}) /\ Mapped(h)

\* No group is empty.
Filled(h) == \A g \in GroupChunks(h) : h.ents[g] # <<>>

------------------------------------------------------------------------------
\* What memory does leaves the groups as they are.
LEMMA SameParts ==
  ASSUME NEW g, NEW h, SameGroups(g, h)
  PROVE  /\ EntryChunks(g) = EntryChunks(h) /\ GroupChunks(g) = GroupChunks(h) /\ NameChunks(g) = NameChunks(h)
         /\ \A L, X : Owned(g, L, X) = Owned(h, L, X) /\ (Apart(h, L, X) => Apart(g, L, X))
         /\ \A L : Grouped(h, L) => Grouped(g, L)
         /\ Filled(h) => Filled(g)
PROOF
<1>1. EntryChunks(g) = EntryChunks(h) /\ GroupChunks(g) = GroupChunks(h)
  BY DEF SameGroups, EntryChunks, GroupChunks
<1>2. NameChunks(g) = NameChunks(h)
  BY <1>1 DEF SameGroups, NameChunks
<1>3. \A L, X : Owned(g, L, X) = Owned(h, L, X) /\ (Apart(h, L, X) => Apart(g, L, X))
  BY <1>1, <1>2 DEF Owned, Apart
<1>4. \A L : Grouped(h, L) => Grouped(g, L)
  BY <1>1 DEF SameGroups, Grouped
<1>5. Filled(h) => Filled(g)
  BY <1>1 DEF SameGroups, Filled
<1> QED
  BY <1>1, <1>2, <1>3, <1>4, <1>5

\* A chunk that is nobody's has no part in the groups.
LEMMA PartsOfChunks ==
  ASSUME NEW h \in Heaps, NEW L, Grouped(h, L)
  PROVE  /\ EntryChunks(h) \subseteq Chunks /\ GroupChunks(h) \subseteq Chunks /\ NameChunks(h) \subseteq Chunks
         /\ \A e \in EntryChunks(h) : h.of[e] \in Chunks \X Chunks
         /\ \A g \in GroupChunks(h) : h.name[g] \in Chunks \X Labels
         /\ \A c \in Chunks \ DOMAIN L : h.ent[c] = Nil
PROOF
<1>1. \A e \in EntryChunks(h) : h.of[e] \in Chunks \X Chunks
  BY DEF EntryChunks, Heaps
<1>2. \A g \in GroupChunks(h) : h.name[g] \in Chunks \X Labels
  BY DEF GroupChunks, Heaps
<1>3. NameChunks(h) \subseteq Chunks
  BY <1>2 DEF NameChunks
<1>4. \A c \in Chunks \ DOMAIN L : h.ent[c] = Nil
  BY DEF Grouped
<1> QED
  BY <1>1, <1>2, <1>3, <1>4 DEF EntryChunks, GroupChunks

\* A chunk that is held without a label is in no group.
LEMMA HoldUngrouped ==
  ASSUME NEW h, NEW L, Grouped(h, L), NEW c \in Chunks \ DOMAIN L
  PROVE  LET M == Hold(L, c, NoLabel) IN Grouped(h, M) /\ DOMAIN M = DOMAIN L \cup {c}
PROOF
<1> DEFINE M == Hold(L, c, NoLabel)
<1>1. DOMAIN M = DOMAIN L \cup {c} /\ M[c] = NoLabel /\ \A x \in DOMAIN L : M[x] = L[x]
  BY DEF Hold
<1>2. M \in [DOMAIN M -> Labels \cup {NoLabel}]
  <2>1. L \in [DOMAIN L -> Labels \cup {NoLabel}]
    BY DEF Grouped
  <2> QED
    BY <2>1 DEF Hold
<1> HIDE DEF M
<1>3. Grouped(h, M)
  BY <1>1, <1>2 DEF Grouped
<1> QED
  BY <1>1, <1>3 DEF M

\* chunk_alloc(): the chunk is one more that is held, without a label.
LEMMA AllocHeld ==
  ASSUME NEW h, NEW L, NEW X, HeapInv(h, L, X), NEW k \in Classes
  PROVE  LET r == ChunkAlloc(h, k)
         IN /\ r.ok \in BOOLEAN
            /\ r.ok => /\ r.c \in Chunks \ DOMAIN L /\ SameGroups(r.h, h)
                       /\ HeapInv(r.h, Hold(L, r.c, NoLabel), X)
            /\ ~r.ok => r.h = h
PROOF
<1> DEFINE r == ChunkAlloc(h, k)
           U == Owned(h, L, X)
           M == Hold(L, r.c, NoLabel)
<1>1. /\ r.ok \in BOOLEAN
      /\ r.ok => /\ r.c \in Chunks \ U /\ Class(r.c) = k
                 /\ r.h \in Heaps /\ SameGroups(r.h, h)
                 /\ Memory(r.h, U \cup {r.c}, {}) /\ Mapped(r.h)
      /\ ~r.ok => r.h = h
  BY AllocMemory DEF HeapInv
<1> HIDE DEF r
<1> SUFFICES ASSUME r.ok
             PROVE  r.c \in Chunks \ DOMAIN L /\ SameGroups(r.h, h) /\ HeapInv(r.h, M, X)
  BY <1>1 DEF r
<1>2. r.c \in Chunks /\ r.c \notin DOMAIN L /\ r.c \notin U
  BY <1>1 DEF Owned
<1>3. Grouped(h, M) /\ DOMAIN M = DOMAIN L \cup {r.c}
  BY <1>2, HoldUngrouped DEF HeapInv
<1> HIDE DEF M
<1>4. Grouped(r.h, M)
  BY <1>1, <1>3, SameParts
<1>5. Apart(r.h, M, X) /\ Owned(r.h, M, X) = U \cup {r.c}
  <2>1. Apart(h, L, X)
    BY DEF HeapInv
  <2>2. Apart(h, M, X) /\ Owned(h, M, X) = U \cup {r.c}
    BY <1>2, <1>3, <2>1 DEF Apart, Owned
  <2> QED
    BY <1>1, <2>2, SameParts
<1> QED
  BY <1>1, <1>2, <1>4, <1>5 DEF HeapInv

\* A chunk without a label leaves the groups as they are when it goes.
LEMMA DropUngrouped ==
  ASSUME NEW h, NEW L, Grouped(h, L), NEW c \in DOMAIN L, h.ent[c] = Nil
  PROVE  Grouped(h, Drop(L, {c})) /\ DOMAIN Drop(L, {c}) = DOMAIN L \ {c}
PROOF
<1> DEFINE M == Drop(L, {c})
<1>1. DOMAIN M = DOMAIN L \ {c} /\ \A x \in DOMAIN M : M[x] = L[x]
  BY DEF Drop
<1>2. M \in [DOMAIN M -> Labels \cup {NoLabel}]
  <2>1. L \in [DOMAIN L -> Labels \cup {NoLabel}]
    BY DEF Grouped
  <2> QED
    BY <1>1, <2>1 DEF Drop
<1> HIDE DEF M
<1>3. \A e \in EntryChunks(h) : h.of[e][1] # c
  BY ChunkFacts DEF Grouped, EntryChunks
<1>4. Grouped(h, M)
  BY <1>1, <1>2, <1>3 DEF Grouped
<1> QED
  BY <1>1, <1>4 DEF M

\* A chunk without a label is given back.
LEMMA PlainHeld ==
  ASSUME NEW h, NEW L, NEW X, HeapInv(h, L, X), NEW c \in DOMAIN L, h.ent[c] = Nil
  PROVE  LET g == UnchunkPlain(h, c) IN SameGroups(g, h) /\ HeapInv(g, Drop(L, {c}), X)
PROOF
<1> DEFINE g == UnchunkPlain(h, c)
           U == Owned(h, L, X)
           M == Drop(L, {c})
<1>1. g \in Heaps /\ SameGroups(g, h) /\ Memory(g, U \ {c}, {}) /\ Mapped(g)
  <2>1. c \in U
    BY DEF Owned
  <2> QED
    BY <2>1, PlainMemory DEF HeapInv
<1> HIDE DEF g
<1>2. Grouped(h, M) /\ DOMAIN M = DOMAIN L \ {c}
  BY DropUngrouped DEF HeapInv
<1>3. Grouped(g, M)
  BY <1>1, <1>2, SameParts
<1> HIDE DEF M
<1>4. Apart(g, M, X) /\ Owned(g, M, X) = U \ {c}
  <2>1. Apart(h, L, X)
    BY DEF HeapInv
  <2>2. Apart(h, M, X) /\ Owned(h, M, X) = U \ {c}
    BY <1>2, <2>1 DEF Apart, Owned
  <2> QED
    BY <1>1, <2>2, SameParts
<1> QED
  BY <1>1, <1>3, <1>4 DEF HeapInv, g, M

\* A chunk without a label is forgotten.
LEMMA ForgetHeld ==
  ASSUME NEW h, NEW L, NEW X, HeapInv(h, L, X), NEW c \in DOMAIN L, h.ent[c] = Nil
  PROVE  HeapInv(h, Drop(L, {c}), X \cup {c})
PROOF
<1> DEFINE M == Drop(L, {c})
<1>2. Grouped(h, M) /\ DOMAIN M = DOMAIN L \ {c}
  BY DropUngrouped DEF HeapInv
<1> HIDE DEF M
<1>3. Apart(h, M, X \cup {c}) /\ Owned(h, M, X \cup {c}) = Owned(h, L, X)
  <2>1. Apart(h, L, X)
    BY DEF HeapInv
  <2> QED
    BY <1>2, <2>1 DEF Apart, Owned
<1> QED
  BY <1>2, <1>3 DEF HeapInv, M

\* Memory() reads the free lists, the counts and the mapped blocks only.
LEMMA SameMemory ==
  ASSUME NEW g, NEW h, g.free = h.free, g.ref = h.ref, g.mapped = h.mapped
  PROVE  (\A U, P : Memory(h, U, P) => Memory(g, U, P)) /\ (Mapped(h) => Mapped(g))
BY DEF Memory, Mapped

\* A new group and its name are made of two chunks that were held.
LEMMA MakeGroup ==
  ASSUME NEW h, NEW L, NEW X, HeapInv(h, L, X), NEW label \in Labels, Groups(h, label) = {},
         NEW g \in DOMAIN L, NEW n \in DOMAIN L, g # n, h.ent[g] = Nil, h.ent[n] = Nil,
         NEW M, Grouped(h, M), DOMAIN M = DOMAIN L \ {g, n}
  PROVE  LET f == NewGroup(h, g, n, label)
         IN /\ HeapInv(f, M, X)
            /\ f.ent = h.ent /\ f.name[g] = <<n, label>> /\ GroupChunks(f) = GroupChunks(h) \cup {g}
            /\ f.ents = h.ents /\ f.of = h.of
PROOF
<1> DEFINE q == <<g>> \o h.groups
           w == [h.name EXCEPT ![g] = <<n, label>>]
           f == NewGroup(h, g, n, label)
<1>1. /\ h \in Heaps /\ Grouped(h, L) /\ Apart(h, L, X)
      /\ Memory(h, Owned(h, L, X), {}) /\ Mapped(h)
  BY DEF HeapInv
<1>2. g \in Chunks /\ n \in Chunks /\ DOMAIN L \subseteq Chunks
  BY <1>1 DEF Grouped
<1>3. g \notin EntryChunks(h) \cup GroupChunks(h) \cup NameChunks(h) \cup X
  BY <1>1 DEF Apart
<1>4. n \notin EntryChunks(h) \cup GroupChunks(h) \cup NameChunks(h) \cup X
  BY <1>1 DEF Apart
<1>6. Grouped(h, M) /\ DOMAIN M = DOMAIN L \ {g, n}
  OBVIOUS
<1>7. q \in Seq(Chunks) /\ IsInjective(q) /\ Range(q) = Range(h.groups) \cup {g}
  <2>1. h.groups \in Seq(Chunks) /\ IsInjective(h.groups) /\ Range(h.groups) = GroupChunks(h)
    BY <1>1 DEF Heaps, Grouped
  <2> QED
    BY <1>2, <1>3, <2>1, InsertProperties
<1>8. /\ w \in [Chunks -> (Chunks \X Labels) \cup {Nil}]
      /\ w[g] = <<n, label>> /\ \A x \in Chunks \ {g} : w[x] = h.name[x]
  BY <1>1, <1>2 DEF Heaps
<1>9. h.ents[g] = <<>>
  <2>1. Range(h.ents[g]) = {}
    <3>1. \A x \in Chunks : Range(h.ents[x]) = {y \in EntryChunks(h) : h.of[y][2] = x}
      BY <1>1 DEF Grouped
    <3>2. \A y \in EntryChunks(h) : h.of[y][2] \in GroupChunks(h)
      BY <1>1 DEF Grouped
    <3> QED
      BY <1>2, <1>3, <3>1, <3>2, SMTT(40)
  <2>2. h.ents[g] \in Seq(Chunks)
    BY <1>1, <1>2 DEF Heaps
  <2> QED
    BY <2>1, <2>2, EmptyRange
<1>10. f = [h EXCEPT !.groups = q, !.name = w]
  <2>1. [h.ents EXCEPT ![g] = <<>>] = h.ents
    BY <1>1, <1>2, <1>9 DEF Heaps
  <2> HIDE DEF q
  <2>2. f = [h EXCEPT !.groups = q, !.name = w, !.ents = [h.ents EXCEPT ![g] = <<>>]]
    BY <1>1 DEF Heaps, NewGroup, q
  <2>3. f = [h EXCEPT !.groups = q, !.name = w, !.ents = h.ents]
    BY <2>1, <2>2
  <2> HIDE DEF f, w
  <2> QED
    BY <1>1, <2>3 DEF Heaps
<1> HIDE DEF q, w, f
<1>11. /\ f \in Heaps /\ f.groups = q /\ f.name = w /\ f.ents = h.ents /\ f.of = h.of /\ f.ent = h.ent
       /\ f.free = h.free /\ f.ref = h.ref /\ f.mapped = h.mapped
  BY <1>1, <1>7, <1>8, <1>10 DEF Heaps
<1>12. EntryChunks(f) = EntryChunks(h) /\ GroupChunks(f) = GroupChunks(h) \cup {g}
  <2>1. <<n, label>> # Nil
    BY <1>2, ChunkAssumption
  <2> QED
    BY <1>2, <1>8, <1>11, <2>1 DEF EntryChunks, GroupChunks
<1>13. NameChunks(f) = NameChunks(h) \cup {n}
  BY <1>3, <1>8, <1>11, <1>12, <1>2 DEF NameChunks, GroupChunks
<1>14. Grouped(f, M)
  <2>1. IsInjective(f.groups) /\ Range(f.groups) = GroupChunks(f)
    BY <1>1, <1>7, <1>11, <1>12 DEF Grouped
  <2>2. \A x \in GroupChunks(h) : f.name[x] = h.name[x]
    BY <1>3, <1>8, <1>11 DEF GroupChunks
  <2>3. \A e \in EntryChunks(f) : /\ f.of[e][1] \in DOMAIN M /\ f.of[e][2] \in GroupChunks(f)
                           /\ f.ent[f.of[e][1]] = e /\ M[f.of[e][1]] = f.name[f.of[e][2]][2]
    BY <1>6, <1>11, <1>12, <2>2 DEF Grouped
  <2>4. \A x \in GroupChunks(h) : f.name[x][1] # n /\ f.name[x][2] # label
    <3>1. \A x \in GroupChunks(h) : x \in ToSet(h.groups)
      BY <1>1 DEF Grouped, Range, ToSet
    <3> QED
      BY <1>4, <2>2, <3>1 DEF NameChunks, Groups
  <2>5. \A x, y \in GroupChunks(f) : f.name[x][1] = f.name[y][1] \/ f.name[x][2] = f.name[y][2] => x = y
    <3>1. f.name[g] = <<n, label>>
      BY <1>8, <1>11
    <3> QED
      BY <1>6, <1>12, <2>2, <2>4, <3>1 DEF Grouped
  <2> QED
    BY <1>6, <1>11, <1>12, <2>1, <2>3, <2>5 DEF Grouped
<1>15. Apart(f, M, X) /\ Owned(f, M, X) = Owned(h, L, X)
  BY <1>1, <1>3, <1>4, <1>6, <1>12, <1>13 DEF Apart, Owned
<1>16. HeapInv(f, M, X)
  BY <1>1, <1>11, <1>14, <1>15, SameMemory DEF HeapInv
<1> QED
  BY <1>8, <1>11, <1>12, <1>16 DEF f

\* The entry of a chunk is made of a chunk that was held.
LEMMA MakeEntry ==
  ASSUME NEW h, NEW L, NEW X, HeapInv(h, L, X), NEW g \in GroupChunks(h),
         NEW c \in DOMAIN L, NEW e \in DOMAIN L, c # e, h.ent[c] = Nil, h.ent[e] = Nil
  PROVE  LET f == Link(h, c, e, g)
         IN /\ HeapInv(f, Hold(Drop(L, {e}), c, h.name[g][2]), X)
            /\ f.name = h.name /\ f.ents[g] # <<>> /\ \A x \in Chunks \ {g} : f.ents[x] = h.ents[x]
PROOF
<1> DEFINE K == Drop(L, {e})
           M == Hold(K, c, h.name[g][2])
           q == <<e>> \o h.ents[g]
           w == [h.ents EXCEPT ![g] = q]
           o == [h.of EXCEPT ![e] = <<c, g>>]
           t == [h.ent EXCEPT ![c] = e]
           f == Link(h, c, e, g)
<1>1. /\ h \in Heaps /\ Grouped(h, L) /\ Apart(h, L, X)
      /\ Memory(h, Owned(h, L, X), {}) /\ Mapped(h)
  BY DEF HeapInv
<1>2. g \in Chunks /\ c \in Chunks /\ e \in Chunks /\ h.name[g] \in Chunks \X Labels
  BY <1>1, PartsOfChunks DEF Grouped
<1>3. /\ c \notin EntryChunks(h) \cup GroupChunks(h) \cup NameChunks(h) \cup X
      /\ e \notin EntryChunks(h) \cup GroupChunks(h) \cup NameChunks(h) \cup X
  BY <1>1 DEF Apart
<1>4. Grouped(h, K) /\ DOMAIN K = DOMAIN L \ {e}
  BY <1>1, DropUngrouped
<1> HIDE DEF K
<1>5. /\ DOMAIN M = DOMAIN L \ {e} /\ M[c] = h.name[g][2] /\ \A x \in DOMAIN M \ {c} : M[x] = K[x]
      /\ M \in [DOMAIN M -> Labels \cup {NoLabel}]
  <2>1. K \in [DOMAIN K -> Labels \cup {NoLabel}] /\ h.name[g][2] \in Labels
    BY <1>2, <1>4 DEF Grouped
  <2>2. DOMAIN M = DOMAIN K \cup {c} /\ M[c] = h.name[g][2] /\ \A x \in DOMAIN M \ {c} : M[x] = K[x]
    BY DEF Hold
  <2>3. M \in [DOMAIN M -> Labels \cup {NoLabel}]
    BY <2>1, <2>2 DEF Hold
  <2> HIDE DEF M
  <2> QED
    BY <1>4, <2>2, <2>3
<1> HIDE DEF M
<1>6. /\ q \in Seq(Chunks) /\ IsInjective(q) /\ Range(q) = Range(h.ents[g]) \cup {e} /\ q # <<>>
  <2>1. h.ents[g] \in Seq(Chunks) /\ IsInjective(h.ents[g]) /\ e \notin Range(h.ents[g])
    BY <1>1, <1>2, <1>3 DEF Heaps, Grouped
  <2> QED
    BY <1>2, <2>1, InsertProperties
<1>7. /\ w \in [Chunks -> Seq(Chunks)] /\ w[g] = q /\ \A x \in Chunks \ {g} : w[x] = h.ents[x]
      /\ o \in [Chunks -> (Chunks \X Chunks) \cup {Nil}]
      /\ o[e] = <<c, g>> /\ \A x \in Chunks \ {e} : o[x] = h.of[x]
      /\ t \in [Chunks -> Chunks \cup {Nil}]
      /\ t[c] = e /\ \A x \in Chunks \ {c} : t[x] = h.ent[x]
  <2> HIDE DEF q
  <2>1. h.ents \in [Chunks -> Seq(Chunks)] /\ h.of \in [Chunks -> (Chunks \X Chunks) \cup {Nil}]
        /\ h.ent \in [Chunks -> Chunks \cup {Nil}]
    BY <1>1 DEF Heaps
  <2>2. w \in [Chunks -> Seq(Chunks)] /\ w[g] = q /\ \A x \in Chunks \ {g} : w[x] = h.ents[x]
    BY <1>2, <1>6, <2>1
  <2>3. /\ o \in [Chunks -> (Chunks \X Chunks) \cup {Nil}]
        /\ o[e] = <<c, g>> /\ \A x \in Chunks \ {e} : o[x] = h.of[x]
    BY <1>2, <2>1
  <2>4. /\ t \in [Chunks -> Chunks \cup {Nil}]
        /\ t[c] = e /\ \A x \in Chunks \ {c} : t[x] = h.ent[x]
    BY <1>2, <2>1
  <2> QED
    BY <2>2, <2>3, <2>4
<1>8. f = [h EXCEPT !.ent = t, !.of = o, !.ents = w]
  <2> HIDE DEF q
  <2> QED
    BY <1>1 DEF Heaps, Link, q
<1> HIDE DEF q, w, o, t, f
<1>9. /\ f \in Heaps /\ f.groups = h.groups /\ f.name = h.name /\ f.ents = w /\ f.of = o /\ f.ent = t
      /\ f.free = h.free /\ f.ref = h.ref /\ f.mapped = h.mapped
  BY <1>1, <1>7, <1>8 DEF Heaps
<1>10. EntryChunks(f) = EntryChunks(h) \cup {e} /\ GroupChunks(f) = GroupChunks(h)
  <2>1. <<c, g>> # Nil
    BY <1>2, ChunkAssumption
  <2> QED
    <3>1. GroupChunks(f) = GroupChunks(h)
      BY <1>9 DEF GroupChunks
    <3>2. ASSUME NEW x \in Chunks PROVE x \in EntryChunks(f) <=> x \in EntryChunks(h) \cup {e}
      <4>1. CASE x = e
        BY <1>7, <1>9, <2>1, <4>1 DEF EntryChunks
      <4>2. CASE x # e
        BY <1>7, <1>9, <4>2 DEF EntryChunks
      <4> QED
        BY <4>1, <4>2
    <3>3. EntryChunks(f) \subseteq Chunks /\ EntryChunks(h) \cup {e} \subseteq Chunks
      BY <1>2 DEF EntryChunks
    <3>4. EntryChunks(f) = EntryChunks(h) \cup {e}
      BY <3>2, <3>3
    <3> QED
      BY <3>1, <3>4
<1>11. NameChunks(f) = NameChunks(h)
  BY <1>9, <1>10 DEF NameChunks
<1>12. Grouped(f, M)
  <2>1. ASSUME NEW x \in Chunks
        PROVE  IsInjective(f.ents[x]) /\ Range(f.ents[x]) = {y \in EntryChunks(f) : f.of[y][2] = x}
    <3>1. \A y \in EntryChunks(h) : f.of[y] = h.of[y]
      BY <1>3, <1>7, <1>9 DEF EntryChunks
    <3>2. {y \in EntryChunks(f) : f.of[y][2] = x} = {y \in EntryChunks(h) : h.of[y][2] = x} \cup (IF x = g THEN {e} ELSE {})
      BY <1>7, <1>9, <1>10, <3>1
    <3>3. IsInjective(h.ents[x]) /\ Range(h.ents[x]) = {y \in EntryChunks(h) : h.of[y][2] = x}
      BY <1>1 DEF Grouped
    <3>4. CASE x = g
      BY <1>6, <1>7, <1>9, <3>2, <3>3, <3>4
    <3>5. CASE x # g
      BY <1>7, <1>9, <3>2, <3>3, <3>5
    <3> QED
      BY <3>4, <3>5
  <2>2. ASSUME NEW y \in EntryChunks(f)
        PROVE  /\ f.of[y][1] \in DOMAIN M /\ f.of[y][2] \in GroupChunks(f)
               /\ f.ent[f.of[y][1]] = y /\ M[f.of[y][1]] = f.name[f.of[y][2]][2]
    <3>1. CASE y = e
      <4>1. f.of[y] = <<c, g>>
        BY <1>7, <1>9, <3>1
      <4> QED
        BY <1>5, <1>7, <1>9, <1>10, <3>1, <4>1
    <3>2. CASE y # e
      <4>1. y \in EntryChunks(h) /\ f.of[y] = h.of[y]
        BY <1>7, <1>9, <1>10, <3>2 DEF EntryChunks
      <4>2. /\ h.of[y][1] \in DOMAIN K /\ h.of[y][2] \in GroupChunks(h)
            /\ h.ent[h.of[y][1]] = y /\ K[h.of[y][1]] = h.name[h.of[y][2]][2]
        BY <1>4, <4>1 DEF Grouped
      <4>3. h.of[y][1] # c /\ h.of[y][1] \in Chunks
        BY <1>4, <4>1, <4>2, ChunkFacts DEF EntryChunks, Grouped
      <4> QED
        BY <1>4, <1>5, <1>7, <1>9, <1>10, <4>1, <4>2, <4>3
    <3> QED
      BY <3>1, <3>2
  <2>3. ASSUME NEW x \in Chunks, f.ent[x] # Nil PROVE f.ent[x] \in EntryChunks(f) /\ f.of[f.ent[x]][1] = x
    <3>1. CASE x = c
      BY <1>7, <1>9, <1>10, <3>1
    <3>2. CASE x # c
      <4>1. f.ent[x] = h.ent[x]
        BY <1>7, <1>9, <3>2
      <4>2. h.ent[x] \in EntryChunks(h) /\ h.of[h.ent[x]][1] = x
        BY <1>1, <2>3, <4>1 DEF Grouped
      <4>3. f.of[h.ent[x]] = h.of[h.ent[x]]
        BY <1>3, <1>7, <1>9, <4>2 DEF EntryChunks
      <4> QED
        BY <1>10, <4>1, <4>2, <4>3
    <3> QED
      BY <3>1, <3>2
  <2>4. \A x \in DOMAIN M : M[x] # NoLabel => f.ent[x] # Nil
    <3>1. \A x \in DOMAIN K : x \in Chunks /\ (K[x] # NoLabel => h.ent[x] # Nil)
      BY <1>4 DEF Grouped
    <3>2. e # Nil
      BY <1>2, ChunkFacts
    <3>3. f.ent[c] = e
      BY <1>7, <1>9
    <3>4. ASSUME NEW x \in DOMAIN M \ {c} PROVE M[x] = K[x] /\ f.ent[x] = h.ent[x] /\ x \in DOMAIN K
      BY <1>4, <1>5, <1>7, <1>9, <3>1
    <3> QED
      BY <3>1, <3>2, <3>3, <3>4
  <2>5. DOMAIN M \subseteq Chunks
    BY <1>1, <1>5 DEF Grouped
  <2>6. \A x, y \in GroupChunks(f) : f.name[x][1] = f.name[y][1] \/ f.name[x][2] = f.name[y][2] => x = y
    BY <1>1, <1>9, <1>10 DEF Grouped
  <2>7. IsInjective(f.groups) /\ Range(f.groups) = GroupChunks(f)
    BY <1>1, <1>9, <1>10 DEF Grouped
  <2> QED
    BY <1>5, <2>1, <2>2, <2>3, <2>4, <2>5, <2>6, <2>7 DEF Grouped
<1>13. Apart(f, M, X) /\ Owned(f, M, X) = Owned(h, L, X)
  BY <1>1, <1>3, <1>5, <1>10, <1>11 DEF Apart, Owned
<1>14. HeapInv(f, M, X)
  BY <1>1, <1>9, <1>12, <1>13, SameMemory DEF HeapInv
<1> QED
  BY <1>6, <1>7, <1>9, <1>14 DEF f, M, K

\* The entry of a chunk is taken out of its group, while the chunk itself is
\* free already and still counted.
EntryReleased(f, h, M, X, c) ==
  LET e == h.ent[c]
      g == h.of[e][2]
  IN  /\ f \in Heaps /\ Grouped(f, M) /\ Apart(f, M, X)
      /\ Memory(f, Owned(f, M, X), {c}) /\ Mapped(f)
      /\ f.name = h.name /\ GroupChunks(f) = GroupChunks(h)
      /\ f.of[e] = Nil /\ (\A x \in Chunks \ {e} : f.of[x] = h.of[x])
      /\ g \in GroupChunks(h) /\ \A x \in Chunks \ {g} : f.ents[x] = h.ents[x]

LEMMA EntryGone ==
  ASSUME NEW h \in Heaps, NEW L, NEW X, Grouped(h, L), Apart(h, L, X), NEW c \in DOMAIN L,
         h.ent[c] # Nil, Memory(h, Owned(h, L, X) \ {c}, {c}), Mapped(h)
  PROVE  EntryReleased(ReleaseEntry(h, c), h, Drop(L, {c}), X, c)
PROOF
<1> DEFINE e == h.ent[c]
           g == h.of[e][2]
           q == RemoveFirst(h.ents[g], e)
           w == [h.ents EXCEPT ![g] = q]
           o == [h.of EXCEPT ![e] = Nil]
           h1 == [h EXCEPT !.ents = w, !.of = o]
           h2 == UnchunkPlain(h1, e)
           t == [h.ent EXCEPT ![c] = Nil]
           f == ReleaseEntry(h, c)
           U == Owned(h, L, X)
           M == Drop(L, {c})
<1>1. c \in Chunks /\ e \in Chunks /\ e \in EntryChunks(h) /\ h.of[e][1] = c /\ g \in GroupChunks(h) /\ g \in Chunks
  <2>1. c \in Chunks /\ e \in EntryChunks(h) /\ h.of[e][1] = c /\ g \in GroupChunks(h)
    BY DEF Grouped
  <2> QED
    BY <2>1 DEF EntryChunks, GroupChunks
<1>2. c # e
  BY <1>1 DEF Apart
<1>3. /\ h.ents[g] \in Seq(Chunks) /\ IsInjective(h.ents[g])
      /\ Range(h.ents[g]) = {y \in EntryChunks(h) : h.of[y][2] = g}
  <2>1. h.ents[g] \in Seq(Chunks)
    BY <1>1 DEF Heaps
  <2>2. \A x \in Chunks : /\ IsInjective(h.ents[x])
                          /\ Range(h.ents[x]) = {y \in EntryChunks(h) : h.of[y][2] = x}
    BY DEF Grouped
  <2> QED
    BY <1>1, <2>1, <2>2
<1> HIDE DEF g, e
<1>4. q \in Seq(Chunks) /\ IsInjective(q) /\ Range(q) = Range(h.ents[g]) \ {e}
  BY <1>3, RemoveProperties
<1>5. f = [h2 EXCEPT !.ent[c] = Nil]
  <2>1. h1 = [h EXCEPT !.ents[g] = RemoveFirst(@, e), !.of[e] = Nil]
    BY DEF Heaps
  <2> HIDE DEF h1
  <2> QED
    BY <2>1, Zenon DEF ReleaseEntry, e, g
<1> HIDE DEF f, q
<1>6. /\ w \in [Chunks -> Seq(Chunks)] /\ w[g] = q /\ \A x \in Chunks \ {g} : w[x] = h.ents[x]
  <2>1. h.ents \in [Chunks -> Seq(Chunks)]
    BY DEF Heaps
  <2> QED
    BY <1>1, <1>4, <2>1
<1>7. /\ o \in [Chunks -> (Chunks \X Chunks) \cup {Nil}] /\ o[e] = Nil /\ \A x \in Chunks \ {e} : o[x] = h.of[x]
  <2>1. h.of \in [Chunks -> (Chunks \X Chunks) \cup {Nil}]
    BY DEF Heaps
  <2> QED
    BY <1>1, <2>1
<1>8. /\ t \in [Chunks -> Chunks \cup {Nil}] /\ t[c] = Nil /\ \A x \in Chunks \ {c} : t[x] = h.ent[x]
  <2>1. h.ent \in [Chunks -> Chunks \cup {Nil}]
    BY DEF Heaps
  <2> QED
    BY <1>1, <2>1
<1> HIDE DEF w, t, o
<1>10. /\ h1 \in Heaps /\ h1.groups = h.groups /\ h1.name = h.name /\ h1.ents = w /\ h1.of = o /\ h1.ent = h.ent
       /\ h1.free = h.free /\ h1.ref = h.ref /\ h1.mapped = h.mapped
  BY <1>6, <1>7 DEF Heaps
<1> HIDE DEF h1
<1>11. h2 \in Heaps /\ SameGroups(h2, h1) /\ Memory(h2, (U \ {c}) \ {e}, {c}) /\ Mapped(h2)
  <2>1. Memory(h1, U \ {c}, {c}) /\ Mapped(h1)
    BY <1>10, SameMemory
  <2>2. e \in U \ {c}
    BY <1>1, <1>2 DEF Owned
  <2> HIDE DEF U
  <2> QED
    BY <1>10, <2>1, <2>2, PlainMemory
<1> HIDE DEF h2
<1>12. /\ f \in Heaps /\ f.groups = h.groups /\ f.name = h.name /\ f.ents = w /\ f.of = o /\ f.ent = t
       /\ f.free = h2.free /\ f.ref = h2.ref /\ f.mapped = h2.mapped
  <2>1. h2.ent = h.ent
    BY <1>10, <1>11 DEF SameGroups
  <2>2. f = [h2 EXCEPT !.ent = t]
    BY <1>5, <1>11, <2>1 DEF Heaps, t
  <2> QED
    BY <1>8, <1>10, <1>11, <2>2 DEF Heaps, SameGroups
<1>13. EntryChunks(f) = EntryChunks(h) \ {e} /\ GroupChunks(f) = GroupChunks(h) /\ NameChunks(f) = NameChunks(h)
  <2>1. EntryChunks(f) = EntryChunks(h) \ {e}
    BY <1>1, <1>7, <1>12 DEF EntryChunks
  <2>2. GroupChunks(f) = GroupChunks(h)
    BY <1>12 DEF GroupChunks
  <2> QED
    BY <1>12, <2>1, <2>2 DEF NameChunks
<1>14. DOMAIN M = DOMAIN L \ {c} /\ \A x \in DOMAIN M : M[x] = L[x]
  BY DEF Drop
<1>15. M \in [DOMAIN M -> Labels \cup {NoLabel}]
  <2>1. L \in [DOMAIN L -> Labels \cup {NoLabel}]
    BY DEF Grouped
  <2> QED
    BY <1>14, <2>1 DEF Drop
<1> HIDE DEF M
<1>16. \A y \in EntryChunks(f) : y \in EntryChunks(h) /\ y # e /\ f.of[y] = h.of[y] /\ h.of[y][1] # c
  <2>1. \A y \in EntryChunks(f) : y \in EntryChunks(h) /\ y # e /\ f.of[y] = h.of[y]
    BY <1>7, <1>12, <1>13 DEF EntryChunks
  <2>2. \A y \in EntryChunks(h) : h.ent[h.of[y][1]] = y
    BY DEF Grouped
  <2> QED
    BY <2>1, <2>2 DEF e
<1>17. Grouped(f, M)
  <2>1. ASSUME NEW x \in Chunks
        PROVE  IsInjective(f.ents[x]) /\ Range(f.ents[x]) = {y \in EntryChunks(f) : f.of[y][2] = x}
    <3>1. {y \in EntryChunks(f) : f.of[y][2] = x} = {y \in EntryChunks(h) : h.of[y][2] = x} \ {e}
      BY <1>13, <1>16
    <3>2. IsInjective(h.ents[x]) /\ Range(h.ents[x]) = {y \in EntryChunks(h) : h.of[y][2] = x}
      BY DEF Grouped
    <3>4. CASE x = g
      BY <1>4, <1>6, <1>12, <3>1, <3>2, <3>4
    <3>5. CASE x # g
      <4>1. e \notin {y \in EntryChunks(h) : h.of[y][2] = x}
        BY <3>5 DEF g
      <4> QED
        BY <1>6, <1>12, <3>1, <3>2, <3>5, <4>1
    <3> QED
      BY <3>4, <3>5
  <2>2. ASSUME NEW y \in EntryChunks(f)
        PROVE  /\ f.of[y][1] \in DOMAIN M /\ f.of[y][2] \in GroupChunks(f)
               /\ f.ent[f.of[y][1]] = y /\ M[f.of[y][1]] = f.name[f.of[y][2]][2]
    <3>1. y \in EntryChunks(h) /\ y # e /\ f.of[y] = h.of[y] /\ h.of[y][1] # c
      BY <1>16
    <3>2. /\ h.of[y][1] \in DOMAIN L /\ h.of[y][2] \in GroupChunks(h)
          /\ h.ent[h.of[y][1]] = y /\ L[h.of[y][1]] = h.name[h.of[y][2]][2]
      BY <3>1 DEF Grouped
    <3>3. h.of[y][1] \in Chunks
      BY <3>2 DEF Grouped
    <3>4. f.ent[h.of[y][1]] = y
      BY <1>8, <1>12, <3>1, <3>2, <3>3
    <3>5. h.of[y][1] \in DOMAIN M /\ M[h.of[y][1]] = L[h.of[y][1]]
      BY <1>14, <3>1, <3>2
    <3>6. h.of[y][2] \in GroupChunks(f) /\ f.name = h.name
      BY <1>12, <1>13, <3>2
    <3> QED
      BY <3>1, <3>2, <3>4, <3>5, <3>6
  <2>3. ASSUME NEW x \in Chunks, f.ent[x] # Nil PROVE f.ent[x] \in EntryChunks(f) /\ f.of[f.ent[x]][1] = x
    <3>1. x # c /\ f.ent[x] = h.ent[x]
      BY <1>8, <1>12, <2>3
    <3>2. h.ent[x] \in EntryChunks(h) /\ h.of[h.ent[x]][1] = x
      BY <2>3, <3>1 DEF Grouped
    <3>3. h.ent[x] # e
      BY <1>1, <3>1, <3>2
    <3> QED
      BY <1>13, <1>16, <3>1, <3>2, <3>3
  <2>4. ASSUME NEW x \in DOMAIN M, M[x] # NoLabel PROVE f.ent[x] # Nil
    <3>1. x \in DOMAIN L /\ x # c /\ x \in Chunks /\ L[x] = M[x]
      BY <1>14 DEF Grouped
    <3>2. h.ent[x] # Nil
      BY <2>4, <3>1 DEF Grouped
    <3> QED
      BY <1>8, <1>12, <3>1, <3>2
  <2>5. DOMAIN M \subseteq Chunks
    BY <1>14 DEF Grouped
  <2>6. \A x, y \in GroupChunks(f) : f.name[x][1] = f.name[y][1] \/ f.name[x][2] = f.name[y][2] => x = y
    BY <1>12, <1>13 DEF Grouped
  <2>7. IsInjective(f.groups) /\ Range(f.groups) = GroupChunks(f)
    BY <1>12, <1>13 DEF Grouped
  <2> QED
    BY <1>15, <2>1, <2>2, <2>3, <2>4, <2>5, <2>6, <2>7 DEF Grouped
<1>18. Apart(f, M, X) /\ Owned(f, M, X) = (U \ {c}) \ {e}
  BY <1>1, <1>13, <1>14 DEF Apart, Owned
<1>19. Memory(f, Owned(f, M, X), {c}) /\ Mapped(f)
  BY <1>11, <1>12, <1>18, SameMemory
<1> QED
  BY <1>1, <1>6, <1>7, <1>12, <1>13, <1>17, <1>18, <1>19 DEF EntryReleased, e, g, f, M

\* A group without entries goes, and its name with it.
LEMMA GroupGone ==
  ASSUME NEW h \in Heaps, NEW L, NEW X, NEW P, Grouped(h, L), Apart(h, L, X), NEW g \in GroupChunks(h),
         h.ents[g] = <<>>, Memory(h, Owned(h, L, X), P), Mapped(h)
  PROVE  LET f == ReleaseGroup(h, g)
         IN /\ f \in Heaps /\ Grouped(f, L) /\ Apart(f, L, X)
            /\ Memory(f, Owned(f, L, X), P) /\ Mapped(f)
            /\ GroupChunks(f) = GroupChunks(h) \ {g} /\ f.ents = h.ents
PROOF
<1> DEFINE n == h.name[g][1]
           q == RemoveFirst(h.groups, g)
           w == [h.name EXCEPT ![g] = Nil]
           h1 == [h EXCEPT !.groups = q]
           h2 == UnchunkPlain(h1, n)
           h3 == UnchunkPlain(h2, g)
           f == ReleaseGroup(h, g)
           U == Owned(h, L, X)
<1>1. g \in Chunks /\ h.name[g] \in Chunks \X Labels /\ n \in NameChunks(h) /\ n # g
  <2>1. g \in Chunks /\ h.name[g] \in Chunks \X Labels
    BY PartsOfChunks
  <2>2. n \in NameChunks(h)
    BY DEF NameChunks
  <2> QED
    BY <2>1, <2>2 DEF Apart
<1>2. h.groups \in Seq(Chunks) /\ IsInjective(h.groups) /\ Range(h.groups) = GroupChunks(h)
  BY DEF Heaps, Grouped
<1>3. q \in Seq(Chunks) /\ IsInjective(q) /\ Range(q) = GroupChunks(h) \ {g}
  BY <1>2, RemoveProperties
<1>4. f = [h3 EXCEPT !.name[g] = Nil]
  BY Zenon DEF ReleaseGroup
<1> HIDE DEF f, q
<1>5. /\ h1 \in Heaps /\ h1.groups = q /\ h1.name = h.name /\ h1.ents = h.ents /\ h1.of = h.of /\ h1.ent = h.ent
      /\ h1.free = h.free /\ h1.ref = h.ref /\ h1.mapped = h.mapped
  BY <1>3 DEF Heaps
<1> HIDE DEF h1, n
<1>6. h2 \in Heaps /\ SameGroups(h2, h1) /\ Memory(h2, U \ {n}, P) /\ Mapped(h2)
  <2>1. Memory(h1, U, P) /\ Mapped(h1)
    BY <1>5, SameMemory
  <2>2. n \in U
    BY <1>1 DEF Owned
  <2> HIDE DEF U
  <2> QED
    BY <1>5, <2>1, <2>2, PlainMemory
<1> HIDE DEF h2
<1>7. h3 \in Heaps /\ SameGroups(h3, h2) /\ Memory(h3, (U \ {n}) \ {g}, P) /\ Mapped(h3)
  <2>1. g \in U \ {n}
    BY <1>1 DEF Owned
  <2> HIDE DEF U
  <2> QED
    BY <1>6, <2>1, PlainMemory
<1> HIDE DEF h3
<1>8. w \in [Chunks -> (Chunks \X Labels) \cup {Nil}] /\ w[g] = Nil /\ \A x \in Chunks \ {g} : w[x] = h.name[x]
  <2>1. h.name \in [Chunks -> (Chunks \X Labels) \cup {Nil}]
    BY DEF Heaps
  <2> QED
    BY <1>1, <2>1
<1>9. /\ f \in Heaps /\ f.groups = q /\ f.name = w /\ f.ents = h.ents /\ f.of = h.of /\ f.ent = h.ent
      /\ f.free = h3.free /\ f.ref = h3.ref /\ f.mapped = h3.mapped
  <2>1. h3.name = h.name
    BY <1>5, <1>6, <1>7 DEF SameGroups
  <2>2. f = [h3 EXCEPT !.name = w]
    BY <1>4, <1>7, <2>1 DEF Heaps
  <2> HIDE DEF w
  <2> QED
    BY <1>5, <1>6, <1>7, <1>8, <2>2 DEF Heaps, SameGroups
<1> HIDE DEF w
<1>10. EntryChunks(f) = EntryChunks(h) /\ GroupChunks(f) = GroupChunks(h) \ {g}
  BY <1>1, <1>8, <1>9 DEF EntryChunks, GroupChunks
<1>11. NameChunks(f) = NameChunks(h) \ {n}
  <2>1. \A x \in GroupChunks(f) : x \in GroupChunks(h) /\ x # g /\ f.name[x] = h.name[x]
    BY <1>8, <1>9, <1>10 DEF GroupChunks
  <2>2. \A x \in GroupChunks(h) \ {g} : h.name[x][1] # n
    BY DEF Grouped, n
  <2> QED
    BY <1>10, <2>1, <2>2 DEF NameChunks, n
<1>12. Grouped(f, L)
  <2>1. \A x \in Chunks : IsInjective(f.ents[x]) /\ Range(f.ents[x]) = {y \in EntryChunks(f) : f.of[y][2] = x}
    BY <1>9, <1>10 DEF Grouped
  <2>2. ASSUME NEW y \in EntryChunks(f)
        PROVE  /\ f.of[y][1] \in DOMAIN L /\ f.of[y][2] \in GroupChunks(f)
               /\ f.ent[f.of[y][1]] = y /\ L[f.of[y][1]] = f.name[f.of[y][2]][2]
    <3>1. /\ h.of[y][1] \in DOMAIN L /\ h.of[y][2] \in GroupChunks(h)
          /\ h.ent[h.of[y][1]] = y /\ L[h.of[y][1]] = h.name[h.of[y][2]][2]
      BY <1>10 DEF Grouped
    <3>2. h.of[y][2] # g
      <4>1. Range(h.ents[g]) = {}
        BY DEF Range
      <4> QED
        BY <1>1, <1>10, <4>1 DEF Grouped
    <3> QED
      BY <1>8, <1>9, <1>10, <3>1, <3>2 DEF GroupChunks
  <2>3. \A x \in Chunks : f.ent[x] # Nil => f.ent[x] \in EntryChunks(f) /\ f.of[f.ent[x]][1] = x
    BY <1>9, <1>10 DEF Grouped
  <2>4. \A x, y \in GroupChunks(f) : f.name[x][1] = f.name[y][1] \/ f.name[x][2] = f.name[y][2] => x = y
    <3>1. \A x \in GroupChunks(f) : x \in GroupChunks(h) /\ f.name[x] = h.name[x]
      BY <1>8, <1>9, <1>10 DEF GroupChunks
    <3> QED
      BY <3>1 DEF Grouped
  <2>5. IsInjective(f.groups) /\ Range(f.groups) = GroupChunks(f)
    BY <1>3, <1>9, <1>10
  <2> QED
    BY <1>9, <2>1, <2>2, <2>3, <2>4, <2>5 DEF Grouped
<1>13. Apart(f, L, X) /\ Owned(f, L, X) = (U \ {n}) \ {g}
  BY <1>1, <1>10, <1>11 DEF Apart, Owned
<1>14. Memory(f, Owned(f, L, X), P) /\ Mapped(f)
  BY <1>7, <1>9, <1>13, SameMemory
<1> QED
  BY <1>9, <1>10, <1>12, <1>13, <1>14 DEF f

\* The end of unchunk(), once the groups know the chunk no more.
LEMMA LastUnref ==
  ASSUME NEW h \in Heaps, NEW L, NEW X, NEW c, Grouped(h, L), Apart(h, L, X),
         Memory(h, Owned(h, L, X), {c}), Mapped(h)
  PROVE  LET f == Unref(h, c) IN HeapInv(f, L, X) /\ SameGroups(f, h)
PROOF
<1> DEFINE f == Unref(h, c)
<1>1. c \in {c} /\ {c} \ {c} = {}
  OBVIOUS
<1>2. f \in Heaps /\ SameGroups(f, h) /\ Memory(f, Owned(h, L, X), {c} \ {c}) /\ Mapped(f)
  BY <1>1, UnrefMemory
<1> HIDE DEF f
<1>3. Grouped(f, L) /\ Apart(f, L, X) /\ Owned(f, L, X) = Owned(h, L, X)
  BY <1>2, SameParts
<1> QED
  BY <1>1, <1>2, <1>3 DEF HeapInv, f

\* From g to f nothing goes of the groups but the entry e.
EntryOnly(f, g, e) ==
  /\ f.name = g.name /\ f.of[e] = Nil /\ \A x \in Chunks \ {e} : f.of[x] = g.of[x]
  /\ \A x \in Chunks \ {g.of[e][2]} : f.ents[x] = g.ents[x]

\* unchunk(): the chunk goes, with its entry if it has one, and no group is
\* left empty unless it is to be kept.
LEMMA UnchunkHeld ==
  ASSUME NEW h, NEW L, NEW X, HeapInv(h, L, X), NEW c \in DOMAIN L, NEW keep \in BOOLEAN
  PROVE  LET f == Unchunk(h, c, keep)
         IN /\ HeapInv(f, Drop(L, {c}), X)
            /\ ~keep /\ Filled(h) => Filled(f)
            /\ keep /\ h.ent[c] # Nil => EntryOnly(f, h, h.ent[c])
PROOF
<1> DEFINE g == h.of[h.ent[c]][2]
           M == Drop(L, {c})
           U == Owned(h, L, X)
           h1 == PutFree(h, c)
           h2 == ReleaseEntry(h1, c)
           f == Unchunk(h, c, keep)
<1>1. h \in Heaps /\ Grouped(h, L) /\ Apart(h, L, X) /\ Memory(h, U, {}) /\ Mapped(h)
  BY DEF HeapInv
<1>2. h1 \in Heaps /\ SameGroups(h1, h) /\ Memory(h1, U \ {c}, {c}) /\ Mapped(h1)
  <2>1. c \in U
    BY DEF Owned
  <2>2. {} \cup {c} = {c}
    OBVIOUS
  <2> HIDE DEF U
  <2>3. h1 \in Heaps /\ SameGroups(h1, h) /\ Memory(h1, U \ {c}, {} \cup {c}) /\ Mapped(h1)
    BY <1>1, <2>1, PutFreeMemory
  <2> HIDE DEF h1
  <2> QED
    BY <2>2, <2>3
<1>3. f = IF h.ent[c] = Nil THEN Unref(h1, c)
          ELSE IF keep \/ h2.ents[g] # <<>> THEN Unref(h2, c)
          ELSE Unref(ReleaseGroup(h2, g), c)
  BY DEF Unchunk
<1> HIDE DEF f, h1
<1>4. /\ Grouped(h1, L) /\ Apart(h1, L, X) /\ Owned(h1, L, X) = U
      /\ GroupChunks(h1) = GroupChunks(h) /\ (Filled(h) => Filled(h1))
      /\ h1.ent = h.ent /\ h1.of = h.of /\ h1.name = h.name /\ h1.ents = h.ents
  BY <1>1, <1>2, SameParts DEF SameGroups
<1>5. CASE h.ent[c] = Nil
  <2>1. Grouped(h1, M) /\ DOMAIN M = DOMAIN L \ {c}
    BY <1>4, <1>5, DropUngrouped
  <2> HIDE DEF M
  <2>2. Apart(h1, M, X) /\ Owned(h1, M, X) = U \ {c}
    BY <1>1, <1>4, <2>1 DEF Apart, Owned
  <2>3. f = Unref(h1, c)
    BY <1>3, <1>5
  <2>4. HeapInv(f, M, X) /\ SameGroups(f, h1)
    BY <1>2, <2>1, <2>2, <2>3, LastUnref
  <2>5. Filled(h) => Filled(f)
    BY <1>4, <2>4, SameParts
  <2> QED
    BY <1>5, <2>4, <2>5 DEF f, M
<1>6. CASE h.ent[c] # Nil
  <2>1. /\ h2 \in Heaps /\ Grouped(h2, M) /\ Apart(h2, M, X)
        /\ Memory(h2, Owned(h2, M, X), {c}) /\ Mapped(h2)
        /\ h2.name = h.name /\ GroupChunks(h2) = GroupChunks(h)
        /\ h2.of[h.ent[c]] = Nil /\ \A x \in Chunks \ {h.ent[c]} : h2.of[x] = h.of[x]
        /\ g \in GroupChunks(h) /\ \A x \in Chunks \ {g} : h2.ents[x] = h.ents[x]
    <3>1. /\ h1 \in Heaps /\ Grouped(h1, L) /\ Apart(h1, L, X) /\ Mapped(h1)
          /\ Memory(h1, Owned(h1, L, X) \ {c}, {c}) /\ h1.ent[c] # Nil
      BY <1>2, <1>4, <1>6
    <3> HIDE DEF U, g
    <3>2. h2 = ReleaseEntry(h1, c) /\ M = Drop(L, {c}) /\ g = h1.of[h1.ent[c]][2]
      BY <1>4 DEF g
    <3> HIDE DEF h2, M
    <3>3. EntryReleased(h2, h1, M, X, c)
      BY <3>1, <3>2, EntryGone
    <3> QED
      BY <1>4, <3>2, <3>3 DEF EntryReleased
  <2> HIDE DEF h2, M
  <2>2. CASE keep \/ h2.ents[g] # <<>>
    <3>1. f = Unref(h2, c)
      BY <1>3, <1>6, <2>2
    <3>2. HeapInv(f, M, X) /\ SameGroups(f, h2)
      BY <2>1, <3>1, LastUnref
    <3>3. EntryOnly(f, h, h.ent[c])
      BY <2>1, <3>2 DEF SameGroups, EntryOnly
    <3>4. ~keep /\ Filled(h) => Filled(f)
      <4>1. ~keep /\ Filled(h) => Filled(h2)
        <5>1. \A x \in GroupChunks(h2) : x \in GroupChunks(h) /\ x \in Chunks
          BY <2>1 DEF GroupChunks
        <5> QED
          BY <2>1, <2>2, <5>1 DEF Filled
      <4> QED
        BY <3>2, <4>1, SameParts
    <3> QED
      BY <3>2, <3>3, <3>4 DEF f, M
  <2>3. CASE ~keep /\ h2.ents[g] = <<>>
    <3> DEFINE h3 == ReleaseGroup(h2, g)
    <3>1. f = Unref(h3, c)
      BY <1>3, <1>6, <2>3
    <3>2. /\ h3 \in Heaps /\ Grouped(h3, M) /\ Apart(h3, M, X)
          /\ Memory(h3, Owned(h3, M, X), {c}) /\ Mapped(h3)
          /\ GroupChunks(h3) = GroupChunks(h2) \ {g} /\ h3.ents = h2.ents
      <4> HIDE DEF g
      <4>1. g \in GroupChunks(h2) /\ h2.ents[g] = <<>>
        BY <2>1, <2>3
      <4> QED
        BY <2>1, <4>1, GroupGone
    <3> HIDE DEF h3
    <3>3. HeapInv(f, M, X) /\ SameGroups(f, h3)
      BY <3>1, <3>2, LastUnref
    <3>4. Filled(h) => Filled(h3)
      <4>1. \A x \in GroupChunks(h3) : x \in GroupChunks(h) /\ x \in Chunks \ {g}
        BY <2>1, <3>2 DEF GroupChunks
      <4> QED
        BY <2>1, <3>2, <4>1 DEF Filled
    <3>5. Filled(h) => Filled(f)
      BY <3>3, <3>4, SameParts
    <3> QED
      BY <2>3, <3>3, <3>5 DEF f, M
  <2> QED
    BY <2>2, <2>3
<1> QED
  BY <1>5, <1>6

\* A chunk that is held and dropped again is as if it had never been.
LEMMA DropHeld ==
  ASSUME NEW S, NEW L, L \in [DOMAIN L -> S], NEW c, c \notin DOMAIN L, NEW x
  PROVE  Drop(Hold(L, c, x), {c}) = L
PROOF
<1>1. DOMAIN Hold(L, c, x) = DOMAIN L \cup {c}
  BY DEF Hold
<1>2. Drop(Hold(L, c, x), {c}) = [z \in DOMAIN L |-> L[z]]
  BY <1>1 DEF Drop, Hold
<1>3. L = [z \in DOMAIN L |-> L[z]]
  OBVIOUS
<1> QED
  BY <1>2, <1>3

\* A chunk that was held without a label is given one.
LEMMA HoldAgain ==
  ASSUME NEW L, NEW c, NEW x, NEW y
  PROVE  Hold(Hold(L, c, x), c, y) = Hold(L, c, y)
PROOF
<1>1. DOMAIN Hold(L, c, x) = DOMAIN L \cup {c}
  BY DEF Hold
<1> QED
  BY <1>1 DEF Hold

\* The chunk that chunk() has got goes back where something else fails.
LEMMA GiveBack ==
  ASSUME NEW g, NEW L, NEW X, NEW c, HeapInv(g, Hold(L, c, NoLabel), X), Filled(g), c \notin DOMAIN L,
         L \in [DOMAIN L -> Labels \cup {NoLabel}]
  PROVE  HeapInv(Unchunk(g, c, FALSE), L, X) /\ Filled(Unchunk(g, c, FALSE))
PROOF
<1> DEFINE L1 == Hold(L, c, NoLabel)
<1>1. c \in DOMAIN L1 /\ Drop(L1, {c}) = L
  BY DropHeld DEF Hold
<1> HIDE DEF L1
<1>2. HeapInv(Unchunk(g, c, FALSE), Drop(L1, {c}), X) /\ Filled(Unchunk(g, c, FALSE))
  <2>1. HeapInv(g, L1, X)
    BY DEF L1
  <2>2. FALSE \in BOOLEAN
    OBVIOUS
  <2> QED
    BY <1>1, <2>1, <2>2, UnchunkHeld
<1> QED
  BY <1>1, <1>2

\* One allocation of chunk(), and what it leaves as it was.
LEMMA AllocLoose ==
  ASSUME NEW h, NEW L, NEW X, HeapInv(h, L, X), Filled(h), NEW k \in Classes
  PROVE  LET r == ChunkAlloc(h, k)
         IN /\ r.ok \in BOOLEAN
            /\ r.ok => /\ r.c \in Chunks /\ r.c \notin DOMAIN L /\ h.ent[r.c] = Nil
                       /\ SameGroups(r.h, h) /\ Filled(r.h) /\ GroupChunks(r.h) = GroupChunks(h)
                       /\ HeapInv(r.h, Hold(L, r.c, NoLabel), X)
            /\ ~r.ok => r.h = h
PROOF
<1> DEFINE r == ChunkAlloc(h, k)
<1>1. /\ r.ok \in BOOLEAN
      /\ r.ok => /\ r.c \in Chunks \ DOMAIN L /\ SameGroups(r.h, h)
                 /\ HeapInv(r.h, Hold(L, r.c, NoLabel), X)
      /\ ~r.ok => r.h = h
  BY AllocHeld
<1> HIDE DEF r
<1>2. r.ok => h.ent[r.c] = Nil
  BY <1>1, PartsOfChunks DEF HeapInv
<1>3. r.ok => Filled(r.h) /\ GroupChunks(r.h) = GroupChunks(h)
  BY <1>1, SameParts
<1> QED
  BY <1>1, <1>2, <1>3 DEF r

\* The chunk joins a group.
LEMMA Joined ==
  ASSUME NEW h, NEW L, NEW X, NEW c, NEW e, NEW g \in GroupChunks(h), c # e, h.ent[c] = Nil, h.ent[e] = Nil,
         c \notin DOMAIN L, e \notin DOMAIN L, L \in [DOMAIN L -> Labels \cup {NoLabel}],
         HeapInv(h, Hold(Hold(L, c, NoLabel), e, NoLabel), X),
         \A x \in GroupChunks(h) \ {g} : h.ents[x] # <<>>
  PROVE  LET f == Link(h, c, e, g)
         IN HeapInv(f, Hold(L, c, h.name[g][2]), X) /\ Filled(f)
PROOF
<1> DEFINE L1 == Hold(L, c, NoLabel)
           L2 == Hold(L1, e, NoLabel)
           f == Link(h, c, e, g)
<1>1. DOMAIN L1 = DOMAIN L \cup {c} /\ L1 \in [DOMAIN L1 -> Labels \cup {NoLabel}]
  BY DEF Hold
<1>2. Hold(L1, c, h.name[g][2]) = Hold(L, c, h.name[g][2])
  BY HoldAgain
<1> HIDE DEF L1
<1>3. Drop(L2, {e}) = L1 /\ DOMAIN L2 = DOMAIN L \cup {c, e}
  <2>1. e \notin DOMAIN L1
    BY <1>1
  <2>2. Drop(L2, {e}) = L1
    BY <1>1, <2>1, DropHeld
  <2> QED
    BY <1>1, <2>2 DEF Hold
<1> HIDE DEF L2, f
<1>4. /\ HeapInv(f, Hold(Drop(L2, {e}), c, h.name[g][2]), X)
      /\ f.name = h.name /\ f.ents[g] # <<>> /\ \A x \in Chunks \ {g} : f.ents[x] = h.ents[x]
  <2>1. HeapInv(h, L2, X)
    BY DEF L1, L2
  <2>2. c \in DOMAIN L2 /\ e \in DOMAIN L2
    BY <1>3
  <2> QED
    BY <2>1, <2>2, MakeEntry DEF f
<1>5. Filled(f)
  BY <1>4 DEF Filled, GroupChunks
<1> QED
  BY <1>2, <1>3, <1>4, <1>5 DEF f

\* chunk(): whether it succeeds or not, and wherever it fails.
LEMMA NewHeld ==
  ASSUME NEW h, NEW L, NEW X, HeapInv(h, L, X), Filled(h), NEW k \in Classes, NEW label \in Labels \cup {NoLabel}
  PROVE  LET r == ChunkNew(h, k, label)
         IN /\ r.ok \in BOOLEAN /\ (r.ok => r.c \notin DOMAIN L)
            /\ HeapInv(r.h, IF r.ok THEN Hold(L, r.c, label) ELSE L, X \cup r.lost) /\ Filled(r.h)
PROOF
<1> DEFINE a == ChunkAlloc(h, k)
           old == Groups(h, label)
           b == ChunkAlloc(a.h, EntClass)
           n == ChunkAlloc(b.h, NameClass[label])
           e == ChunkAlloc(IF old # {} THEN a.h ELSE n.h, EntClass)
           grp == IF old # {} THEN CHOOSE g \in old : TRUE ELSE b.c
           h1 == IF old # {} THEN e.h ELSE NewGroup(e.h, b.c, n.c, label)
           back == IF old # {} THEN a.h ELSE UnchunkPlain(UnchunkPlain(n.h, n.c), b.c)
           r == ChunkNew(h, k, label)
           Goal == /\ r.ok \in BOOLEAN /\ (r.ok => r.c \notin DOMAIN L)
                   /\ HeapInv(r.h, IF r.ok THEN Hold(L, r.c, label) ELSE L, X \cup r.lost) /\ Filled(r.h)
           L1 == Hold(L, a.c, NoLabel)
           L2 == Hold(L1, b.c, NoLabel)
           L3 == Hold(L2, n.c, NoLabel)
<1> SUFFICES Goal
  OBVIOUS
<1>1. r = IF ~a.ok THEN Failure(h, {}, Tears(h, k))
          ELSE IF label = NoLabel THEN Success(a.h, a.c)
          ELSE IF old = {} /\ ~b.ok THEN Failure(Unchunk(a.h, a.c, FALSE), {}, Tears(a.h, EntClass))
          ELSE IF old = {} /\ ~n.ok THEN Failure(Unchunk(b.h, a.c, FALSE), {b.c}, Tears(b.h, NameClass[label]))
          ELSE IF ~e.ok
                 THEN Failure(Unchunk(back, a.c, FALSE), {}, Tears(IF old # {} THEN a.h ELSE n.h, EntClass))
          ELSE Success(Link(h1, a.c, e.c, grp), a.c)
  BY Zenon DEF ChunkNew, NewGroup
<1>2. L \in [DOMAIN L -> Labels \cup {NoLabel}]
  BY DEF HeapInv, Grouped
<1>3. /\ a.ok \in BOOLEAN
      /\ a.ok => /\ a.c \in Chunks /\ a.c \notin DOMAIN L /\ h.ent[a.c] = Nil
                 /\ SameGroups(a.h, h) /\ Filled(a.h) /\ GroupChunks(a.h) = GroupChunks(h)
                 /\ HeapInv(a.h, L1, X)
      /\ ~a.ok => a.h = h
  BY AllocLoose
<1>4. ASSUME NEW g, NEW t, r = Failure(g, {}, t), HeapInv(g, L, X), Filled(g) PROVE Goal
  <2>1. r.ok = FALSE /\ r.h = g /\ r.lost = {}
    BY <1>4 DEF Failure
  <2>2. X \cup {} = X
    OBVIOUS
  <2> HIDE DEF r
  <2> QED
    BY <1>4, <2>1, <2>2
<1>5. ASSUME NEW g, r = Success(g, a.c), a.c \notin DOMAIN L, HeapInv(g, Hold(L, a.c, label), X), Filled(g) PROVE Goal
  <2>1. r.ok = TRUE /\ r.h = g /\ r.lost = {} /\ r.c = a.c
    BY <1>5 DEF Success
  <2>2. X \cup {} = X
    OBVIOUS
  <2> HIDE DEF r, a
  <2> QED
    BY <1>5, <2>1, <2>2
<1>6. ASSUME NEW g, HeapInv(g, L1, X), Filled(g), a.c \notin DOMAIN L
      PROVE  HeapInv(Unchunk(g, a.c, FALSE), L, X) /\ Filled(Unchunk(g, a.c, FALSE))
  <2> HIDE DEF a
  <2> QED
    BY <1>2, <1>6, GiveBack
<1> HIDE DEF a, Goal
<1>7. CASE ~a.ok
  BY <1>1, <1>4, <1>7
<1>8. CASE a.ok /\ label = NoLabel
  <2>1. r = Success(a.h, a.c)
    BY <1>1, <1>8
  <2> HIDE DEF r
  <2> QED
    BY <1>3, <1>5, <1>8, <2>1
<1>9. CASE a.ok /\ label # NoLabel /\ old # {}
  <2> DEFINE d == ChunkAlloc(a.h, EntClass)
             g == CHOOSE x \in old : TRUE
  <2>1. r = IF ~d.ok THEN Failure(Unchunk(a.h, a.c, FALSE), {}, Tears(a.h, EntClass))
            ELSE Success(Link(d.h, a.c, d.c, g), a.c)
    BY <1>1, <1>9, Zenon
  <2>2. /\ d.ok \in BOOLEAN
        /\ d.ok => /\ d.c \in Chunks /\ d.c \notin DOMAIN L1 /\ a.h.ent[d.c] = Nil
                   /\ SameGroups(d.h, a.h) /\ Filled(d.h) /\ GroupChunks(d.h) = GroupChunks(a.h)
                   /\ HeapInv(d.h, Hold(L1, d.c, NoLabel), X)
    BY <1>3, <1>9, AllocLoose, ChunkAssumption
  <2>3. g \in GroupChunks(h) /\ h.name[g][2] = label
    <3>1. g \in old
      BY <1>9
    <3> QED
      BY <3>1 DEF Groups, HeapInv, Grouped, Range, ToSet
  <2> HIDE DEF d, g, r, old
  <2>4. CASE ~d.ok
    BY <1>3, <1>4, <1>6, <1>9, <2>1, <2>4
  <2>5. CASE d.ok
    <3>1. a.c # d.c /\ d.c \notin DOMAIN L
      BY <2>2, <2>5 DEF Hold
    <3>2. /\ g \in GroupChunks(d.h) /\ d.h.name[g][2] = label /\ d.h.ent[a.c] = Nil /\ d.h.ent[d.c] = Nil
      BY <1>3, <1>9, <2>2, <2>3, <2>5 DEF SameGroups
    <3>3. HeapInv(Link(d.h, a.c, d.c, g), Hold(L, a.c, d.h.name[g][2]), X) /\ Filled(Link(d.h, a.c, d.c, g))
      <4>1. \A x \in GroupChunks(d.h) \ {g} : d.h.ents[x] # <<>>
        BY <2>2, <2>5 DEF Filled
      <4> QED
        BY <1>2, <1>3, <1>9, <2>2, <2>5, <3>1, <3>2, <4>1, Joined
    <3> QED
      BY <1>3, <1>5, <1>9, <2>1, <2>5, <3>2, <3>3
  <2> QED
    BY <2>2, <2>4, <2>5
<1>10. CASE a.ok /\ label # NoLabel /\ old = {}
  <2> DEFINE d == ChunkAlloc(n.h, EntClass)
             m == NewGroup(d.h, b.c, n.c, label)
  <2>0. label \in Labels /\ NameClass[label] \in Classes /\ EntClass \in Classes
    BY <1>10, ChunkAssumption
  <2>1. r = IF ~b.ok THEN Failure(Unchunk(a.h, a.c, FALSE), {}, Tears(a.h, EntClass))
            ELSE IF ~n.ok THEN Failure(Unchunk(b.h, a.c, FALSE), {b.c}, Tears(b.h, NameClass[label]))
            ELSE IF ~d.ok THEN Failure(Unchunk(UnchunkPlain(UnchunkPlain(n.h, n.c), b.c), a.c, FALSE), {},
                                       Tears(n.h, EntClass))
            ELSE Success(Link(m, a.c, d.c, b.c), a.c)
    BY <1>1, <1>10, Zenon
  <2>2. /\ b.ok \in BOOLEAN
        /\ b.ok => /\ b.c \in Chunks /\ b.c \notin DOMAIN L1 /\ a.h.ent[b.c] = Nil
                   /\ SameGroups(b.h, a.h) /\ Filled(b.h) /\ GroupChunks(b.h) = GroupChunks(a.h)
                   /\ HeapInv(b.h, L2, X)
    BY <1>3, <1>10, <2>0, AllocLoose
  <2>3. b.ok =>
        /\ n.ok \in BOOLEAN
        /\ n.ok => /\ n.c \in Chunks /\ n.c \notin DOMAIN L2 /\ b.h.ent[n.c] = Nil
                   /\ SameGroups(n.h, b.h) /\ Filled(n.h) /\ GroupChunks(n.h) = GroupChunks(b.h)
                   /\ HeapInv(n.h, L3, X)
    <3> HIDE DEF b, L2
    <3> QED
      BY <2>0, <2>2, AllocLoose DEF L3
  <2>4. b.ok /\ n.ok =>
        /\ d.ok \in BOOLEAN
        /\ d.ok => /\ d.c \in Chunks /\ d.c \notin DOMAIN L3 /\ n.h.ent[d.c] = Nil
                   /\ SameGroups(d.h, n.h) /\ Filled(d.h) /\ GroupChunks(d.h) = GroupChunks(n.h)
                   /\ HeapInv(d.h, Hold(L3, d.c, NoLabel), X)
    <3> HIDE DEF n, b, L3, L2, L1
    <3> QED
      BY <2>0, <2>3, AllocLoose DEF d
  <2> HIDE DEF b, n, d, r
  <2>5. DOMAIN L1 = DOMAIN L \cup {a.c} /\ DOMAIN L2 = DOMAIN L \cup {a.c, b.c}
        /\ DOMAIN L3 = DOMAIN L \cup {a.c, b.c, n.c}
        /\ L1 \in [DOMAIN L1 -> Labels \cup {NoLabel}] /\ L2 \in [DOMAIN L2 -> Labels \cup {NoLabel}]
        /\ L3 \in [DOMAIN L3 -> Labels \cup {NoLabel}]
    BY <1>2 DEF Hold
  <2>6. CASE ~b.ok
    BY <1>3, <1>4, <1>6, <1>10, <2>1, <2>6
  <2>7. CASE b.ok /\ ~n.ok
    <3>1. r = Failure(Unchunk(b.h, a.c, FALSE), {b.c}, Tears(b.h, NameClass[label]))
      BY <2>1, <2>7
    <3>2. b.h.ent[b.c] = Nil /\ b.c \in DOMAIN L2
      BY <2>2, <2>5, <2>7 DEF SameGroups
    <3>3. Drop(L2, {b.c}) = L1
      <4> HIDE DEF L1
      <4> QED
        BY <2>2, <2>5, <2>7, DropHeld
    <3>4. HeapInv(b.h, L1, X \cup {b.c})
      <4> HIDE DEF L2
      <4> QED
        BY <2>2, <2>7, <3>2, <3>3, ForgetHeld
    <3>5. HeapInv(Unchunk(b.h, a.c, FALSE), L, X \cup {b.c}) /\ Filled(Unchunk(b.h, a.c, FALSE))
      BY <1>2, <1>3, <1>10, <2>2, <2>7, <3>4, GiveBack
    <3>6. r.ok = FALSE /\ r.h = Unchunk(b.h, a.c, FALSE) /\ r.lost = {b.c}
      BY <3>1 DEF Failure
    <3> QED
      BY <3>5, <3>6 DEF Goal
  <2>8. CASE b.ok /\ n.ok /\ ~d.ok
    <3> DEFINE p == UnchunkPlain(n.h, n.c)
               q == UnchunkPlain(p, b.c)
    <3>1. n.h.ent[n.c] = Nil /\ n.h.ent[b.c] = Nil
      BY <2>2, <2>3, <2>8 DEF SameGroups
    <3>2. Drop(L3, {n.c}) = L2 /\ Drop(L2, {b.c}) = L1
      <4> HIDE DEF L1
      <4>1. Drop(L2, {b.c}) = L1
        BY <2>2, <2>5, <2>8, DropHeld
      <4> HIDE DEF L2
      <4> QED
        BY <2>3, <2>5, <2>8, <4>1, DropHeld
    <3> HIDE DEF L1, L2, L3
    <3>3. HeapInv(p, L2, X) /\ SameGroups(p, n.h)
      BY <2>3, <2>5, <2>8, <3>1, <3>2, PlainHeld
    <3> HIDE DEF p
    <3>4. HeapInv(q, L1, X) /\ SameGroups(q, p)
      <4>1. p.ent[b.c] = Nil
        BY <3>1, <3>3 DEF SameGroups
      <4> QED
        BY <2>5, <3>2, <3>3, <4>1, PlainHeld
    <3>5. r = Failure(Unchunk(q, a.c, FALSE), {}, Tears(n.h, EntClass))
      BY <2>1, <2>8 DEF p
    <3> HIDE DEF q
    <3>6. Filled(q)
      <4>1. Filled(p)
        BY <2>3, <2>8, <3>3, SameParts
      <4> QED
        BY <3>4, <4>1, SameParts
    <3> QED
      BY <1>3, <1>4, <1>6, <1>10, <3>4, <3>5, <3>6
  <2>9. CASE b.ok /\ n.ok /\ d.ok
    <3>1. r = Success(Link(m, a.c, d.c, b.c), a.c)
      BY <2>1, <2>9
    <3>2. /\ d.h.ent[a.c] = Nil /\ d.h.ent[b.c] = Nil /\ d.h.ent[n.c] = Nil /\ d.h.ent[d.c] = Nil
          /\ d.h.groups = h.groups /\ d.h.name = h.name /\ GroupChunks(d.h) = GroupChunks(h) /\ Filled(d.h)
      BY <1>3, <1>10, <2>2, <2>3, <2>4, <2>9 DEF SameGroups
    <3>3. Groups(d.h, label) = {}
      BY <1>10, <3>2 DEF Groups
    <3>4. /\ a.c # b.c /\ a.c # n.c /\ a.c # d.c /\ b.c # n.c /\ b.c # d.c /\ n.c # d.c
          /\ a.c \notin DOMAIN L /\ b.c \notin DOMAIN L /\ n.c \notin DOMAIN L /\ d.c \notin DOMAIN L
          /\ b.c \in DOMAIN Hold(L3, d.c, NoLabel) /\ n.c \in DOMAIN Hold(L3, d.c, NoLabel)
      <4>1. DOMAIN Hold(L3, d.c, NoLabel) = DOMAIN L3 \cup {d.c}
        BY DEF Hold
      <4> HIDE DEF L1, L2, L3
      <4> QED
        BY <1>3, <1>10, <2>2, <2>3, <2>4, <2>5, <2>9, <4>1
    <3>5. /\ Grouped(d.h, Hold(L1, d.c, NoLabel))
          /\ DOMAIN Hold(L1, d.c, NoLabel) = DOMAIN Hold(L3, d.c, NoLabel) \ {b.c, n.c}
      <4>1. DOMAIN Hold(L1, d.c, NoLabel) = DOMAIN L1 \cup {d.c} /\ DOMAIN Hold(L3, d.c, NoLabel) = DOMAIN L3 \cup {d.c}
        BY DEF Hold
      <4> HIDE DEF L1, L2, L3
      <4>2. Grouped(d.h, L1)
        <5>1. Grouped(a.h, L1)
          BY <1>3, <1>10 DEF HeapInv
        <5>2. SameGroups(d.h, a.h)
          BY <2>2, <2>3, <2>4, <2>9 DEF SameGroups
        <5> QED
          BY <5>1, <5>2, SameParts
      <4>3. d.c \in Chunks \ DOMAIN L1
        BY <2>4, <2>5, <2>9
      <4>4. Grouped(d.h, Hold(L1, d.c, NoLabel))
        BY <4>2, <4>3, HoldUngrouped
      <4> QED
        BY <2>5, <3>4, <4>1, <4>4
    <3>6. /\ HeapInv(m, Hold(L1, d.c, NoLabel), X)
          /\ m.ent = d.h.ent /\ m.name[b.c] = <<n.c, label>> /\ GroupChunks(m) = GroupChunks(d.h) \cup {b.c}
          /\ m.ents = d.h.ents
      <4> DEFINE L4 == Hold(L3, d.c, NoLabel)
                 M == Hold(L1, d.c, NoLabel)
      <4>1. /\ HeapInv(d.h, L4, X) /\ b.c \in DOMAIN L4 /\ n.c \in DOMAIN L4 /\ b.c # n.c
            /\ d.h.ent[b.c] = Nil /\ d.h.ent[n.c] = Nil /\ label \in Labels
            /\ Grouped(d.h, M) /\ DOMAIN M = DOMAIN L4 \ {b.c, n.c}
        BY <2>0, <2>4, <2>9, <3>2, <3>4, <3>5
      <4> HIDE DEF L4, M
      <4>2. /\ HeapInv(m, M, X)
            /\ m.ent = d.h.ent /\ m.name[b.c] = <<n.c, label>> /\ GroupChunks(m) = GroupChunks(d.h) \cup {b.c}
            /\ m.ents = d.h.ents
        BY <3>3, <4>1, MakeGroup, SMTT(40)
      <4> QED
        BY <4>2 DEF M
    <3> HIDE DEF m
    <3>7. HeapInv(Link(m, a.c, d.c, b.c), Hold(L, a.c, label), X) /\ Filled(Link(m, a.c, d.c, b.c))
      <4>1. b.c \in GroupChunks(m) /\ \A x \in GroupChunks(m) \ {b.c} : m.ents[x] # <<>>
        BY <3>2, <3>6 DEF Filled
      <4>2. m.name[b.c][2] = label
        BY <3>6
      <4>3. /\ HeapInv(Link(m, a.c, d.c, b.c), Hold(L, a.c, m.name[b.c][2]), X)
            /\ Filled(Link(m, a.c, d.c, b.c))
        BY <1>2, <3>2, <3>4, <3>6, <4>1, Joined
      <4> QED
        BY <4>2, <4>3
    <3> QED
      BY <1>3, <1>5, <1>10, <3>1, <3>7
  <2> QED
    BY <2>2, <2>3, <2>4, <2>6, <2>7, <2>8, <2>9
<1> QED
  BY <1>3, <1>7, <1>8, <1>9, <1>10

\* unchunk_group() releases the entries of a list one after the other.
LEMMA MembersFold ==
  ASSUME NEW h, NEW S, NEW s \in Seq(S)
  PROVE  \E F : /\ F[0] = h /\ \A i \in 1..Len(s) : F[i] = ReleaseMember(F[i - 1], s[i])
                /\ ReleaseMembers(h, s) = F[Len(s)]
PROOF
<1> DEFINE n == Len(s)
<1>a. n \in Nat /\ DOMAIN s = 1..n
  OBVIOUS
<1>b. ReleaseMembers(h, s) = FoldLeft(ReleaseMember, h, s)
  BY Zenon DEF ReleaseMembers
<1> HIDE DEF n
<1> DEFINE Step(g, t) == IF t = {} THEN h ELSE ReleaseMember(g[t \ {Max(t)}], s[Max(t)])
           T == {m \in Nat : \E g : g = [t \in SUBSET (1..m) |-> Step(g, t)]}
<1>1. 0 \in T
  <2> DEFINE g == [t \in SUBSET (1..0) |-> h]
  <2>1. g = [t \in SUBSET (1..0) |-> Step(g, t)]
    OBVIOUS
  <2> QED
    BY <2>1
<1>2. ASSUME NEW m \in Nat, m \in T PROVE m + 1 \in T
  <2>1. PICK g : g = [t \in SUBSET (1..m) |-> Step(g, t)]
    BY <1>2
  <2> DEFINE f == [t \in SUBSET (1..(m + 1)) |->
                    IF m + 1 \in t THEN ReleaseMember(g[t \ {m + 1}], s[m + 1]) ELSE g[t]]
  <2>2. ASSUME NEW t \in SUBSET (1..(m + 1)) PROVE f[t] = Step(f, t)
    <3>1. CASE m + 1 \in t
      <4>1. Max(t) = m + 1 /\ t \ {m + 1} \in SUBSET (1..m) /\ t # {}
        BY <3>1, TopOfSet
      <4>2. f[t \ {m + 1}] = g[t \ {m + 1}]
        BY <4>1
      <4> QED
        BY <3>1, <4>1, <4>2
    <3>2. CASE m + 1 \notin t
      <4>1. t \in SUBSET (1..m) /\ t \ {Max(t)} \in SUBSET (1..m)
        BY <3>2, TopOfSet
      <4>2. f[t \ {Max(t)}] = g[t \ {Max(t)}] /\ f[t] = g[t]
        BY <3>2, <4>1
      <4>3. g[t] = Step(g, t)
        BY <2>1, <4>1
      <4> QED
        BY <4>2, <4>3
    <3> QED
      BY <3>1, <3>2
  <2>3. f = [t \in SUBSET (1..(m + 1)) |-> f[t]]
    OBVIOUS
  <2> HIDE DEF f
  <2>4. f = [t \in SUBSET (1..(m + 1)) |-> Step(f, t)]
    BY <2>2, <2>3, Zenon
  <2> HIDE DEF Step
  <2> QED
    BY <2>4
<1>3. n \in T
  <2> HIDE DEF T
  <2> QED
    BY <1>a, <1>1, <1>2, SetInduction
<1> DEFINE I == CHOOSE g : g = [t \in SUBSET (1..n) |-> Step(g, t)]
<1>4. I = [t \in SUBSET (1..n) |-> Step(I, t)]
  BY <1>3
<1>5. ReleaseMembers(h, s) = I[1..n]
  BY <1>a, <1>b, Zenon DEF FoldLeft, MapThenFoldSet
<1> HIDE DEF I
<1>6. \A t \in SUBSET (1..n) : I[t] = Step(I, t)
  BY <1>4
<1> DEFINE F == [i \in 0..n |-> I[1..i]]
<1>7. F[0] = h
  <2>1. 1..0 = {} /\ {} \in SUBSET (1..n)
    BY <1>a
  <2>2. I[{}] = h
    BY <1>6, <2>1
  <2> QED
    BY <1>a, <2>1, <2>2
<1>8. ASSUME NEW i \in 1..n PROVE F[i] = ReleaseMember(F[i - 1], s[i])
  <2>1. i - 1 \in Nat /\ (i - 1) + 1 = i /\ i \in 1..i /\ (1..i) \ {i} = 1..(i - 1) /\ 1..i \in SUBSET (1..n)
    BY <1>a
  <2>2. Max(1..i) = i
    BY <2>1, TopOfSet
  <2>3. I[1..i] = ReleaseMember(I[1..(i - 1)], s[i])
    BY <1>6, <2>1, <2>2
  <2> QED
    BY <1>a, <2>1, <2>3
<1>9. F[n] = I[1..n]
  BY <1>a
<1> HIDE DEF F
<1> QED
  BY <1>a, <1>5, <1>7, <1>8, <1>9 DEF n

\* To drop S and then c is to drop both.
LEMMA DropMore ==
  ASSUME NEW L, NEW A, NEW B
  PROVE  Drop(Drop(L, A), B) = Drop(L, A \cup B)
PROOF
<1>1. DOMAIN Drop(L, A) = DOMAIN L \ A
  BY DEF Drop
<1>2. (DOMAIN L \ A) \ B = DOMAIN L \ (A \cup B)
  OBVIOUS
<1> QED
  BY <1>1, <1>2 DEF Drop

\* To drop nothing changes nothing.
LEMMA DropNone ==
  ASSUME NEW S, NEW L, L \in [DOMAIN L -> S]
  PROVE  Drop(L, {}) = L
BY DEF Drop

\* What the entries of a group say of the chunks that are held.
LEMMA GroupMembers ==
  ASSUME NEW h \in Heaps, NEW L, Grouped(h, L), NEW g \in GroupChunks(h)
  PROVE  /\ g \in Chunks /\ h.ents[g] \in Seq(Chunks) /\ IsInjective(h.ents[g])
         /\ \A j \in 1..Len(h.ents[g]) :
              /\ h.ents[g][j] \in EntryChunks(h) /\ h.of[h.ents[g][j]][2] = g
              /\ h.of[h.ents[g][j]][1] \in DOMAIN L
              /\ h.ent[h.of[h.ents[g][j]][1]] = h.ents[g][j]
         /\ \A e \in EntryChunks(h) : h.of[e][2] = g => \E j \in 1..Len(h.ents[g]) : e = h.ents[g][j]
         /\ \A c \in DOMAIN L : L[c] = h.name[g][2]
                                <=> \E j \in 1..Len(h.ents[g]) : h.of[h.ents[g][j]][1] = c
PROOF
<1> DEFINE s == h.ents[g]
<1>1. g \in Chunks /\ s \in Seq(Chunks) /\ IsInjective(s)
  BY DEF GroupChunks, Heaps, Grouped
<1>2. Range(s) = {e \in EntryChunks(h) : h.of[e][2] = g}
  BY <1>1 DEF Grouped
<1>3. Range(s) = {s[j] : j \in 1..Len(s)}
  BY <1>1 DEF Range
<1>4. h.name[g][2] \in Labels
  BY DEF GroupChunks, Heaps
<1> HIDE DEF s
<1>5. ASSUME NEW j \in 1..Len(s)
      PROVE  /\ s[j] \in EntryChunks(h) /\ h.of[s[j]][2] = g /\ h.of[s[j]][1] \in DOMAIN L
             /\ h.ent[h.of[s[j]][1]] = s[j] /\ L[h.of[s[j]][1]] = h.name[g][2]
  <2>1. s[j] \in EntryChunks(h) /\ h.of[s[j]][2] = g
    BY <1>2, <1>3
  <2> QED
    BY <2>1 DEF Grouped
<1>6. \A e \in EntryChunks(h) : h.of[e][2] = g => \E j \in 1..Len(s) : e = s[j]
  BY <1>2, <1>3
<1>7. ASSUME NEW c \in DOMAIN L, L[c] = h.name[g][2] PROVE \E j \in 1..Len(s) : h.of[s[j]][1] = c
  <2>1. L[c] # NoLabel
    BY <1>4, <1>7, ChunkAssumption
  <2>2. c \in Chunks /\ h.ent[c] \in EntryChunks(h) /\ h.of[h.ent[c]][1] = c
    BY <2>1 DEF Grouped
  <2>3. h.of[h.ent[c]][2] \in GroupChunks(h) /\ L[c] = h.name[h.of[h.ent[c]][2]][2]
    BY <2>2 DEF Grouped
  <2>4. h.of[h.ent[c]][2] = g
    <3>1. \A x, y \in GroupChunks(h) : h.name[x][2] = h.name[y][2] => x = y
      BY DEF Grouped
    <3> QED
      BY <1>7, <2>3, <3>1
  <2> QED
    BY <1>6, <2>2, <2>4
<1> QED
  BY <1>1, <1>5, <1>6, <1>7 DEF s

\* The entries of a group from the head, as unchunk_group() takes them.
LEMMA MembersGone ==
  ASSUME NEW h, NEW L, NEW X, HeapInv(h, L, X), NEW g \in GroupChunks(h)
  PROVE  LET f == ReleaseMembers(h, h.ents[g])
         IN /\ HeapInv(f, Drop(L, {c \in DOMAIN L : L[c] = h.name[g][2]}), X)
            /\ GroupChunks(f) = GroupChunks(h) /\ f.ents[g] = <<>>
            /\ \A x \in Chunks \ {g} : f.ents[x] = h.ents[x]
PROOF
<1> DEFINE s == h.ents[g]
           n == Len(s)
           Of(j) == h.of[s[j]][1]
           D(m) == {c \in DOMAIN L : \E j \in 1..m : Of(j) = c}
           f == ReleaseMembers(h, s)
<1>1. h \in Heaps /\ Grouped(h, L)
  BY DEF HeapInv
<1>2. /\ g \in Chunks /\ s \in Seq(Chunks) /\ IsInjective(s) /\ n \in Nat
      /\ \A j \in 1..n : /\ s[j] \in EntryChunks(h) /\ h.of[s[j]][2] = g
                         /\ Of(j) \in DOMAIN L /\ h.ent[Of(j)] = s[j]
      /\ \A e \in EntryChunks(h) : h.of[e][2] = g => \E j \in 1..n : e = s[j]
      /\ \A c \in DOMAIN L : L[c] = h.name[g][2] <=> \E j \in 1..n : Of(j) = c
  <2>1. h \in Heaps /\ Grouped(h, L) /\ g \in GroupChunks(h)
    BY <1>1
  <2> QED
    BY <2>1, GroupMembers, SMTT(40)
<1> HIDE DEF s, Of
<1>3. PICK F : F[0] = h /\ (\A i \in 1..n : F[i] = ReleaseMember(F[i - 1], s[i])) /\ f = F[n]
  BY <1>2, MembersFold
<1> HIDE DEF f, n
<1>4. \A i, j \in 1..n : s[i] = s[j] => i = j
  BY <1>2 DEF IsInjective, n
<1> DEFINE Done(m) == /\ HeapInv(F[m], Drop(L, D(m)), X) /\ F[m].name = h.name
                      /\ \A j \in 1..m : F[m].of[s[j]] = Nil
                      /\ \A e \in Chunks : (\A j \in 1..m : e # s[j]) => F[m].of[e] = h.of[e]
                      /\ \A x \in Chunks \ {g} : F[m].ents[x] = h.ents[x]
           T == {m \in Nat : m <= n => Done(m)}
<1>5. 0 \in T
  <2>1. D(0) = {}
    OBVIOUS
  <2>2. Drop(L, {}) = L
    BY <1>1, DropNone DEF Grouped
  <2> HIDE DEF D
  <2>3. HeapInv(F[0], Drop(L, D(0)), X)
    BY <1>3, <2>1, <2>2
  <2> QED
    BY <1>3, <2>3
<1>6. ASSUME NEW m \in Nat, m \in T PROVE m + 1 \in T
  <2> SUFFICES ASSUME m + 1 <= n PROVE Done(m + 1)
    OBVIOUS
  <2> DEFINE p == F[m]
             q == F[m + 1]
             e == s[m + 1]
             c == Of(m + 1)
             K == Drop(L, D(m))
  <2>0. m + 1 \in 1..n /\ (m + 1) - 1 = m /\ m <= n /\ \A j \in 1..m : j \in 1..n /\ j # m + 1
    BY <1>2
  <2>1. /\ HeapInv(p, K, X) /\ p.name = h.name
        /\ \A j \in 1..m : p.of[s[j]] = Nil
        /\ \A x \in Chunks : (\A j \in 1..m : x # s[j]) => p.of[x] = h.of[x]
        /\ \A x \in Chunks \ {g} : p.ents[x] = h.ents[x]
    BY <1>6, <2>0
  <2>2. q = ReleaseMember(p, e)
    BY <1>3, <2>0
  <2>3. D(m + 1) = D(m) \cup {c}
    <3>1. 1..(m + 1) = 1..m \cup {m + 1}
      OBVIOUS
    <3>2. c \in DOMAIN L
      BY <1>2, <2>0
    <3> QED
      BY <3>1, <3>2
  <2>4. Drop(L, D(m + 1)) = Drop(K, {c})
    <3> HIDE DEF D
    <3> QED
      BY <2>3, DropMore
  <2> HIDE DEF p, q, K, D, T
  <2>5. /\ e \in Chunks /\ p.of[e] = h.of[e] /\ e \in EntryChunks(p) /\ p.of[e][2] = g /\ p.of[e][1] = c
    <3>1. e \in EntryChunks(h) /\ h.of[e][2] = g
      BY <1>2, <2>0
    <3>2. \A j \in 1..m : e # s[j]
      BY <1>4, <2>0
    <3> QED
      BY <2>1, <3>1, <3>2 DEF EntryChunks, Of
  <2>6. c \in DOMAIN K /\ p.ent[c] = e /\ e # Nil
    BY <2>1, <2>5, ChunkFacts DEF HeapInv, Grouped
  <2> HIDE DEF e, c
  <2>7. q = Unchunk(p, c, TRUE)
    BY <2>2, <2>5 DEF ReleaseMember
  <2>8. HeapInv(q, Drop(K, {c}), X)
    BY <2>1, <2>6, <2>7, UnchunkHeld
  <2>9. EntryOnly(q, p, p.ent[c])
    BY <2>1, <2>6, <2>7, UnchunkHeld
  <2>10. q.name = h.name /\ q.of[e] = Nil /\ (\A x \in Chunks \ {e} : q.of[x] = p.of[x])
         /\ \A x \in Chunks \ {g} : q.ents[x] = h.ents[x]
    BY <2>1, <2>5, <2>6, <2>9 DEF EntryOnly
  <2>11. \A j \in 1..(m + 1) : q.of[s[j]] = Nil
    <3>1. ASSUME NEW j \in 1..m PROVE q.of[s[j]] = Nil
      <4>1. s[j] \in Chunks /\ s[j] # e /\ p.of[s[j]] = Nil
        BY <1>2, <1>4, <2>0, <2>1 DEF e, EntryChunks
      <4> QED
        BY <2>10, <4>1
    <3>2. \A j \in 1..(m + 1) : j \in 1..m \/ j = m + 1
      OBVIOUS
    <3> QED
      BY <2>10, <3>1, <3>2 DEF e
  <2>12. \A x \in Chunks : (\A j \in 1..(m + 1) : x # s[j]) => q.of[x] = h.of[x]
    <3> SUFFICES ASSUME NEW x \in Chunks, \A j \in 1..(m + 1) : x # s[j] PROVE q.of[x] = h.of[x]
      OBVIOUS
    <3>1. x # e /\ \A j \in 1..m : x # s[j]
      BY <2>0 DEF e
    <3> QED
      BY <2>1, <2>10, <3>1
  <2> QED
    BY <2>4, <2>8, <2>10, <2>11, <2>12 DEF q
<1>7. Done(n)
  <2>1. n \in T
    <3> HIDE DEF T
    <3> QED
      BY <1>2, <1>5, <1>6, SetInduction
  <2> QED
    BY <1>2, <2>1
<1>8. D(n) = {c \in DOMAIN L : L[c] = h.name[g][2]}
  BY <1>2
<1> HIDE DEF D
<1>9. GroupChunks(f) = GroupChunks(h)
  BY <1>3, <1>7 DEF GroupChunks
<1>10. f.ents[g] = <<>>
  <2>1. f \in Heaps /\ Grouped(f, Drop(L, D(n)))
    BY <1>3, <1>7 DEF HeapInv
  <2>2. ASSUME NEW e \in EntryChunks(f), f.of[e][2] = g PROVE FALSE
    <3>1. e \in Chunks /\ f.of[e] # Nil
      BY DEF EntryChunks
    <3>2. \A j \in 1..n : e # s[j]
      BY <1>3, <1>7, <3>1
    <3>3. e \in EntryChunks(h) /\ h.of[e][2] = g
      BY <1>3, <1>7, <2>2, <3>1, <3>2 DEF EntryChunks
    <3> QED
      BY <1>2, <3>2, <3>3
  <2>3. Range(f.ents[g]) = {}
    <3>1. \A x \in Chunks : Range(f.ents[x]) = {y \in EntryChunks(f) : f.of[y][2] = x}
      BY <2>1 DEF Grouped
    <3>2. Range(f.ents[g]) = {y \in EntryChunks(f) : f.of[y][2] = g}
      BY <1>2, <3>1
    <3> QED
      BY <2>2, <3>2
  <2>4. f.ents[g] \in Seq(Chunks)
    BY <1>2, <2>1 DEF Heaps
  <2> QED
    BY <2>3, <2>4, EmptyRange
<1> QED
  BY <1>3, <1>7, <1>8, <1>9, <1>10 DEF f, s

\* unchunk_group()
LEMMA GroupReleased ==
  ASSUME NEW h, NEW L, NEW X, HeapInv(h, L, X), Filled(h), NEW label \in Labels
  PROVE  LET f == UnchunkGroup(h, label)
         IN HeapInv(f, Drop(L, {c \in DOMAIN L : L[c] = label}), X) /\ Filled(f)
PROOF
<1> DEFINE f == UnchunkGroup(h, label)
           K == Drop(L, {c \in DOMAIN L : L[c] = label})
<1>1. h \in Heaps /\ Grouped(h, L)
  BY DEF HeapInv
<1>2. Groups(h, label) = {g \in GroupChunks(h) : h.name[g][2] = label}
  BY <1>1 DEF Groups, Grouped, Range, ToSet
<1>3. CASE Groups(h, label) = {}
  <2>1. f = h
    BY <1>3 DEF UnchunkGroup
  <2>2. {c \in DOMAIN L : L[c] = label} = {}
    <3> SUFFICES ASSUME NEW c \in DOMAIN L, L[c] = label PROVE FALSE
      OBVIOUS
    <3>1. c \in Chunks /\ h.ent[c] \in EntryChunks(h) /\ h.of[h.ent[c]][1] = c
      BY <1>1, ChunkAssumption DEF Grouped
    <3>2. h.of[h.ent[c]][2] \in GroupChunks(h) /\ L[c] = h.name[h.of[h.ent[c]][2]][2]
      BY <1>1, <3>1 DEF Grouped
    <3> QED
      BY <1>2, <1>3, <3>2
  <2>3. Drop(L, {}) = L
    BY <1>1, DropNone DEF Grouped
  <2> QED
    BY <2>1, <2>2, <2>3
<1>4. CASE Groups(h, label) # {}
  <2> DEFINE g == CHOOSE x \in Groups(h, label) : TRUE
             p == ReleaseMembers(h, h.ents[g])
  <2>1. f = ReleaseGroup(p, g)
    BY <1>4 DEF UnchunkGroup
  <2>2. g \in GroupChunks(h) /\ h.name[g][2] = label
    BY <1>2, <1>4
  <2> HIDE DEF g, f
  <2>3. /\ HeapInv(p, Drop(L, {c \in DOMAIN L : L[c] = h.name[g][2]}), X)
        /\ GroupChunks(p) = GroupChunks(h) /\ p.ents[g] = <<>>
        /\ \A x \in Chunks \ {g} : p.ents[x] = h.ents[x]
    BY <2>2, MembersGone
  <2> HIDE DEF p
  <2>4. HeapInv(p, K, X)
    BY <2>2, <2>3
  <2> HIDE DEF K
  <2>5. /\ f \in Heaps /\ Grouped(f, K) /\ Apart(f, K, X)
        /\ Memory(f, Owned(f, K, X), {}) /\ Mapped(f)
        /\ GroupChunks(f) = GroupChunks(p) \ {g} /\ f.ents = p.ents
    <3>1. g \in GroupChunks(p) /\ p.ents[g] = <<>>
      BY <2>2, <2>3
    <3> QED
      BY <2>1, <2>4, <3>1, GroupGone DEF HeapInv
  <2>6. Filled(f)
    BY <2>3, <2>5 DEF Filled, GroupChunks
  <2> QED
    BY <2>5, <2>6 DEF HeapInv, f, K
<1> QED
  BY <1>3, <1>4

\* What is dropped and what is held are two chunks.
LEMMA DropOther ==
  ASSUME NEW L, NEW c, NEW x, NEW D, c \notin D
  PROVE  Drop(Hold(L, c, x), D) = Hold(Drop(L, D), c, x)
PROOF
<1>1. DOMAIN Hold(L, c, x) = DOMAIN L \cup {c}
  BY DEF Hold
<1>2. (DOMAIN L \cup {c}) \ D = (DOMAIN L \ D) \cup {c}
  OBVIOUS
<1>3. DOMAIN Drop(L, D) = DOMAIN L \ D /\ \A z \in DOMAIN L \ D : Drop(L, D)[z] = L[z]
  BY DEF Drop
<1> QED
  BY <1>1, <1>2, <1>3 DEF Drop, Hold

\* The allocator at the start.
LEMMA EmptyHeapInv == HeapInv(EmptyHeap, <<>>, {}) /\ Filled(EmptyHeap)
PROOF
<1> DEFINE h == EmptyHeap
<1>1. /\ h \in Heaps
      /\ \A c \in Chunks : h.ent[c] = Nil /\ h.of[c] = Nil /\ h.ents[c] = <<>> /\ h.name[c] = Nil
      /\ h.groups = <<>> /\ h.mapped = {} /\ \A b \in Blocks : h.ref[b] = 0
      /\ \A k \in Classes : h.free[k] = <<>>
  BY DEF EmptyHeap, Heaps
<1> HIDE DEF h
<1>2. EntryChunks(h) = {} /\ GroupChunks(h) = {}
  BY <1>1 DEF EntryChunks, GroupChunks
<1>3. NameChunks(h) = {} /\ DOMAIN <<>> = {} /\ IsInjective(<<>>) /\ Range(<<>>) = {}
  BY <1>2 DEF NameChunks, IsInjective, Range
<1>4. <<>> \in [DOMAIN <<>> -> Labels \cup {NoLabel}]
  OBVIOUS
<1>5. Grouped(h, <<>>)
  BY <1>1, <1>2, <1>3, <1>4 DEF Grouped
<1>6. Apart(h, <<>>, {}) /\ Owned(h, <<>>, {}) = {}
  BY <1>2, <1>3 DEF Apart, Owned
<1>7. Memory(h, {}, {})
  <2>1. \A b \in Blocks : Cardinality(ChunksOf(b) \cap ({} \cup {})) = 0
    <3>1. \A b \in Blocks : ChunksOf(b) \cap ({} \cup {}) = {}
      OBVIOUS
    <3> QED
      BY <3>1, FS_EmptySet
  <2> QED
    BY <1>1, <1>3, <2>1 DEF Memory
<1>8. Mapped(h)
  BY <1>1 DEF Mapped
<1>9. Filled(h)
  BY <1>2 DEF Filled
<1> QED
  BY <1>1, <1>5, <1>6, <1>7, <1>8, <1>9 DEF HeapInv, h

\* The state of the allocator, as the calls keep it.
HeapSafe == HeapInv(heap, live, lost) /\ Filled(heap)

\* It says what the program may rely on.
LEMMA HeapSafeSound == HeapSafe => HeapSound
PROOF
<1> SUFFICES ASSUME HeapSafe PROVE HeapSound
  OBVIOUS
<1> DEFINE U == Owned(heap, live, lost)
<1>1. /\ heap \in Heaps /\ Grouped(heap, live) /\ Apart(heap, live, lost)
      /\ Memory(heap, U, {}) /\ Mapped(heap) /\ Filled(heap)
  BY DEF HeapSafe, HeapInv
<1>2. Used(heap) = U
  <2> HIDE DEF U
  <2>1. \A b \in Blocks : ChunksOf(b) = {c \in Chunks : c[1] = b}
    BY ChunkFacts
  <2>2. UNION {ChunksOf(b) : b \in heap.mapped} = {c \in Chunks : c[1] \in heap.mapped}
    BY <1>1, <2>1 DEF Heaps
  <2>3. \A k \in Classes : ToSet(heap.free[k]) = {c \in Chunks : Class(c) = k /\ c[1] \in heap.mapped} \ U
    BY <1>1 DEF Memory, Range, ToSet
  <2>4. UNION {ToSet(heap.free[k]) : k \in Classes} = {c \in Chunks : c[1] \in heap.mapped} \ U
    BY <2>3, ChunkFacts
  <2>5. \A c \in U : c \in Chunks /\ c[1] \in heap.mapped
    BY <1>1 DEF Memory
  <2> DEFINE A == {c \in Chunks : c[1] \in heap.mapped}
  <2>6. A \ (A \ U) = U
    BY <2>5
  <2>7. Used(heap) = A \ (A \ U)
    <3> DEFINE M == UNION {ChunksOf(b) : b \in heap.mapped}
               F == UNION {ToSet(heap.free[k]) : k \in Classes}
    <3>1. Used(heap) = M \ F
      BY Zenon DEF Used
    <3>2. M = A /\ F = A \ U
      BY <2>2, <2>4
    <3> HIDE DEF M, F, A
    <3> QED
      BY <3>1, <3>2
  <2> QED
    BY <2>6, <2>7
<1>3. ToSet(heap.groups) = GroupChunks(heap)
  BY <1>1 DEF Grouped, Range, ToSet
<1>4. ChunksAccounted
  <2> DEFINE e == UNION {ToSet(heap.ents[x]) : x \in GroupChunks(heap)}
             n == {heap.name[x][1] : x \in GroupChunks(heap)}
             parts == <<DOMAIN live, e, GroupChunks(heap), n, lost>>
  <2>1. e = EntryChunks(heap)
    <3>1. \A x \in GroupChunks(heap) : ToSet(heap.ents[x]) = {y \in EntryChunks(heap) : heap.of[y][2] = x}
      BY <1>1 DEF Grouped, Range, ToSet, GroupChunks
    <3>2. \A y \in EntryChunks(heap) : heap.of[y][2] \in GroupChunks(heap)
      BY <1>1 DEF Grouped
    <3> QED
      BY <3>1, <3>2
  <2>2. n = NameChunks(heap)
    BY DEF NameChunks
  <2> HIDE DEF e, n
  <2>3. /\ parts[1] = DOMAIN live /\ parts[2] = EntryChunks(heap) /\ parts[3] = GroupChunks(heap)
        /\ parts[4] = NameChunks(heap) /\ parts[5] = lost
    BY <2>1, <2>2
  <2>4. 1..5 = {1, 2, 3, 4, 5}
    OBVIOUS
  <2> HIDE DEF parts
  <2>5. UNION {parts[i] : i \in 1..5} = Used(heap)
    <3>1. {parts[i] : i \in 1..5} = {parts[1], parts[2], parts[3], parts[4], parts[5]}
      BY <2>4
    <3>2. U = parts[1] \cup parts[2] \cup parts[3] \cup parts[4] \cup parts[5]
      BY <2>3 DEF Owned
    <3> HIDE DEF U
    <3> QED
      BY <1>2, <3>1, <3>2
  <2>6. \A i, j \in 1..5 : i # j => parts[i] \cap parts[j] = {}
    BY <1>1, <2>3, <2>4 DEF Apart
  <2> QED
    BY <1>3, <2>5, <2>6, Zenon DEF ChunksAccounted, parts, e, n
<1>5. BlocksCounted
  <2>1. U \cup {} = U
    OBVIOUS
  <2> HIDE DEF U
  <2> QED
    BY <1>1, <1>2, <2>1 DEF BlocksCounted, Memory, Mapped
<1>6. GroupsExact
  <2>1. ASSUME NEW c \in DOMAIN live PROVE live[c] = LabelOf(heap, c)
    <3>1. c \in Chunks
      BY <1>1 DEF Grouped
    <3>2. CASE heap.ent[c] = Nil
      BY <1>1, <3>2 DEF Grouped, LabelOf
    <3>3. CASE heap.ent[c] # Nil
      <4>1. heap.ent[c] \in EntryChunks(heap) /\ heap.of[heap.ent[c]][1] = c
        BY <1>1, <3>1, <3>3 DEF Grouped
      <4>2. live[c] = heap.name[heap.of[heap.ent[c]][2]][2]
        BY <1>1, <4>1 DEF Grouped
      <4> QED
        BY <3>3, <4>2 DEF LabelOf
    <3> QED
      BY <3>2, <3>3
  <2>2. ASSUME NEW l \in Labels PROVE Cardinality(Groups(heap, l)) <= 1
    <3> DEFINE G == Groups(heap, l)
    <3>1. \A x, y \in G : x = y
      BY <1>1, <1>3 DEF Groups, Grouped
    <3> HIDE DEF G
    <3>2. CASE G = {}
      BY <3>2, FS_EmptySet DEF G
    <3>3. CASE G # {}
      <4>1. PICK x : G = {x}
        BY <3>1, <3>3
      <4>2. Cardinality({x}) = 1
        BY FS_Singleton
      <4> QED
        BY <4>1, <4>2 DEF G
    <3> QED
      BY <3>2, <3>3
  <2>3. ASSUME NEW x \in ToSet(heap.groups)
        PROVE  /\ heap.ents[x] # <<>>
               /\ \A e \in ToSet(heap.ents[x]) : heap.of[e][1] \in DOMAIN live /\ heap.ent[heap.of[e][1]] = e
    <3>1. x \in GroupChunks(heap) /\ x \in Chunks
      BY <1>3 DEF GroupChunks
    <3>2. ToSet(heap.ents[x]) \subseteq EntryChunks(heap)
      BY <1>1, <3>1 DEF Grouped, Range, ToSet
    <3> QED
      BY <1>1, <3>1, <3>2 DEF Filled, Grouped
  <2> QED
    BY <2>1, <2>2, <2>3 DEF GroupsExact
<1> QED
  BY <1>4, <1>5, <1>6 DEF HeapSound

\* The calls keep it.
LEMMA NewHeap ==
  ASSUME HeapSafe, NEW k \in Classes, NEW l \in Labels \cup {NoLabel}, New(k, l)
  PROVE  HeapSafe'
PROOF
<1> DEFINE r == ChunkNew(heap, k, l)
<1>1. /\ heap' = r.h /\ live' = (IF r.ok THEN Hold(live, r.c, l) ELSE live) /\ lost' = lost \cup r.lost
  BY DEF New
<1>2. HeapInv(r.h, IF r.ok THEN Hold(live, r.c, l) ELSE live, lost \cup r.lost) /\ Filled(r.h)
  BY NewHeld DEF HeapSafe
<1> HIDE DEF r
<1> QED
  BY <1>1, <1>2 DEF HeapSafe

\* unchunk(), as a program calls it.
LEMMA FreeHeap ==
  ASSUME HeapSafe, NEW c \in Chunks, Free(c)
  PROVE  HeapSafe'
PROOF
<1>1. /\ c \in DOMAIN live /\ heap' = Unchunk(heap, c, FALSE) /\ live' = Drop(live, {c}) /\ lost' = lost
  BY DEF Free
<1>2. HeapInv(Unchunk(heap, c, FALSE), Drop(live, {c}), lost) /\ Filled(Unchunk(heap, c, FALSE))
  <2>1. FALSE \in BOOLEAN
    OBVIOUS
  <2> QED
    BY <1>1, <2>1, UnchunkHeld DEF HeapSafe
<1> QED
  BY <1>1, <1>2 DEF HeapSafe

\* unchunk_group(), as a program calls it.
LEMMA FreeGroupHeap ==
  ASSUME HeapSafe, NEW l \in Labels, FreeGroup(l)
  PROVE  HeapSafe'
PROOF
<1> DEFINE K == Drop(live, {c \in DOMAIN live : live[c] = l})
<1>1. heap' = UnchunkGroup(heap, l) /\ live' = K /\ lost' = lost
  BY DEF FreeGroup
<1>2. HeapInv(UnchunkGroup(heap, l), K, lost) /\ Filled(UnchunkGroup(heap, l))
  BY GroupReleased DEF HeapSafe
<1> HIDE DEF K
<1> QED
  BY <1>1, <1>2 DEF HeapSafe

\* rechunk()
LEMMA RechunkHeap ==
  ASSUME HeapSafe, NEW c \in Chunks, NEW k \in Classes, NEW l \in Labels \cup {NoLabel}, Rechunk(c, k, l)
  PROVE  HeapSafe'
PROOF
<1> DEFINE r == ChunkNew(heap, k, l)
           D == {c}
<1>1. CASE k = Class(c)
  BY <1>1 DEF Rechunk, HeapSafe
<1>2. CASE k # Class(c)
  <2>1. /\ c \in DOMAIN live
        /\ heap' = (IF r.ok THEN Unchunk(r.h, c, FALSE) ELSE r.h)
        /\ live' = (IF r.ok THEN Hold(Drop(live, D), r.c, l) ELSE live)
        /\ lost' = lost \cup r.lost
    BY <1>2 DEF Rechunk
  <2>2. /\ r.ok \in BOOLEAN /\ (r.ok => r.c \notin DOMAIN live)
        /\ HeapInv(r.h, IF r.ok THEN Hold(live, r.c, l) ELSE live, lost \cup r.lost) /\ Filled(r.h)
    BY NewHeld DEF HeapSafe
  <2> HIDE DEF r
  <2>3. CASE ~r.ok
    BY <2>1, <2>2, <2>3 DEF HeapSafe
  <2>4. CASE r.ok
    <3> DEFINE M == Hold(live, r.c, l)
               X == lost \cup r.lost
    <3>1. Drop(M, D) = Hold(Drop(live, D), r.c, l)
      <4>1. r.c \notin D
        BY <2>1, <2>2, <2>4
      <4> HIDE DEF D
      <4> QED
        BY <4>1, DropOther
    <3>2. HeapInv(r.h, M, X) /\ c \in DOMAIN M
      BY <2>1, <2>2, <2>4 DEF Hold
    <3> HIDE DEF M, X
    <3>3. HeapInv(Unchunk(r.h, c, FALSE), Drop(M, D), X) /\ Filled(Unchunk(r.h, c, FALSE))
      <4>1. FALSE \in BOOLEAN
        OBVIOUS
      <4> QED
        BY <2>2, <3>2, <4>1, UnchunkHeld
    <3> HIDE DEF D
    <3> QED
      BY <2>1, <2>4, <3>1, <3>3 DEF HeapSafe, X
  <2> QED
    BY <2>2, <2>3, <2>4
<1> QED
  BY <1>1, <1>2

\* Whatever calls a program makes and wherever memory runs out in them, as
\* long as that took no other memory away (chunk_new_block() unmaps more than
\* it mapped when a large block cannot be had), no chunk has two owners,
\* nothing leaks but a group whose name could not be allocated, blocks are
\* unmapped when their last chunk is released, and the chunks of a label are
\* those that were allocated under it.
THEOREM HeapStaysSound == ChunkSpec => []HeapSound
PROOF
<1>1. ChunkInit => HeapSafe
  BY EmptyHeapInv DEF ChunkInit, HeapSafe
<1>2. HeapSafe /\ [ChunkNext]_chunkVars => HeapSafe'
  <2> SUFFICES ASSUME HeapSafe, [ChunkNext]_chunkVars PROVE HeapSafe'
    OBVIOUS
  <2>1. CASE UNCHANGED chunkVars
    BY <2>1 DEF chunkVars, HeapSafe
  <2>2. ASSUME NEW k \in Classes, NEW l \in Labels \cup {NoLabel}, New(k, l) PROVE HeapSafe'
    BY <2>2, NewHeap
  <2>3. ASSUME NEW k \in Classes, NEW l \in Labels \cup {NoLabel}, NEW c \in Chunks, Rechunk(c, k, l) PROVE HeapSafe'
    BY <2>3, RechunkHeap
  <2>4. ASSUME NEW c \in Chunks, Free(c) PROVE HeapSafe'
    BY <2>4, FreeHeap
  <2>5. ASSUME NEW l \in Labels, FreeGroup(l) PROVE HeapSafe'
    BY <2>5, FreeGroupHeap
  <2> QED
    BY <2>1, <2>2, <2>3, <2>4, <2>5 DEF ChunkNext
<1>3. HeapSafe => HeapSound
  BY HeapSafeSound
<1> QED
  BY <1>1, <1>2, <1>3, PTL DEF ChunkSpec

------------------------------------------------------------------------------
(***************************************************************************)
(* The difference of two databases.  What the loops have found so far is   *)
(* exactly what the items they have passed contribute.                     *)
(***************************************************************************)
ItemOK(it) ==
  /\ \/ it = OuterItem(it.key[2], it.vars) /\ {"x"} \subseteq DOMAIN it.vars
     \/ it = InnerItem(it.key[2], it.key[4], it.vars) /\ {"x", "y"} \subseteq DOMAIN it.vars
  /\ DOMAIN it.vars \subseteq AllNames
  /\ it.key[2] \in Nat /\ it.vars["x"] \in Nat

\* An index names one entry, leftovers of it included, and no two entries of
\* the outer list have the same x.
SoundDb(db) ==
  /\ IsFiniteSet(db.items) /\ db.next \in Seq(Nat)
  /\ \A it \in db.items : ItemOK(it) /\ it.key[2] < Len(db.next)
  /\ \A a, b \in db.items : a.key[2] = b.key[2] => XVal(a) = XVal(b)
  /\ \A a, b \in Outer(db) : XVal(a) = XVal(b) => a = b

LEMMA ItemFacts ==
  /\ \A n, vars : /\ OuterItem(n, vars).key[2] = n /\ ~IsInner(OuterItem(n, vars))
                  /\ OuterItem(n, vars).vars = vars
  /\ \A n, m, vars : /\ InnerItem(n, m, vars).key[2] = n /\ InnerItem(n, m, vars).key[4] = m
                     /\ IsInner(InnerItem(n, m, vars)) /\ InnerItem(n, m, vars).vars = vars
PROOF
  BY DEF OuterItem, InnerItem, IsInner

\* Two items are the same entry if they are of the same list and agree in its
\* unique variables.
SameId(a, b) ==
  /\ IsInner(a) <=> IsInner(b)
  /\ XVal(a) = XVal(b)
  /\ IsInner(a) => a.vars["y"] = b.vars["y"]
LEMMA IdFacts ==
  \A a, b : Id(a) = Id(b) <=> SameId(a, b)
PROOF
<1> TAKE a, b
<1>1. CASE IsInner(a) /\ IsInner(b)
  <2>1. /\ Id(a) = [n \in {"x", "y"} |-> a.vars[n]] /\ Id(b) = [n \in {"x", "y"} |-> b.vars[n]]
    BY <1>1 DEF Id, Unique
  <2>2. Id(a) = Id(b) <=> a.vars["x"] = b.vars["x"] /\ a.vars["y"] = b.vars["y"]
    BY <2>1
  <2> QED
    BY <1>1, <2>2 DEF SameId, XVal
<1>2. CASE ~IsInner(a) /\ ~IsInner(b)
  <2>1. /\ Id(a) = [n \in {"x"} |-> a.vars[n]] /\ Id(b) = [n \in {"x"} |-> b.vars[n]]
    BY <1>2 DEF Id, Unique
  <2>2. Id(a) = Id(b) <=> a.vars["x"] = b.vars["x"]
    BY <2>1
  <2> QED
    BY <1>2, <2>2 DEF SameId, XVal
<1>3. CASE ~(IsInner(a) <=> IsInner(b))
  <2>1. DOMAIN Id(a) = Unique(a) /\ DOMAIN Id(b) = Unique(b)
    BY DEF Id
  <2>2. "y" \in Unique(a) <=> IsInner(a)
    BY DEF Unique
  <2>3. "y" \in Unique(b) <=> IsInner(b)
    BY DEF Unique
  <2> QED
    BY <1>3, <2>1, <2>2, <2>3 DEF SameId
<1> QED
  BY <1>1, <1>2, <1>3

\* lv_matchvar() on the unique variables finds the same entry.
LEMMA MatchFacts ==
  ASSUME NEW a, NEW b, ItemOK(a), ItemOK(b)
  PROVE  /\ (IsInner(a) <=> IsInner(b)) => (SameEntry(a, b) <=> Id(a) = Id(b))
         /\ SameVars(a, b) <=> \A n \in DOMAIN a.vars : n \in DOMAIN b.vars /\ a.vars[n] = b.vars[n]
PROOF
<1>1. {"x"} \subseteq DOMAIN a.vars /\ {"x"} \subseteq DOMAIN b.vars /\ DOMAIN a.vars \subseteq AllNames
  BY DEF ItemOK
<1>2. IsInner(a) => "y" \in DOMAIN a.vars
  BY ItemFacts DEF ItemOK
<1>3. IsInner(b) => "y" \in DOMAIN b.vars
  BY ItemFacts DEF ItemOK
<1>4. ASSUME IsInner(a), IsInner(b) PROVE SameEntry(a, b) <=> SameId(a, b)
  BY <1>1, <1>2, <1>3, <1>4 DEF SameEntry, MatchVar, SameId, XVal, Unique
<1>5. ASSUME ~IsInner(a), ~IsInner(b) PROVE SameEntry(a, b) <=> SameId(a, b)
  BY <1>1, <1>5 DEF SameEntry, MatchVar, SameId, XVal, Unique
<1> QED
  BY <1>1, <1>4, <1>5, IdFacts DEF SameVars, MatchVar

------------------------------------------------------------------------------
\* What the items A of S, running, and B of T, candidate, contribute.
NoTwin(a, U) == \A o \in U : Id(o) # Id(a)
Changed(a, b) == Id(a) = Id(b) /\ ~SameVars(a, b)
Differences(S, T) ==
  {First(a) : a \in S} \cup {Second(b) : b \in T}
    \cup {Both(p[1], p[2]) : p \in S \X T}

\* R has the contributions of A and B: of several twins of an item one counts.
Contributed(R, A, B, S, T) ==
  /\ \A a : First(a) \in R <=> a \in A /\ NoTwin(a, T)
  /\ \A b : Second(b) \in R <=> b \in B /\ NoTwin(b, S)
  /\ \A a, b : Both(a, b) \in R => a \in A /\ b \in T /\ Changed(a, b)
  /\ \A a, b, c : Both(a, b) \in R /\ Both(a, c) \in R => b = c
  /\ \A a \in A : NoTwin(a, T) \/ (\E b \in T : Id(a) = Id(b) /\ SameVars(a, b)) \/ (\E b \in T : Both(a, b) \in R)
\* s has them, each once.
Exact(s, A, B, S, T) ==
  /\ s \in Seq(Differences(S, T)) /\ IsInjective(s)
  /\ Contributed(Range(s), A, B, S, T)

LEMMA DifferenceFacts ==
  /\ \A a, b : First(a) = First(b) => a = b
  /\ \A a, b : Second(a) = Second(b) => a = b
  /\ \A a, b, c, d : Both(a, b) = Both(c, d) => a = c /\ b = d
  /\ \A a, b, c : First(a) # Second(b) /\ First(a) # Both(b, c) /\ Second(a) # Both(b, c)
PROOF
<1>1. \A a : First(a).op = "first" /\ First(a).e1 = a
  BY DEF First
<1>2. \A a : Second(a).op = "second" /\ Second(a).e2 = a
  BY DEF Second
<1>3. \A a, b : Both(a, b).op = "both" /\ Both(a, b).e1 = a /\ Both(a, b).e2 = b
  BY DEF Both
<1>4. "first" # "second" /\ "first" # "both" /\ "second" # "both"
  OBVIOUS
<1> QED
  BY <1>1, <1>2, <1>3, <1>4

LEMMA ExactAppend ==
  ASSUME NEW S, NEW T, NEW s, NEW A, NEW B, NEW A2, NEW B2, Exact(s, A, B, S, T),
         NEW e \in Differences(S, T), e \notin Range(s), Contributed(Range(s) \cup {e}, A2, B2, S, T)
  PROVE  Exact(Append(s, e), A2, B2, S, T)
PROOF
<1>1. s \in Seq(Differences(S, T)) /\ IsInjective(s) /\ e \in Differences(S, T) \ Range(s)
  BY DEF Exact
<1>2. /\ Append(s, e) \in Seq(Differences(S, T)) /\ IsInjective(Append(s, e))
      /\ Range(Append(s, e)) = Range(s) \cup {e}
  BY <1>1, QueueProperties
<1> QED
  BY <1>2 DEF Exact

\* An item that only running has.
LEMMA AddFirst ==
  ASSUME NEW S, NEW T, NEW s, NEW A, NEW B, Exact(s, A, B, S, T), NEW a \in S \ A, NoTwin(a, T)
  PROVE  Exact(Append(s, First(a)), A \cup {a}, B, S, T)
PROOF
<1> DEFINE e == First(a)
           R == Range(s)
<1>1. e \in Differences(S, T)
  BY DEF Differences
<1>2. Contributed(R, A, B, S, T)
  BY DEF Exact
<1> HIDE DEF R
<1>3. e \notin R
  BY <1>2 DEF Contributed
<1>4. Contributed(R \cup {e}, A \cup {a}, B, S, T)
  BY <1>2, DifferenceFacts DEF Contributed
<1> HIDE DEF e
<1>5. Exact(Append(s, e), A \cup {a}, B, S, T)
  BY <1>1, <1>3, <1>4, ExactAppend DEF R
<1> QED
  BY <1>5 DEF e

\* An item that only candidate has.
LEMMA AddSecond ==
  ASSUME NEW S, NEW T, NEW s, NEW A, NEW B, Exact(s, A, B, S, T), NEW b \in T \ B, NoTwin(b, S)
  PROVE  Exact(Append(s, Second(b)), A, B \cup {b}, S, T)
PROOF
<1> DEFINE e == Second(b)
           R == Range(s)
<1>1. e \in Differences(S, T)
  BY DEF Differences
<1>2. Contributed(R, A, B, S, T)
  BY DEF Exact
<1> HIDE DEF R
<1>3. e \notin R
  BY <1>2 DEF Contributed
<1>4. Contributed(R \cup {e}, A, B \cup {b}, S, T)
  BY <1>2, DifferenceFacts DEF Contributed
<1> HIDE DEF e
<1>5. Exact(Append(s, e), A, B \cup {b}, S, T)
  BY <1>1, <1>3, <1>4, ExactAppend DEF R
<1> QED
  BY <1>5 DEF e

\* An item of candidate that running has too.
LEMMA AddKnown ==
  ASSUME NEW S, NEW T, NEW s, NEW A, NEW B, Exact(s, A, B, S, T), NEW b, NEW a \in S, Id(a) = Id(b)
  PROVE  Exact(s, A, B \cup {b}, S, T)
PROOF
<1>1. ~NoTwin(b, S)
  BY DEF NoTwin
<1> QED
  BY <1>1 DEF Exact, Contributed

\* An item that both have.
LEMMA AddBoth ==
  ASSUME NEW S, NEW T, NEW s, NEW A, NEW B, Exact(s, A, B, S, T), NEW a \in S \ A, NEW b \in T, Id(a) = Id(b)
  PROVE  Exact(IF SameVars(a, b) THEN s ELSE Append(s, Both(a, b)), A \cup {a}, B, S, T)
PROOF
<1> DEFINE e == Both(a, b)
           R == Range(s)
<1>1. ~NoTwin(a, T)
  BY DEF NoTwin
<1>2. Contributed(R, A, B, S, T)
  BY DEF Exact
<1> HIDE DEF R
<1>3. CASE SameVars(a, b)
  <2>1. Contributed(R, A \cup {a}, B, S, T)
    BY <1>1, <1>2, <1>3 DEF Contributed
  <2>2. Exact(s, A \cup {a}, B, S, T)
    BY <2>1 DEF Exact, R
  <2> QED
    BY <1>3, <2>2
<1>4. CASE ~SameVars(a, b)
  <2>1. e \in Differences(S, T)
    <3>1. <<a, b>> \in S \X T /\ e = Both(<<a, b>>[1], <<a, b>>[2])
      OBVIOUS
    <3> QED
      BY <3>1 DEF Differences
  <2>2. e \notin R
    BY <1>2 DEF Contributed
  <2>3. Changed(a, b)
    BY <1>4 DEF Changed
  <2>4. Contributed(R \cup {e}, A \cup {a}, B, S, T)
    BY <1>1, <1>2, <2>3, DifferenceFacts DEF Contributed
  <2> HIDE DEF e
  <2>5. Exact(Append(s, e), A \cup {a}, B, S, T)
    BY <2>1, <2>2, <2>4, ExactAppend DEF R
  <2>6. Exact(Append(s, Both(a, b)), A \cup {a}, B, S, T)
    BY <2>5 DEF e
  <2> QED
    BY <1>4, <2>6
<1> QED
  BY <1>3, <1>4

\* The items that a loop has passed.
Upto(s, i) == {s[p] : p \in {q \in DOMAIN s : q < i}}
LEMMA UptoFacts ==
  ASSUME NEW S, NEW s \in Seq(S), IsInjective(s), NEW i \in 1..(Len(s) + 1)
  PROVE  /\ Upto(s, 1) = {} /\ Upto(s, i) \subseteq Range(s)
         /\ i \in DOMAIN s => /\ i + 1 \in 1..(Len(s) + 1) /\ s[i] \in Range(s) \ Upto(s, i)
                              /\ Upto(s, i + 1) = Upto(s, i) \cup {s[i]}
         /\ i \notin DOMAIN s => i = Len(s) + 1 /\ Upto(s, i) = Range(s)
PROOF
<1>1. DOMAIN s = 1..Len(s) /\ Len(s) \in Nat /\ i \in Nat
  OBVIOUS
<1>2. Upto(s, 1) = {} /\ Upto(s, i) \subseteq Range(s)
  BY <1>1 DEF Upto, Range
<1>3. ASSUME i \in DOMAIN s
      PROVE  /\ i + 1 \in 1..(Len(s) + 1) /\ s[i] \in Range(s) \ Upto(s, i)
             /\ Upto(s, i + 1) = Upto(s, i) \cup {s[i]}
  <2>1. \A q \in DOMAIN s : q < i + 1 <=> q < i \/ q = i
    BY <1>1
  <2>2. \A q \in DOMAIN s : q < i => s[q] # s[i]
    BY <1>1, <1>3 DEF IsInjective
  <2> QED
    BY <1>1, <1>3, <2>1, <2>2 DEF Upto, Range
<1>4. ASSUME i \notin DOMAIN s PROVE i = Len(s) + 1 /\ Upto(s, i) = Range(s)
  BY <1>1, <1>4 DEF Upto, Range
<1> QED
  BY <1>2, <1>3, <1>4

Listing(s, S) == s \in Seq(S) /\ Range(s) = S /\ IsInjective(s)
Increasing(s) == \A p, q \in DOMAIN s : p < q => XVal(s[p]) < XVal(s[q])

LEMMA ListedFacts ==
  ASSUME NEW S, IsFiniteSet(S), NEW s \in Listed(S)
  PROVE  Listing(s, S) /\ Len(s) = Cardinality(S)
PROOF
<1>1. Cardinality(S) \in Nat
  BY FS_CardinalityType
<1>2. s \in [1..Cardinality(S) -> S] /\ IsInjective(s) /\ \A t \in S : \E k \in 1..Cardinality(S) : s[k] = t
  BY DEF Listed, Bijection, Injection, Surjection
<1>3. s \in Seq(S) /\ Len(s) = Cardinality(S)
  BY <1>1, <1>2
<1>4. Range(s) = S
  BY <1>2 DEF Range
<1> QED
  BY <1>2, <1>3, <1>4 DEF Listing

\* The two lists have only parts of the databases.
LEMMA PartsFinite ==
  ASSUME NEW db, SoundDb(db)
  PROVE  /\ IsFiniteSet(Outer(db)) /\ IsFiniteSet(Inner(db))
         /\ Outer(db) \subseteq db.items /\ Inner(db) \subseteq db.items /\ Outer(db) \cap Inner(db) = {}
         /\ Outer(db) \cup Inner(db) = db.items
         /\ \A it \in Outer(db) : ~IsInner(it)
         /\ \A it \in Inner(db) : IsInner(it)
PROOF
<1>1. Outer(db) \subseteq db.items /\ Inner(db) \subseteq db.items
  BY DEF Outer, Inner
<1>2. IsFiniteSet(Outer(db)) /\ IsFiniteSet(Inner(db))
  BY <1>1, FS_Subset DEF SoundDb
<1> QED
  BY <1>1, <1>2 DEF Outer, Inner

\* Sorted by x, which no two entries of the outer list share.
LEMMA SortedFacts ==
  ASSUME NEW db, SoundDb(db), NEW s \in SortedItems(Outer(db))
  PROVE  Listing(s, Outer(db)) /\ Increasing(s)
PROOF
<1>1. s \in Listed(Outer(db)) /\ \A p, q \in DOMAIN s : p < q => XVal(s[p]) <= XVal(s[q])
  BY DEF SortedItems
<1>2. Listing(s, Outer(db))
  BY <1>1, ListedFacts, PartsFinite
<1>3. ASSUME NEW p \in DOMAIN s, NEW q \in DOMAIN s, p < q
      PROVE  XVal(s[p]) < XVal(s[q])
  <2>1. s[p] \in Outer(db) /\ s[q] \in Outer(db) /\ s[p] # s[q] /\ p # q
    <3>1. p \in 1..Len(s) /\ q \in 1..Len(s) /\ Len(s) \in Nat
      BY <1>2 DEF Listing
    <3>2. p # q
      BY <3>1, <1>3
    <3> QED
      BY <3>1, <3>2, <1>2 DEF Listing, IsInjective
  <2>3. XVal(s[p]) # XVal(s[q])
    BY <2>1 DEF SoundDb
  <2>4. XVal(s[p]) \in Nat /\ XVal(s[q]) \in Nat
    BY <2>1, PartsFinite DEF SoundDb, ItemOK, XVal
  <2> QED
    BY <1>1, <1>3, <2>3, <2>4
<1> QED
  BY <1>2, <1>3 DEF Increasing

------------------------------------------------------------------------------
\* dbdiff_vector_1(): what one pointer has passed is smaller than what the
\* other has still before it.
Frontier ==
  \A p \in DOMAIN v1, q \in DOMAIN v2 :
    /\ p < i1 /\ q >= i2 => XVal(v1[p]) < XVal(v2[q])
    /\ p >= i1 /\ q < i2 => XVal(v2[q]) < XVal(v1[p])
Places == i1 \in 1..(Len(v1) + 1) /\ i2 \in 1..(Len(v2) + 1)

Merging ==
  /\ Listing(v1, Outer(db1)) /\ Increasing(v1) /\ Listing(v2, Outer(db2)) /\ Increasing(v2)
  /\ Places /\ Frontier
  /\ Exact(df, Upto(v1, i1), Upto(v2, i2), db1.items, db2.items)

\* dbdiff_vector(): the outer list has been compared.
Comparing ==
  /\ Listing(v1, Inner(db1)) /\ Listing(v2, Inner(db2)) /\ Places
  /\ Exact(df, Outer(db1) \cup Upto(v1, i1), Outer(db2) \cup Upto(v2, i2), db1.items, db2.items)

\* Items of the two lists are twins if their x are equal.
LEMMA OuterTwins ==
  ASSUME NEW S, NEW a, NEW b, ~IsInner(a), SoundDb(db1), SoundDb(db2)
  PROVE  /\ ~IsInner(b) => (Id(a) = Id(b) <=> XVal(a) = XVal(b))
         /\ IsInner(b) => Id(a) # Id(b)
PROOF
  BY IdFacts DEF SameId

LEMMA MergeFirstStep ==
  ASSUME SoundDb(db1), SoundDb(db2), Merging, MergeFirst
  PROVE  Merging'
PROOF
<1> DEFINE a == v1[i1]
<1>1. /\ i1 \in DOMAIN v1 /\ (i2 \in DOMAIN v2 => XVal(a) < XVal(v2[i2]))
      /\ df' = Append(df, First(a)) /\ i1' = i1 + 1
      /\ v1' = v1 /\ v2' = v2 /\ i2' = i2 /\ db1' = db1 /\ db2' = db2
  BY DEF MergeFirst, DiffAdd
<1>2. /\ v1 \in Seq(Outer(db1)) /\ v2 \in Seq(Outer(db2)) /\ Range(v1) = Outer(db1) /\ Range(v2) = Outer(db2)
      /\ IsInjective(v1) /\ IsInjective(v2) /\ Places /\ Frontier /\ Increasing(v1) /\ Increasing(v2)
      /\ Exact(df, Upto(v1, i1), Upto(v2, i2), db1.items, db2.items)
  BY DEF Merging, Listing
<1>3. /\ i1 + 1 \in 1..(Len(v1) + 1) /\ a \in Range(v1) \ Upto(v1, i1)
      /\ Upto(v1, i1 + 1) = Upto(v1, i1) \cup {a}
  BY <1>1, <1>2, UptoFacts DEF Places
<1>4. \A o \in Outer(db1) \cup Outer(db2) : XVal(o) \in Nat
  BY PartsFinite DEF SoundDb, ItemOK, XVal
<1>5. ASSUME NEW q \in DOMAIN v2, q >= i2 PROVE XVal(a) < XVal(v2[q])
  <2>1. q \in 1..Len(v2) /\ i2 \in 1..(Len(v2) + 1) /\ Len(v2) \in Nat /\ DOMAIN v2 = 1..Len(v2)
    BY <1>2 DEF Places
  <2>2. i2 \in DOMAIN v2 /\ (q = i2 \/ i2 < q)
    BY <2>1, <1>5
  <2>3. XVal(a) < XVal(v2[i2]) /\ (q = i2 \/ XVal(v2[i2]) < XVal(v2[q]))
    BY <2>2, <1>1, <1>2 DEF Increasing
  <2>4. XVal(a) \in Nat /\ XVal(v2[i2]) \in Nat /\ XVal(v2[q]) \in Nat
    BY <2>2, <1>4, <1>2, <1>3
  <2> QED
    BY <2>3, <2>4
<1>6. NoTwin(a, db2.items)
  <2> SUFFICES ASSUME NEW o \in db2.items PROVE Id(o) # Id(a)
    BY DEF NoTwin
  <2>1. a \in Outer(db1) /\ ~IsInner(a)
    BY <1>2, <1>3, PartsFinite
  <2>2. CASE IsInner(o)
    BY <2>1, <2>2, OuterTwins
  <2>3. CASE ~IsInner(o)
    <3>1. o \in Outer(db2)
      BY <2>3 DEF Outer
    <3>2. PICK q \in DOMAIN v2 : o = v2[q]
      BY <3>1, <1>2 DEF Range
    <3>3. CASE q >= i2
      BY <3>2, <3>3, <1>5, <1>4, <2>1, <2>3, <3>1, OuterTwins
    <3>4. CASE ~(q >= i2)
      <4>1. q < i2
        BY <3>4, <1>2 DEF Places
      <4>2. i1 >= i1
        BY <1>2 DEF Places
      <4>3. XVal(o) < XVal(a)
        BY <4>1, <4>2, <3>2, <1>1, <1>2 DEF Frontier
      <4> QED
        BY <4>3, <1>4, <2>1, <2>3, <3>1, OuterTwins
    <3> QED
      BY <3>3, <3>4
  <2> QED
    BY <2>2, <2>3
<1>7. Exact(df', Upto(v1, i1 + 1), Upto(v2, i2), db1.items, db2.items)
  <2>1. a \in db1.items \ Upto(v1, i1)
    BY <1>2, <1>3, PartsFinite
  <2> HIDE DEF a
  <2> QED
    BY <2>1, <1>1, <1>2, <1>3, <1>6, AddFirst
<1>8. Frontier'
  <2> SUFFICES ASSUME NEW p \in DOMAIN v1, NEW q \in DOMAIN v2
               PROVE  /\ p < i1 + 1 /\ q >= i2 => XVal(v1[p]) < XVal(v2[q])
                      /\ p >= i1 + 1 /\ q < i2 => XVal(v2[q]) < XVal(v1[p])
    BY <1>1 DEF Frontier
  <2>1. p \in Nat /\ i1 \in Nat
    BY <1>2 DEF Places
  <2>2. p < i1 + 1 => p < i1 \/ p = i1
    BY <2>1
  <2>3. p >= i1 + 1 => p >= i1
    BY <2>1
  <2> QED
    BY <2>2, <2>3, <1>5, <1>2 DEF Frontier
<1>9. Places'
  BY <1>1, <1>2, <1>3 DEF Places
<1> QED
  BY <1>1, <1>2, <1>7, <1>8, <1>9 DEF Merging, Listing

LEMMA MergeSecondStep ==
  ASSUME SoundDb(db1), SoundDb(db2), Merging, MergeSecond
  PROVE  Merging'
PROOF
<1> DEFINE b == v2[i2]
<1>1. /\ i2 \in DOMAIN v2 /\ (i1 \in DOMAIN v1 => XVal(b) < XVal(v1[i1]))
      /\ df' = Append(df, Second(b)) /\ i2' = i2 + 1
      /\ v1' = v1 /\ v2' = v2 /\ i1' = i1 /\ db1' = db1 /\ db2' = db2
  BY DEF MergeSecond, DiffAdd
<1>2. /\ v1 \in Seq(Outer(db1)) /\ v2 \in Seq(Outer(db2)) /\ Range(v1) = Outer(db1) /\ Range(v2) = Outer(db2)
      /\ IsInjective(v1) /\ IsInjective(v2) /\ Places /\ Frontier /\ Increasing(v1) /\ Increasing(v2)
      /\ Exact(df, Upto(v1, i1), Upto(v2, i2), db1.items, db2.items)
  BY DEF Merging, Listing
<1>3. /\ i2 + 1 \in 1..(Len(v2) + 1) /\ b \in Range(v2) \ Upto(v2, i2)
      /\ Upto(v2, i2 + 1) = Upto(v2, i2) \cup {b}
  BY <1>1, <1>2, UptoFacts DEF Places
<1>4. \A o \in Outer(db1) \cup Outer(db2) : XVal(o) \in Nat
  BY PartsFinite DEF SoundDb, ItemOK, XVal
<1>5. ASSUME NEW p \in DOMAIN v1, p >= i1 PROVE XVal(b) < XVal(v1[p])
  <2>1. p \in 1..Len(v1) /\ i1 \in 1..(Len(v1) + 1) /\ Len(v1) \in Nat /\ DOMAIN v1 = 1..Len(v1)
    BY <1>2 DEF Places
  <2>2. i1 \in DOMAIN v1 /\ (p = i1 \/ i1 < p)
    BY <2>1, <1>5
  <2>3. XVal(b) < XVal(v1[i1]) /\ (p = i1 \/ XVal(v1[i1]) < XVal(v1[p]))
    BY <2>2, <1>1, <1>2 DEF Increasing
  <2>4. XVal(b) \in Nat /\ XVal(v1[i1]) \in Nat /\ XVal(v1[p]) \in Nat
    BY <2>2, <1>4, <1>2, <1>3
  <2> QED
    BY <2>3, <2>4
<1>6. NoTwin(b, db1.items)
  <2> SUFFICES ASSUME NEW o \in db1.items PROVE Id(o) # Id(b)
    BY DEF NoTwin
  <2>1. b \in Outer(db2) /\ ~IsInner(b)
    BY <1>2, <1>3, PartsFinite
  <2>2. CASE IsInner(o)
    BY <2>1, <2>2, OuterTwins
  <2>3. CASE ~IsInner(o)
    <3>1. o \in Outer(db1)
      BY <2>3 DEF Outer
    <3>2. PICK p \in DOMAIN v1 : o = v1[p]
      BY <3>1, <1>2 DEF Range
    <3>3. CASE p >= i1
      BY <3>2, <3>3, <1>5, <1>4, <2>1, <2>3, <3>1, OuterTwins
    <3>4. CASE ~(p >= i1)
      <4>1. p < i1
        BY <3>4, <1>2 DEF Places
      <4>2. i2 >= i2
        BY <1>2 DEF Places
      <4>3. XVal(o) < XVal(b)
        BY <4>1, <4>2, <3>2, <1>1, <1>2 DEF Frontier
      <4> QED
        BY <4>3, <1>4, <2>1, <2>3, <3>1, OuterTwins
    <3> QED
      BY <3>3, <3>4
  <2> QED
    BY <2>2, <2>3
<1>7. Exact(df', Upto(v1, i1), Upto(v2, i2 + 1), db1.items, db2.items)
  <2>1. b \in db2.items \ Upto(v2, i2)
    BY <1>2, <1>3, PartsFinite
  <2> HIDE DEF b
  <2> QED
    BY <2>1, <1>1, <1>2, <1>3, <1>6, AddSecond
<1>8. Frontier'
  <2> SUFFICES ASSUME NEW p \in DOMAIN v1, NEW q \in DOMAIN v2
               PROVE  /\ p < i1 /\ q >= i2 + 1 => XVal(v1[p]) < XVal(v2[q])
                      /\ p >= i1 /\ q < i2 + 1 => XVal(v2[q]) < XVal(v1[p])
    BY <1>1 DEF Frontier
  <2>1. q \in Nat /\ i2 \in Nat
    BY <1>2 DEF Places
  <2>2. q < i2 + 1 => q < i2 \/ q = i2
    BY <2>1
  <2>3. q >= i2 + 1 => q >= i2
    BY <2>1
  <2> QED
    BY <2>2, <2>3, <1>5, <1>2 DEF Frontier
<1>9. Places'
  BY <1>1, <1>2, <1>3 DEF Places
<1> QED
  BY <1>1, <1>2, <1>7, <1>8, <1>9 DEF Merging, Listing

LEMMA MergeBothStep ==
  ASSUME SoundDb(db1), SoundDb(db2), Merging, MergeBoth
  PROVE  Merging'
PROOF
<1> DEFINE a == v1[i1]
           b == v2[i2]
<1>1. /\ i1 \in DOMAIN v1 /\ i2 \in DOMAIN v2 /\ XVal(a) = XVal(b)
      /\ df' = IF SameVars(a, b) THEN df ELSE Append(df, Both(a, b))
      /\ i1' = i1 + 1 /\ i2' = i2 + 1
      /\ v1' = v1 /\ v2' = v2 /\ db1' = db1 /\ db2' = db2
  BY DEF MergeBoth, DiffAddBoth, DiffAdd
<1>2. /\ v1 \in Seq(Outer(db1)) /\ v2 \in Seq(Outer(db2)) /\ Range(v1) = Outer(db1) /\ Range(v2) = Outer(db2)
      /\ IsInjective(v1) /\ IsInjective(v2) /\ Places /\ Frontier /\ Increasing(v1) /\ Increasing(v2)
      /\ Exact(df, Upto(v1, i1), Upto(v2, i2), db1.items, db2.items)
  BY DEF Merging, Listing
<1>3. /\ i1 + 1 \in 1..(Len(v1) + 1) /\ a \in Range(v1) \ Upto(v1, i1)
      /\ Upto(v1, i1 + 1) = Upto(v1, i1) \cup {a}
  BY <1>1, <1>2, UptoFacts DEF Places
<1>4. /\ i2 + 1 \in 1..(Len(v2) + 1) /\ b \in Range(v2) \ Upto(v2, i2)
      /\ Upto(v2, i2 + 1) = Upto(v2, i2) \cup {b}
  BY <1>1, <1>2, UptoFacts DEF Places
<1>5. a \in Outer(db1) /\ b \in Outer(db2) /\ Id(a) = Id(b)
  BY <1>1, <1>2, <1>3, <1>4, PartsFinite, OuterTwins
<1>6. Exact(df', Upto(v1, i1 + 1), Upto(v2, i2 + 1), db1.items, db2.items)
  <2>1. a \in db1.items \ Upto(v1, i1) /\ b \in db2.items
    BY <1>2, <1>3, <1>5, PartsFinite
  <2>2. Exact(df, Upto(v1, i1), Upto(v2, i2), db1.items, db2.items)
    BY <1>2
  <2> HIDE DEF a, b
  <2>4. Exact(df', Upto(v1, i1) \cup {a}, Upto(v2, i2), db1.items, db2.items)
    BY <2>1, <2>2, <1>1, <1>5, AddBoth
  <2>5. a \in db1.items /\ Id(a) = Id(b)
    BY <2>1, <1>5
  <2>6. Exact(df', Upto(v1, i1) \cup {a}, Upto(v2, i2) \cup {b}, db1.items, db2.items)
    BY <2>4, <2>5, AddKnown
  <2> QED
    BY <2>6, <1>3, <1>4
<1>7. Frontier'
  <2> SUFFICES ASSUME NEW p \in DOMAIN v1, NEW q \in DOMAIN v2
               PROVE  /\ p < i1 + 1 /\ q >= i2 + 1 => XVal(v1[p]) < XVal(v2[q])
                      /\ p >= i1 + 1 /\ q < i2 + 1 => XVal(v2[q]) < XVal(v1[p])
    BY <1>1 DEF Frontier
  <2>1. p \in Nat /\ i1 \in Nat /\ q \in Nat /\ i2 \in Nat
    BY <1>2 DEF Places
  <2>2. p < i1 + 1 /\ q >= i2 + 1 => (p < i1 /\ q >= i2) \/ (p = i1 /\ i2 < q)
    BY <2>1
  <2>3. p >= i1 + 1 /\ q < i2 + 1 => (p >= i1 /\ q < i2) \/ (i1 < p /\ q = i2)
    BY <2>1
  <2>4. i2 < q => XVal(b) < XVal(v2[q])
    BY <1>1, <1>2 DEF Increasing
  <2>5. i1 < p => XVal(a) < XVal(v1[p])
    BY <1>1, <1>2 DEF Increasing
  <2> QED
    BY <2>2, <2>3, <2>4, <2>5, <1>1, <1>2 DEF Frontier
<1>8. Places'
  BY <1>1, <1>2, <1>3, <1>4 DEF Places
<1> QED
  BY <1>1, <1>2, <1>6, <1>7, <1>8 DEF Merging, Listing

LEMMA DiffVector1Step ==
  ASSUME SoundDb(db1), SoundDb(db2), i1 = 1, i2 = 1, df = <<>>, DiffVector1
  PROVE  Merging'
PROOF
<1>1. /\ v1' \in SortedItems(Outer(db1)) /\ v2' \in SortedItems(Outer(db2))
      /\ i1' = 1 /\ i2' = 1 /\ df' = <<>> /\ db1' = db1 /\ db2' = db2
  BY DEF DiffVector1
<1>2. Listing(v1', Outer(db1)) /\ Increasing(v1') /\ Listing(v2', Outer(db2)) /\ Increasing(v2')
  BY <1>1, SortedFacts
<1>3. Len(v1') \in Nat /\ Len(v2') \in Nat /\ DOMAIN v1' = 1..Len(v1') /\ DOMAIN v2' = 1..Len(v2')
  BY <1>2 DEF Listing
<1>4. Upto(v1', 1) = {} /\ Upto(v2', 1) = {}
  BY <1>3 DEF Upto
<1>5. Exact(df', Upto(v1', i1'), Upto(v2', i2'), db1.items, db2.items)
  BY <1>1, <1>4 DEF Exact, Contributed, Range, IsInjective
<1>6. Places'
  BY <1>1, <1>3 DEF Places
<1>7. Frontier'
  BY <1>1, <1>3 DEF Frontier
<1> QED
  BY <1>1, <1>2, <1>5, <1>6, <1>7 DEF Merging

LEMMA DiffVectorStep ==
  ASSUME SoundDb(db1), SoundDb(db2), Merging, DiffVector
  PROVE  Comparing'
PROOF
<1>1. /\ v1' \in Listed(Inner(db1)) /\ v2' \in Listed(Inner(db2)) /\ Merged
      /\ i1' = 1 /\ i2' = 1 /\ df' = df /\ db1' = db1 /\ db2' = db2
  BY DEF DiffVector
<1>2. Listing(v1', Inner(db1)) /\ Listing(v2', Inner(db2))
  BY <1>1, PartsFinite, ListedFacts
<1>3. Upto(v1, i1) = Outer(db1) /\ Upto(v2, i2) = Outer(db2)
  BY <1>1, UptoFacts DEF Merging, Merged, Listing, Places
<1>4. Len(v1') \in Nat /\ Len(v2') \in Nat /\ DOMAIN v1' = 1..Len(v1') /\ DOMAIN v2' = 1..Len(v2')
  BY <1>2 DEF Listing
<1>5. Upto(v1', 1) = {} /\ Upto(v2', 1) = {}
  BY <1>4 DEF Upto
<1>6. /\ Outer(db1) \cup Upto(v1', i1') = Outer(db1) /\ Outer(db2) \cup Upto(v2', i2') = Outer(db2)
  BY <1>1, <1>5
<1>7. Exact(df', Outer(db1) \cup Upto(v1', i1'), Outer(db2) \cup Upto(v2', i2'), db1.items, db2.items)
  BY <1>1, <1>3, <1>6 DEF Merging
<1>8. Places'
  BY <1>1, <1>4 DEF Places
<1> QED
  BY <1>1, <1>2, <1>7, <1>8 DEF Comparing

\* dbdiff_vector(): what is found in the other list is the twin.
LEMMA InnerTwins ==
  ASSUME NEW S, NEW s, Listing(s, Inner(S)), SoundDb(S), NEW a, ItemOK(a), IsInner(a)
  PROVE  /\ Matching(a, s) = {} <=> NoTwin(a, S.items)
         /\ \A i \in Matching(a, s) : s[i] \in S.items /\ Id(a) = Id(s[i])
PROOF
<1>1. Range(s) = Inner(S)
  BY DEF Listing
<1>2. ASSUME NEW o \in Inner(S) PROVE SameEntry(a, o) <=> Id(a) = Id(o)
  BY PartsFinite, MatchFacts DEF SoundDb
<1>3. \A i \in Matching(a, s) : s[i] \in S.items /\ Id(a) = Id(s[i])
  BY <1>1, <1>2, PartsFinite DEF Matching, Range
<1>4. ASSUME Matching(a, s) = {} PROVE NoTwin(a, S.items)
  <2> SUFFICES ASSUME NEW o \in S.items, Id(o) = Id(a) PROVE FALSE
    BY DEF NoTwin
  <2>1. o \in Inner(S)
    BY IdFacts DEF SameId, Inner
  <2>2. PICK i \in DOMAIN s : s[i] = o
    BY <2>1, <1>1 DEF Range
  <2> QED
    BY <2>1, <2>2, <1>2, <1>4 DEF Matching
<1> QED
  BY <1>3, <1>4 DEF NoTwin

LEMMA CompareFirstStep ==
  ASSUME SoundDb(db1), SoundDb(db2), Comparing, CompareFirst
  PROVE  Comparing'
PROOF
<1> DEFINE a == v1[i1]
           A == Outer(db1) \cup Upto(v1, i1)
           B == Outer(db2) \cup Upto(v2, i2)
<1>1. /\ i1 \in DOMAIN v1 /\ i1' = i1 + 1
      /\ v1' = v1 /\ v2' = v2 /\ i2' = i2 /\ db1' = db1 /\ db2' = db2
      /\ \/ Matching(a, v2) = {} /\ df' = Append(df, First(a))
         \/ \E i \in Matching(a, v2) : df' = IF SameVars(a, v2[i]) THEN df ELSE Append(df, Both(a, v2[i]))
  BY DEF CompareFirst, DiffAdd, DiffAddBoth
<1>2. /\ v1 \in Seq(Inner(db1)) /\ Range(v1) = Inner(db1) /\ IsInjective(v1) /\ Listing(v2, Inner(db2))
      /\ Places /\ Exact(df, A, B, db1.items, db2.items)
  BY DEF Comparing, Listing
<1>3. /\ i1 + 1 \in 1..(Len(v1) + 1) /\ a \in Range(v1) \ Upto(v1, i1)
      /\ Upto(v1, i1 + 1) = Upto(v1, i1) \cup {a}
  BY <1>1, <1>2, UptoFacts DEF Places
<1>4. a \in db1.items \ A /\ IsInner(a) /\ ItemOK(a)
  BY <1>2, <1>3, PartsFinite DEF SoundDb
<1>5. /\ Matching(a, v2) = {} => NoTwin(a, db2.items)
      /\ \A i \in Matching(a, v2) : v2[i] \in db2.items /\ Id(a) = Id(v2[i])
  <2> HIDE DEF a
  <2> QED
    BY <1>2, <1>4, InnerTwins
<1>6. Exact(df', A \cup {a}, B, db1.items, db2.items)
  <2> HIDE DEF a, A, B
  <2>2. CASE Matching(a, v2) = {} /\ df' = Append(df, First(a))
    BY <2>2, <1>2, <1>4, <1>5, AddFirst
  <2>3. ASSUME NEW i \in Matching(a, v2), df' = IF SameVars(a, v2[i]) THEN df ELSE Append(df, Both(a, v2[i]))
        PROVE  Exact(df', A \cup {a}, B, db1.items, db2.items)
    <3> DEFINE b == v2[i]
    <3>1. b \in db2.items /\ Id(a) = Id(b) /\ df' = IF SameVars(a, b) THEN df ELSE Append(df, Both(a, b))
      BY <2>3, <1>5
    <3> HIDE DEF b
    <3> QED
      BY <3>1, <1>2, <1>4, AddBoth
  <2> QED
    BY <1>1, <2>2, <2>3
<1>7. A \cup {a} = Outer(db1) \cup Upto(v1, i1 + 1)
  BY <1>3
<1>8. Places'
  BY <1>1, <1>2, <1>3 DEF Places
<1> QED
  BY <1>1, <1>2, <1>6, <1>7, <1>8 DEF Comparing, Listing

LEMMA CompareSecondStep ==
  ASSUME SoundDb(db1), SoundDb(db2), Comparing, CompareSecond
  PROVE  Comparing'
PROOF
<1> DEFINE b == v2[i2]
           A == Outer(db1) \cup Upto(v1, i1)
           B == Outer(db2) \cup Upto(v2, i2)
<1>1. /\ i2 \in DOMAIN v2 /\ i2' = i2 + 1
      /\ v1' = v1 /\ v2' = v2 /\ i1' = i1 /\ db1' = db1 /\ db2' = db2
      /\ Matching(b, v1) = {} => df' = Append(df, Second(b))
      /\ Matching(b, v1) # {} => df' = df
  BY DEF CompareSecond, DiffAdd
<1>2. /\ v2 \in Seq(Inner(db2)) /\ Range(v2) = Inner(db2) /\ IsInjective(v2) /\ Listing(v1, Inner(db1))
      /\ Places /\ Exact(df, A, B, db1.items, db2.items)
  BY DEF Comparing, Listing
<1>3. /\ i2 + 1 \in 1..(Len(v2) + 1) /\ b \in Range(v2) \ Upto(v2, i2)
      /\ Upto(v2, i2 + 1) = Upto(v2, i2) \cup {b}
  BY <1>1, <1>2, UptoFacts DEF Places
<1>4. b \in db2.items \ B /\ IsInner(b) /\ ItemOK(b)
  BY <1>2, <1>3, PartsFinite DEF SoundDb
<1>5. /\ Matching(b, v1) = {} => NoTwin(b, db1.items)
      /\ \A i \in Matching(b, v1) : v1[i] \in db1.items /\ Id(b) = Id(v1[i])
  <2> HIDE DEF b
  <2> QED
    BY <1>2, <1>4, InnerTwins
<1>6. Exact(df', A, B \cup {b}, db1.items, db2.items)
  <2> HIDE DEF b, A, B
  <2>2. CASE Matching(b, v1) = {}
    <3>1. NoTwin(b, db1.items) /\ df' = Append(df, Second(b))
      BY <2>2, <1>1, <1>5
    <3>2. b \in db2.items \ B /\ Exact(df, A, B, db1.items, db2.items)
      BY <1>2, <1>4
    <3> QED
      BY <3>1, <3>2, AddSecond
  <2>3. CASE Matching(b, v1) # {}
    <3>1. PICK i \in Matching(b, v1) : TRUE
      BY <2>3
    <3> DEFINE a == v1[i]
    <3>2. a \in db1.items /\ Id(a) = Id(b) /\ df' = df
      BY <3>1, <2>3, <1>1, <1>5
    <3> HIDE DEF a
    <3> QED
      BY <3>2, <1>2, AddKnown
  <2> QED
    BY <2>2, <2>3
<1>7. B \cup {b} = Outer(db2) \cup Upto(v2, i2 + 1)
  BY <1>3
<1>8. Places'
  BY <1>1, <1>2, <1>3 DEF Places
<1> QED
  BY <1>1, <1>2, <1>6, <1>7, <1>8 DEF Comparing, Listing

LEMMA CommitVecExact ==
  ASSUME SoundDb(db1), SoundDb(db2), Comparing, CommitVec
  PROVE  Exact(df, db1.items, db2.items, db1.items, db2.items)
PROOF
<1>1. i1 \notin DOMAIN v1 /\ i2 \notin DOMAIN v2
  BY DEF CommitVec
<1>2. Upto(v1, i1) = Inner(db1) /\ Upto(v2, i2) = Inner(db2)
  BY <1>1, UptoFacts DEF Comparing, Listing, Places
<1>3. Outer(db1) \cup Upto(v1, i1) = db1.items /\ Outer(db2) \cup Upto(v2, i2) = db2.items
  BY <1>2, PartsFinite
<1> QED
  BY <1>3 DEF Comparing

------------------------------------------------------------------------------
(***************************************************************************)
(* The commit vector: what the loops have passed has been heard of, and    *)
(* every call is for a difference and a dependency that match.             *)
(***************************************************************************)
Dependencies == [tree : BOOLEAN, row : Nat, pat : Patterns]

\* The part of the key of e that dependency d covers.
Part(e, d) == MatchKey(DiffKey(e), deps[d].pat)
Heard(vec, e, d) ==
  \E c \in Range(vec) : c.dep = d /\ (c.ent = e \/ (deps[d].tree /\ c.mkey = Part(e, d)))

\* A call of the vector.
CallOK(c) ==
  /\ c.dep \in DOMAIN deps /\ c.ent \in Range(df) /\ Part(c.ent, c.dep) # <<>>
  /\ c = Callback(c.dep, c.ent)
VecOK(vec) ==
  /\ vec \in Seq(Range(vec)) /\ IsInjective(vec)
  /\ \A c \in Range(vec) : CallOK(c)
  /\ \A c, e \in Range(vec) : c # e /\ c.dep = e.dep /\ deps[c.dep].tree => c.mkey # e.mkey

\* The loops have passed difference p and dependency d.
Passed(p, d) == p < i1 \/ (p = i1 /\ d < i2)
AtMatch ==
  /\ i1 \in 1..(Len(df) + 1) /\ i2 \in Nat \ {0} /\ (deps # <<>> => i2 \in DOMAIN deps)
  /\ VecOK(ddvec)
  /\ \A c \in Range(ddvec) : \E p \in DOMAIN df : c.ent = df[p] /\ Passed(p, c.dep)
  /\ \A p \in DOMAIN df, d \in DOMAIN deps : Passed(p, d) /\ Part(df[p], d) # <<>> => Heard(ddvec, df[p], d)
AtDone ==
  /\ VecOK(ddvec)
  /\ \A e \in Range(df), d \in DOMAIN deps : Part(e, d) # <<>> => Heard(ddvec, e, d)
  /\ \A j, k \in DOMAIN ddvec : j < k => deps[ddvec[j].dep].row <= deps[ddvec[k].dep].row

LEMMA CallbackFacts ==
  ASSUME NEW d, NEW e
  PROVE  /\ Callback(d, e).dep = d /\ Callback(d, e).ent = e
         /\ deps[d].tree = TRUE => Callback(d, e).mkey = Part(e, d)
PROOF
  BY DEF Callback, Part

\* The places before the next one are those passed and this one.
LEMMA PassedNext ==
  ASSUME deps \in Seq(Dependencies), df \in Seq(Range(df)), i1 \in DOMAIN df, i2 \in DOMAIN deps, MatchDep
  PROVE  /\ i1' \in 1..(Len(df) + 1) /\ i2' \in DOMAIN deps
         /\ \A p \in DOMAIN df, d \in DOMAIN deps : Passed(p, d)' <=> Passed(p, d) \/ (p = i1 /\ d = i2)
PROOF
<1>1. /\ DOMAIN df = 1..Len(df) /\ DOMAIN deps = 1..Len(deps) /\ Len(df) \in Nat /\ Len(deps) \in Nat
      /\ i1 \in 1..Len(df) /\ i2 \in 1..Len(deps)
  OBVIOUS
<1>2. CASE i2 < Len(deps)
  <2>1. i2' = i2 + 1 /\ i1' = i1
    BY <1>2 DEF MatchDep
  <2> QED
    BY <1>1, <1>2, <2>1 DEF Passed
<1>3. CASE ~(i2 < Len(deps))
  <2>1. i2' = 1 /\ i1' = i1 + 1 /\ i2 = Len(deps)
    BY <1>1, <1>3 DEF MatchDep
  <2>2. i1' \in 1..(Len(df) + 1) /\ i2' \in 1..Len(deps)
    BY <1>1, <2>1
  <2>3. ASSUME NEW p \in 1..Len(df), NEW d \in 1..Len(deps)
        PROVE  (p < i1 + 1 \/ (p = i1 + 1 /\ d < 1)) <=> (p < i1 \/ (p = i1 /\ d < i2)) \/ (p = i1 /\ d = i2)
    <3>1. p \in Int /\ d \in Int /\ i1 \in Int /\ i2 \in Int
      BY <1>1
    <3>2. d <= i2 /\ 1 <= d
      BY <1>1, <2>1
    <3> QED
      BY <3>1, <3>2
  <2> QED
    BY <1>1, <2>1, <2>2, <2>3 DEF Passed
<1> QED
  BY <1>2, <1>3

LEMMA MatchDepStep ==
  ASSUME deps \in Seq(Dependencies), df \in Seq(Range(df)), IsInjective(df), AtMatch, MatchDep
  PROVE  AtMatch'
PROOF
<1> DEFINE e == df[i1]
           new == Callback(i2, e)
           skip == Part(e, i2) = <<>> \/ (deps[i2].tree /\ Known(i2, Part(e, i2)))
<1>1. /\ i1 \in DOMAIN df /\ i2 \in DOMAIN deps /\ df' = df /\ deps' = deps
      /\ skip => ddvec' = ddvec
      /\ ~skip => ddvec' = Append(ddvec, new)
  BY DEF MatchDep, Part
<1>2. /\ i1' \in 1..(Len(df) + 1) /\ i2' \in DOMAIN deps
      /\ \A p \in DOMAIN df, d \in DOMAIN deps : Passed(p, d)' <=> Passed(p, d) \/ (p = i1 /\ d = i2)
  BY <1>1, PassedNext
<1>3. /\ VecOK(ddvec)
      /\ \A c \in Range(ddvec) : \E p \in DOMAIN df : c.ent = df[p] /\ Passed(p, c.dep)
      /\ \A p \in DOMAIN df, d \in DOMAIN deps : Passed(p, d) /\ Part(df[p], d) # <<>> => Heard(ddvec, df[p], d)
  BY DEF AtMatch
<1>4. e \in Range(df) /\ DOMAIN deps \subseteq Nat \ {0}
  BY <1>1 DEF Range
<1>5. new.dep = i2 /\ new.ent = e /\ (deps[i2].tree = TRUE => new.mkey = Part(e, i2))
  BY CallbackFacts
<1>6. ASSUME NEW d \in DOMAIN deps PROVE deps[d].tree \in BOOLEAN
  <2>1. deps[d] \in Dependencies
    OBVIOUS
  <2> QED
    BY <2>1 DEF Dependencies
<1>7. CASE skip
  <2>1. ddvec' = ddvec
    BY <1>1, <1>7
  <2>2. Part(e, i2) # <<>> => Heard(ddvec, e, i2)
    BY <1>7 DEF Known, Heard, Range
  <2>3. ASSUME NEW p \in DOMAIN df, NEW d \in DOMAIN deps, Passed(p, d)', Part(df[p], d) # <<>>
        PROVE  Heard(ddvec, df[p], d)
    BY <2>2, <2>3, <1>2, <1>3
  <2>4. VecOK(ddvec)'
    BY <2>1, <1>1, <1>3 DEF VecOK, CallOK, Part, Callback
  <2>5. \A c \in Range(ddvec) : \E p \in DOMAIN df : c.ent = df[p] /\ Passed(p, c.dep)'
    BY <1>2, <1>3 DEF VecOK, CallOK
  <2>6. ASSUME NEW p \in DOMAIN df, NEW d \in DOMAIN deps, Passed(p, d)', Part(df[p], d)' # <<>>
        PROVE  Heard(ddvec, df[p], d)'
    BY <2>1, <2>3, <2>6, <1>1 DEF Part, Heard
  <2> QED
    BY <2>1, <2>4, <2>5, <2>6, <1>1, <1>2, <1>4 DEF AtMatch
<1>8. CASE ~skip
  <2>1. ddvec' = Append(ddvec, new) /\ Part(e, i2) # <<>>
    BY <1>1, <1>8
  <2>2. new \notin Range(ddvec)
    <3> SUFFICES ASSUME new \in Range(ddvec) PROVE FALSE
      OBVIOUS
    <3>1. PICK p \in DOMAIN df : e = df[p] /\ Passed(p, i2)
      <4> HIDE DEF new, e
      <4> QED
        BY <1>3, <1>5
    <3>2. p = i1
      BY <3>1, <1>1 DEF IsInjective
    <3>3. i1 \in Nat /\ i2 \in Nat
      BY <1>1, <1>4
    <3> QED
      BY <3>1, <3>2, <3>3 DEF Passed
  <2> HIDE DEF new
  <2>3. /\ Append(ddvec, new) \in Seq(Range(ddvec) \cup {new}) /\ IsInjective(Append(ddvec, new))
        /\ Range(Append(ddvec, new)) = Range(ddvec) \cup {new}
    <3>1. ddvec \in Seq(Range(ddvec) \cup {new}) /\ IsInjective(ddvec) /\ new \in (Range(ddvec) \cup {new}) \ Range(ddvec)
      <4>1. ddvec \in Seq(Range(ddvec)) /\ Range(ddvec) \subseteq Range(ddvec) \cup {new}
        BY <1>3 DEF VecOK
      <4>2. ddvec \in Seq(Range(ddvec) \cup {new})
        BY <4>1
      <4> QED
        BY <4>2, <2>2, <1>3 DEF VecOK
    <3> QED
      BY <3>1, QueueProperties
  <2>4. CallOK(new)
    <3>1. new = Callback(new.dep, new.ent)
      BY <1>5 DEF new
    <3> QED
      BY <3>1, <1>1, <1>4, <1>5, <2>1 DEF CallOK
  <2>5. \A c \in Range(ddvec) : c.dep = i2 /\ deps[i2].tree => c.mkey # new.mkey
    <3>1. ASSUME deps[i2].tree PROVE ~Known(i2, Part(e, i2)) /\ new.mkey = Part(e, i2)
      BY <1>8, <1>5, <1>6, <1>1, <3>1
    <3> QED
      BY <3>1 DEF Known, Range
  <2>6. VecOK(ddvec)'
    <3>1. \A c \in Range(ddvec') : CallOK(c)
      BY <2>1, <2>3, <2>4, <1>3 DEF VecOK
    <3>2. \A c, o \in Range(ddvec') : c # o /\ c.dep = o.dep /\ deps[c.dep].tree => c.mkey # o.mkey
      <4>1. \A c, o \in Range(ddvec) : c # o /\ c.dep = o.dep /\ deps[c.dep].tree => c.mkey # o.mkey
        BY <1>3 DEF VecOK
      <4>2. \A c \in Range(ddvec') : c \in Range(ddvec) \/ c = new
        BY <2>1, <2>3
      <4> QED
        BY <4>1, <4>2, <2>5, <1>5
    <3>3. ddvec' \in Seq(Range(ddvec')) /\ IsInjective(ddvec')
      BY <2>1, <2>3
    <3>4. \A c \in Range(ddvec') : CallOK(c)'
      BY <3>1, <1>1 DEF CallOK, Part, Callback
    <3> QED
      BY <3>2, <3>3, <3>4, <1>1 DEF VecOK
  <2>7. ASSUME NEW c \in Range(ddvec') PROVE \E p \in DOMAIN df : c.ent = df[p] /\ Passed(p, c.dep)'
    <3>1. CASE c \in Range(ddvec)
      BY <3>1, <1>2, <1>3 DEF VecOK, CallOK
    <3>2. CASE c = new
      BY <3>2, <1>1, <1>2, <1>5
    <3> QED
      BY <3>1, <3>2, <2>1, <2>3
  <2>8. ASSUME NEW p \in DOMAIN df, NEW d \in DOMAIN deps, Passed(p, d)', Part(df[p], d)' # <<>>
        PROVE  Heard(ddvec, df[p], d)'
    <3>1. Part(df[p], d) # <<>>
      BY <2>8, <1>1 DEF Part
    <3>2. CASE Passed(p, d)
      <4>1. Heard(ddvec, df[p], d)
        BY <3>1, <3>2, <1>3
      <4> QED
        BY <4>1, <2>1, <2>3, <1>1 DEF Heard, Part
    <3>3. CASE p = i1 /\ d = i2
      <4>1. new \in Range(ddvec') /\ new.dep = d /\ new.ent = df[p]
        BY <3>3, <2>1, <2>3, <1>5
      <4> QED
        BY <4>1, <1>1 DEF Heard
    <3> QED
      BY <2>8, <3>2, <3>3, <1>2
  <2> QED
    BY <2>6, <2>7, <2>8, <1>1, <1>2, <1>4 DEF AtMatch
<1> QED
  BY <1>7, <1>8

\* A sorted vector has the same calls.
LEMMA SortVecStep ==
  ASSUME deps \in Seq(Dependencies), df \in Seq(Range(df)), AtMatch, SortVec
  PROVE  AtDone'
PROOF
<1>1. PICK p \in Bijection(DOMAIN ddvec, DOMAIN ddvec) :
        /\ ddvec' = [k \in DOMAIN ddvec |-> ddvec[p[k]]]
        /\ \A j, k \in DOMAIN ddvec : j < k => deps[ddvec'[j].dep].row <= deps[ddvec'[k].dep].row
  BY DEF SortVec
<1>2. (i1 \in DOMAIN df => deps = <<>>) /\ df' = df /\ deps' = deps
  BY DEF SortVec
<1>3. /\ p \in [DOMAIN ddvec -> DOMAIN ddvec] /\ IsInjective(p)
      /\ \A k \in DOMAIN ddvec : \E j \in DOMAIN ddvec : p[j] = k
  BY <1>1 DEF Bijection, Injection, Surjection
<1>4. VecOK(ddvec) /\ DOMAIN ddvec = 1..Len(ddvec) /\ Len(ddvec) \in Nat
  BY DEF AtMatch, VecOK
<1>5. DOMAIN ddvec' = DOMAIN ddvec /\ \A k \in DOMAIN ddvec : p[k] \in DOMAIN ddvec /\ ddvec'[k] = ddvec[p[k]]
  BY <1>1, <1>3
<1>6. Range(ddvec') = Range(ddvec)
  BY <1>3, <1>5 DEF Range
<1>7. ddvec' \in Seq(Range(ddvec)) /\ IsInjective(ddvec')
  <2>1. \A k \in DOMAIN ddvec : ddvec'[k] \in Range(ddvec)
    BY <1>5 DEF Range
  <2>2. ddvec' \in [1..Len(ddvec) -> Range(ddvec)]
    BY <2>1, <1>1, <1>4
  <2>3. ddvec' \in Seq(Range(ddvec))
    BY <2>2, <1>4
  <2>4. IsInjective(ddvec')
    BY <1>3, <1>4, <1>5 DEF IsInjective, VecOK
  <2> QED
    BY <2>3, <2>4
<1>8. VecOK(ddvec)'
  BY <1>2, <1>4, <1>6, <1>7 DEF VecOK, CallOK, Part, Callback
<1>9. ASSUME NEW e \in Range(df), NEW d \in DOMAIN deps, Part(e, d)' # <<>> PROVE Heard(ddvec, e, d)'
  <2>1. Part(e, d) # <<>> /\ i1 \notin DOMAIN df
    BY <1>2, <1>9 DEF Part
  <2>2. PICK q \in DOMAIN df : df[q] = e
    BY DEF Range
  <2>3. q < i1
    BY <2>1 DEF AtMatch
  <2>4. Heard(ddvec, e, d)
    BY <2>1, <2>2, <2>3 DEF AtMatch, Passed
  <2> QED
    BY <2>4, <1>2, <1>6 DEF Heard, Part
<1> QED
  BY <1>1, <1>2, <1>5, <1>8, <1>9 DEF AtDone

------------------------------------------------------------------------------
(***************************************************************************)
(* From the invariants of the loops to what they say of the difference and *)
(* of the vector.                                                          *)
(***************************************************************************)
LEMMA SeqRange ==
  ASSUME NEW S, NEW s \in Seq(S)
  PROVE  s \in Seq(Range(s))
PROOF
<1>1. \A k \in 1..Len(s) : s[k] \in Range(s)
  BY DEF Range
<1> QED
  BY <1>1

LEMMA MatchKeyFacts ==
  ASSUME NEW it, ItemOK(it), NEW pat \in Patterns, MatchKey(it.key, pat) # <<>>
  PROVE  MatchKey(it.key, pat)[2] = it.key[2]
PROOF
<1>1. PICK ns, w : pat = [names |-> ns, wild |-> w] /\ ns \in {<<"a">>, <<"a", "b">>}
  BY DEF Patterns
<1> DEFINE n == 2 * Len(pat.names)
<1>2. n \in {2, 4}
  <2>1. pat.names = <<"a">> \/ pat.names = <<"a", "b">>
    BY <1>1
  <2>2. Len(<<"a">>) = 1 /\ Len(<<"a", "b">>) = 2
    OBVIOUS
  <2>3. Len(pat.names) = 1 \/ Len(pat.names) = 2
    BY <2>1, <2>2
  <2>4. 2 * 1 = 2 /\ 2 * 2 = 4
    OBVIOUS
  <2>5. n = 2 \/ n = 4
    BY <2>3, <2>4, Zenon
  <2> QED
    BY <2>5
<1>3. Len(it.key) >= n /\ MatchKey(it.key, pat) = SubSeq(it.key, 1, n)
  BY DEF MatchKey
<1>4. CASE it = OuterItem(it.key[2], it.vars)
  <2>1. it.key = <<"a", it.key[2]>>
    BY <1>4 DEF OuterItem
  <2>2. n = 2
    BY <2>1, <1>2, <1>3
  <2> HIDE DEF n
  <2> QED
    BY <2>1, <2>2, <1>3
<1>5. CASE it = InnerItem(it.key[2], it.key[4], it.vars)
  <2>1. it.key = <<"a", it.key[2], "b", it.key[4]>>
    BY <1>5 DEF InnerItem
  <2> HIDE DEF n
  <2>2. CASE n = 2
    BY <2>1, <2>2, <1>3
  <2>3. CASE n = 4
    BY <2>1, <2>3, <1>3
  <2> QED
    BY <1>2, <2>2, <2>3
<1> QED
  BY <1>4, <1>5 DEF ItemOK

LEMMA SideFacts ==
  ASSUME NEW S, NEW T, NEW e \in Differences(S, T)
  PROVE  Side(e) \in S \cup T
PROOF
<1>1. CASE \E a \in S : e = First(a)
  BY <1>1 DEF First, Side
<1>2. CASE \E b \in T : e = Second(b)
  BY <1>2 DEF Second, Side
<1>3. CASE \E p \in S \X T : e = Both(p[1], p[2])
  BY <1>3 DEF Both, Side
<1> QED
  BY <1>1, <1>2, <1>3 DEF Differences

LEMMA ExactIsExact ==
  ASSUME SoundDb(db1), SoundDb(db2), doing \in {"match", "done"} => Exact(df, db1.items, db2.items, db1.items, db2.items)
  PROVE  DiffExact
PROOF
<1> DEFINE S == db1.items
           T == db2.items
           R == Range(df)
<1> SUFFICES ASSUME doing \in {"match", "done"}
             PROVE  /\ IsInjective(df) /\ \A e \in R : Correct(e)
                    /\ \A a \in S : Twins(a, db2) = {} => First(a) \in R
                    /\ \A b \in T : Twins(b, db1) = {} => Second(b) \in R
                    /\ \A a \in S : Twins(a, db2) # {} /\ (\A b \in Twins(a, db2) : Differ(a, b)) =>
                         \E b \in T : Both(a, b) \in R
                    /\ \A e, f \in R : e.op = "both" /\ e.e1 = f.e1 => e = f
  BY DEF DiffExact
<1>1. IsInjective(df) /\ R \subseteq Differences(S, T) /\ Contributed(R, S, T, S, T)
  <2>1. df \in Seq(Differences(S, T)) /\ IsInjective(df) /\ Contributed(R, S, T, S, T)
    BY DEF Exact
  <2>2. \A p \in DOMAIN df : df[p] \in Differences(S, T)
    BY <2>1
  <2> QED
    BY <2>1, <2>2 DEF Range
<1>2. \A a : Twins(a, db2) = {} <=> NoTwin(a, T)
  BY DEF Twins, NoTwin
<1>3. \A b : Twins(b, db1) = {} <=> NoTwin(b, S)
  BY DEF Twins, NoTwin
<1>4. \A a \in S, b \in T : SameVars(a, b) <=> ~Differ(a, b)
  BY MatchFacts DEF Differ, SoundDb
<1>5. \A a \in S, b \in T : b \in Twins(a, db2) <=> Id(a) = Id(b)
  BY DEF Twins
<1>6. NoItem \notin S \cup T
  <2>1. ItemOK(NoItem) => FALSE
    <3>1. Len(NoItem.key) = 0
      BY DEF NoItem
    <3>2. \A n, vars : Len(OuterItem(n, vars).key) = 2
      BY DEF OuterItem
    <3>3. \A n, m, vars : Len(InnerItem(n, m, vars).key) = 4
      BY DEF InnerItem
    <3>4. 0 # 2 /\ 0 # 4
      OBVIOUS
    <3>5. \/ NoItem = OuterItem(NoItem.key[2], NoItem.vars)
          \/ NoItem = InnerItem(NoItem.key[2], NoItem.key[4], NoItem.vars)
          \/ ~ItemOK(NoItem)
      BY Zenon DEF ItemOK
    <3> QED
      BY <3>1, <3>2, <3>3, <3>4, <3>5, Zenon
  <2> QED
    BY <2>1 DEF SoundDb
<1> HIDE DEF R
<1>7. ASSUME NEW e \in R
      PROVE  \/ \E a \in S : e = First(a) /\ NoTwin(a, T)
             \/ \E b \in T : e = Second(b) /\ NoTwin(b, S)
             \/ \E a \in S, b \in T : e = Both(a, b) /\ Id(a) = Id(b) /\ ~SameVars(a, b)
  <2>1. CASE \E a \in S : e = First(a)
    BY <1>1, <2>1 DEF Contributed
  <2>2. CASE \E b \in T : e = Second(b)
    BY <1>1, <2>2 DEF Contributed
  <2>3. CASE \E p \in S \X T : e = Both(p[1], p[2])
    <3>1. PICK p \in S \X T : e = Both(p[1], p[2])
      BY <2>3
    <3> DEFINE a == p[1]
               b == p[2]
    <3>2. a \in S /\ b \in T /\ e = Both(a, b)
      BY <3>1
    <3> HIDE DEF a, b
    <3>3. Changed(a, b)
      BY <1>1, <3>2 DEF Contributed
    <3> QED
      BY <3>2, <3>3 DEF Changed
  <2> QED
    BY <1>1, <2>1, <2>2, <2>3 DEF Differences
<1>8. ASSUME NEW e \in R PROVE Correct(e)
  <2>1. CASE \E a \in S : e = First(a) /\ NoTwin(a, T)
    BY <1>2, <2>1 DEF Correct
  <2>2. CASE \E b \in T : e = Second(b) /\ NoTwin(b, S)
    BY <1>3, <2>2 DEF Correct
  <2>3. CASE \E a \in S, b \in T : e = Both(a, b) /\ Id(a) = Id(b) /\ ~SameVars(a, b)
    <3>1. PICK a \in S, b \in T : e = Both(a, b) /\ Id(a) = Id(b) /\ ~SameVars(a, b)
      BY <2>3
    <3>2. b \in Twins(a, db2) /\ Differ(a, b)
      BY <1>4, <1>5, <3>1
    <3> QED
      BY <3>1, <3>2 DEF Correct
  <2> QED
    BY <1>7, <2>1, <2>2, <2>3
<1>9. ASSUME NEW a \in S, Twins(a, db2) # {}, \A b \in Twins(a, db2) : Differ(a, b)
      PROVE  \E b \in T : Both(a, b) \in R
  BY <1>1, <1>2, <1>4, <1>5, <1>9 DEF Contributed
<1>10. ASSUME NEW e \in R, NEW f \in R, e.op = "both", e.e1 = f.e1 PROVE e = f
  <2>1. \A a : First(a).op = "first" /\ First(a).e1 = a
    BY DEF First
  <2>2. \A b : Second(b).op = "second" /\ Second(b).e1 = NoItem
    BY DEF Second
  <2>3. \A a, b : Both(a, b).op = "both" /\ Both(a, b).e1 = a
    BY DEF Both
  <2>4. PICK a \in S, b \in T : e = Both(a, b) /\ Id(a) = Id(b)
    BY <1>7, <1>10, <2>1, <2>2
  <2>5. f.e1 = a /\ ~NoTwin(a, T)
    BY <1>10, <2>3, <2>4 DEF NoTwin
  <2>6. PICK c \in T : f = Both(a, c)
    BY <1>6, <1>7, <2>1, <2>2, <2>3, <2>5
  <2> QED
    BY <1>1, <2>4, <2>6 DEF Contributed
<1> QED
  BY <1>1, <1>2, <1>3, <1>8, <1>9, <1>10 DEF Contributed

\* Equal indexes are the same entry, whichever database they are from.
LEMMA SameEntries ==
  ASSUME SoundDb(db1), SoundDb(db2), IndexesAgree,
         NEW a \in db1.items \cup db2.items, NEW b \in db1.items \cup db2.items, a.key[2] = b.key[2]
  PROVE  XVal(a) = XVal(b)
PROOF
  BY DEF SoundDb, IndexesAgree

LEMMA DoneIsCalled ==
  ASSUME SoundDb(db1), SoundDb(db2), deps \in Seq(Dependencies),
         doing = "done" => AtDone /\ Exact(df, db1.items, db2.items, db1.items, db2.items)
  PROVE  DependentsCalled
PROOF
<1> SUFFICES ASSUME doing = "done" PROVE DependentsCalled
  BY DEF DependentsCalled
<1>1. /\ VecOK(ddvec)
      /\ \A e \in Range(df), d \in DOMAIN deps : Part(e, d) # <<>> => Heard(ddvec, e, d)
      /\ \A j, k \in DOMAIN ddvec : j < k => deps[ddvec[j].dep].row <= deps[ddvec[k].dep].row
  BY DEF AtDone
<1>2. ASSUME NEW e \in Range(df) PROVE Side(e) \in db1.items \cup db2.items
  <2>1. df \in Seq(Differences(db1.items, db2.items))
    BY DEF Exact
  <2>2. e \in Differences(db1.items, db2.items)
    BY <2>1 DEF Range
  <2> QED
    BY <2>2, SideFacts
<1>3. ASSUME NEW e \in Range(df) PROVE ItemOK(Side(e)) /\ DiffKey(e) = Side(e).key
  BY <1>2 DEF SoundDb, DiffKey
<1>4. ASSUME NEW d \in DOMAIN deps PROVE deps[d].pat \in Patterns /\ deps[d].tree \in BOOLEAN
  <2>1. deps[d] \in Dependencies
    OBVIOUS
  <2> QED
    BY <2>1 DEF Dependencies
<1>5. \A c \in Range(ddvec) : c.ent \in Range(df) /\ MatchKey(DiffKey(c.ent), deps[c.dep].pat) # <<>>
  BY <1>1 DEF VecOK, CallOK, Part
<1>6. ASSUME NEW e \in Range(df), NEW d \in DOMAIN deps, Part(e, d) # <<>>, deps[d].tree => IndexesAgree
      PROVE  \E c \in Range(ddvec) : Tells(c, e, d)
  <2>1. PICK c \in Range(ddvec) : c.dep = d /\ (c.ent = e \/ (deps[d].tree /\ c.mkey = Part(e, d)))
    BY <1>1, <1>6 DEF Heard
  <2>2. CASE c.ent = e
    BY <2>1, <2>2 DEF Tells
  <2>3. CASE deps[d].tree /\ c.mkey = Part(e, d)
    <3>1. c.ent \in Range(df) /\ Part(c.ent, d) # <<>> /\ c = Callback(d, c.ent)
      BY <1>1, <2>1 DEF VecOK, CallOK
    <3>2. c.mkey = Part(c.ent, d)
      <4>1. deps[d].tree = TRUE
        BY <2>3, <1>4
      <4>2. Callback(d, c.ent).mkey = Part(c.ent, d)
        BY <4>1, CallbackFacts
      <4> QED
        BY <4>2, <3>1
    <3>3. Part(c.ent, d)[2] = Side(c.ent).key[2]
      BY <3>1, <1>3, <1>4, MatchKeyFacts DEF Part
    <3>4. Part(e, d)[2] = Side(e).key[2]
      BY <1>6, <1>3, <1>4, MatchKeyFacts DEF Part
    <3>5. Side(c.ent).key[2] = Side(e).key[2]
      BY <3>2, <3>3, <3>4, <2>3
    <3>6. XVal(Side(c.ent)) = XVal(Side(e))
      BY <3>1, <3>5, <1>2, <1>6, <2>3, SameEntries
    <3> QED
      BY <2>1, <2>3, <3>5, <3>6, <1>3 DEF Tells
  <2> QED
    BY <2>1, <2>2, <2>3
<1>7. ASSUME NEW j \in DOMAIN ddvec, NEW k \in DOMAIN ddvec, j < k, ddvec[j].dep = ddvec[k].dep
      PROVE  ddvec[j].ent # ddvec[k].ent /\ (deps[ddvec[j].dep].tree => ddvec[j].mkey # ddvec[k].mkey)
  <2> DEFINE c == ddvec[j]
             o == ddvec[k]
  <2>1. DOMAIN ddvec = 1..Len(ddvec) /\ IsInjective(ddvec)
    BY <1>1 DEF VecOK
  <2>2. c \in Range(ddvec) /\ o \in Range(ddvec) /\ c # o
    BY <2>1, <1>7 DEF IsInjective, Range
  <2>3. c.dep = o.dep
    BY <1>7
  <2> HIDE DEF c, o
  <2>4. c = Callback(c.dep, c.ent) /\ o = Callback(o.dep, o.ent)
    BY <1>1, <2>2 DEF VecOK, CallOK
  <2>5. c.ent # o.ent
    BY <2>2, <2>3, <2>4
  <2>6. deps[c.dep].tree => c.mkey # o.mkey
    BY <1>1, <2>2, <2>3 DEF VecOK
  <2> QED
    BY <2>5, <2>6 DEF c, o
<1> QED
  BY <1>1, <1>5, <1>6, <1>7 DEF DependentsCalled, Part

------------------------------------------------------------------------------
(***************************************************************************)
(* Edits keep a database sound: an index names one entry of the outer list *)
(* and what is inside it.                                                  *)
(***************************************************************************)
LEMMA AddItem ==
  ASSUME NEW db, SoundDb(db), NEW it, ItemOK(it), NEW next \in Seq(Nat),
         Len(next) >= Len(db.next), it.key[2] < Len(next),
         \A o \in db.items : it.key[2] = o.key[2] => XVal(it) = XVal(o),
         ~IsInner(it) => \A o \in Outer(db) : XVal(o) # XVal(it)
  PROVE  SoundDb([items |-> db.items \cup {it}, next |-> next])
PROOF
<1> DEFINE S == db.items \cup {it}
           new == [items |-> S, next |-> next]
<1>1. new.items = S /\ new.next = next
  OBVIOUS
<1>2. IsFiniteSet(S)
  BY FS_AddElement DEF SoundDb
<1>3. \A o \in S : ItemOK(o) /\ o.key[2] < Len(next)
  <2>1. \A o \in db.items : o.key[2] \in Nat /\ o.key[2] < Len(db.next) /\ ItemOK(o)
    BY DEF SoundDb, ItemOK
  <2>2. Len(db.next) \in Nat /\ Len(next) \in Nat
    BY DEF SoundDb
  <2> QED
    BY <2>1, <2>2
<1>4. \A a, b \in S : a.key[2] = b.key[2] => XVal(a) = XVal(b)
  BY DEF SoundDb
<1>5. Outer(new) \subseteq Outer(db) \cup {it} /\ (IsInner(it) => it \notin Outer(new))
  BY <1>1 DEF Outer
<1>6. \A a, b \in Outer(new) : XVal(a) = XVal(b) => a = b
  BY <1>5 DEF SoundDb
<1> QED
  BY <1>1, <1>2, <1>3, <1>4, <1>6 DEF SoundDb

LEMMA RemoveItem ==
  ASSUME NEW db, SoundDb(db), NEW old
  PROVE  SoundDb([items |-> db.items \ {old}, next |-> db.next])
PROOF
<1> DEFINE S == db.items \ {old}
           new == [items |-> S, next |-> db.next]
<1>1. new.items = S /\ new.next = db.next /\ S \subseteq db.items
  OBVIOUS
<1>2. IsFiniteSet(S)
  BY <1>1, FS_Subset DEF SoundDb
<1>3. Outer(new) \subseteq Outer(db)
  BY <1>1 DEF Outer
<1> QED
  BY <1>1, <1>2, <1>3 DEF SoundDb

LEMMA ReplaceItem ==
  ASSUME NEW db, SoundDb(db), NEW old \in db.items, NEW it, ItemOK(it),
         it.key[2] = old.key[2], XVal(it) = XVal(old), IsInner(it) <=> IsInner(old)
  PROVE  SoundDb([items |-> (db.items \ {old}) \cup {it}, next |-> db.next])
PROOF
<1> DEFINE less == [items |-> db.items \ {old}, next |-> db.next]
<1>1. SoundDb(less)
  BY RemoveItem
<1>2. less.items = db.items \ {old} /\ less.next = db.next
  OBVIOUS
<1> HIDE DEF less
<1>3. db.next \in Seq(Nat) /\ Len(db.next) \in Nat /\ it.key[2] < Len(db.next)
  BY DEF SoundDb
<1>4. \A o \in less.items : it.key[2] = o.key[2] => XVal(it) = XVal(o)
  BY <1>2 DEF SoundDb
<1>5. ~IsInner(it) => \A o \in Outer(less) : XVal(o) # XVal(it)
  <2>1. Outer(less) \subseteq Outer(db) \ {old} /\ (~IsInner(it) => old \in Outer(db))
    BY <1>2 DEF Outer
  <2> QED
    BY <2>1 DEF SoundDb
<1>6. SoundDb([items |-> less.items \cup {it}, next |-> db.next])
  <2>1. Len(db.next) >= Len(less.next)
    BY <1>2, <1>3
  <2> QED
    BY <1>1, <1>3, <1>4, <1>5, <2>1, AddItem
<1> QED
  BY <1>2, <1>6

\* The variables of an item.
LEMMA VarFacts ==
  /\ \A x : \A vars \in XVars(x) : vars["x"] = x /\ "x" \in DOMAIN vars /\ DOMAIN vars \subseteq AllNames
  /\ \A x, y : \A vars \in XYVars(x, y) : /\ vars["x"] = x /\ vars["y"] = y
                                          /\ {"x", "y"} \subseteq DOMAIN vars /\ DOMAIN vars \subseteq AllNames
PROOF
<1>1. ASSUME NEW x, NEW vars \in XVars(x)
      PROVE  vars["x"] = x /\ "x" \in DOMAIN vars /\ DOMAIN vars \subseteq AllNames
  <2> DEFINE base == [n \in {"x"} |-> x]
  <2>1. base["x"] = x /\ DOMAIN base = {"x"}
    OBVIOUS
  <2>2. vars = base \/ \E v \in VVals : vars = [n \in DOMAIN base \cup {"v"} |-> IF n = "v" THEN v ELSE base[n]]
    BY DEF XVars, VarSets
  <2> HIDE DEF base
  <2> QED
    BY <2>1, <2>2 DEF AllNames
<1>2. ASSUME NEW x, NEW y, NEW vars \in XYVars(x, y)
      PROVE  /\ vars["x"] = x /\ vars["y"] = y
             /\ {"x", "y"} \subseteq DOMAIN vars /\ DOMAIN vars \subseteq AllNames
  <2> DEFINE base == [n \in {"x", "y"} |-> IF n = "x" THEN x ELSE y]
  <2>1. base["x"] = x /\ base["y"] = y /\ DOMAIN base = {"x", "y"}
    OBVIOUS
  <2>2. vars = base \/ \E v \in VVals : vars = [n \in DOMAIN base \cup {"v"} |-> IF n = "v" THEN v ELSE base[n]]
    BY DEF XYVars, VarSets
  <2> HIDE DEF base
  <2> QED
    BY <2>1, <2>2 DEF AllNames
<1> QED
  BY <1>1, <1>2

LEMMA NewItems ==
  /\ \A n, x, vars : n \in Nat /\ x \in Nat /\ vars \in XVars(x) =>
       ItemOK(OuterItem(n, vars)) /\ XVal(OuterItem(n, vars)) = x
  /\ \A n, m, x, y, vars : n \in Nat /\ x \in Nat /\ vars \in XYVars(x, y) =>
       ItemOK(InnerItem(n, m, vars)) /\ XVal(InnerItem(n, m, vars)) = x /\ InnerItem(n, m, vars).vars["y"] = y
PROOF
  BY ItemFacts, VarFacts DEF ItemOK, XVal

LEMMA EditSetStep ==
  ASSUME SoundDb(db2), NEW x \in Nat, EditSet(x)
  PROVE  SoundDb(db2')
PROOF
<1> DEFINE n == Len(db2.next)
           next == Append(db2.next, 0)
<1>1. PICK vars \in XVars(x) :
        \/ Entry(db2, x) = {} /\ Edited(db2.items \cup {OuterItem(n, vars)}, next)
        \/ \E it \in Entry(db2, x) : Edited((db2.items \ {it}) \cup {OuterItem(it.key[2], vars)}, db2.next)
  BY DEF EditSet
<1>2. n \in Nat /\ next \in Seq(Nat) /\ Len(next) = n + 1
  BY DEF SoundDb
<1> HIDE DEF n, next
<1>3. CASE Entry(db2, x) = {} /\ Edited(db2.items \cup {OuterItem(n, vars)}, next)
  <2> DEFINE it == OuterItem(n, vars)
  <2>1. \A o \in db2.items : o.key[2] \in Nat /\ o.key[2] < n
    BY DEF SoundDb, ItemOK, n
  <2>2. ItemOK(it) /\ XVal(it) = x /\ it.key[2] = n /\ ~IsInner(it)
    BY <1>1, <1>2, NewItems, ItemFacts
  <2>3. \A o \in Outer(db2) : XVal(o) # x
    BY <1>3 DEF Entry
  <2> HIDE DEF it
  <2>4. \A o \in db2.items : it.key[2] # o.key[2]
    BY <2>1, <2>2, <1>2
  <2>5. Len(next) >= Len(db2.next) /\ it.key[2] < Len(next)
    BY <1>2, <2>2 DEF n
  <2>6. SoundDb([items |-> db2.items \cup {it}, next |-> next])
    BY <1>2, <2>2, <2>3, <2>4, <2>5, AddItem
  <2> QED
    BY <2>6, <1>3 DEF Edited, it
<1>4. ASSUME NEW old \in Entry(db2, x), Edited((db2.items \ {old}) \cup {OuterItem(old.key[2], vars)}, db2.next)
      PROVE  SoundDb(db2')
  <2> DEFINE it == OuterItem(old.key[2], vars)
  <2>1. old \in db2.items /\ ~IsInner(old) /\ XVal(old) = x /\ old.key[2] \in Nat
    BY DEF Entry, Outer, SoundDb, ItemOK
  <2>2. ItemOK(it) /\ XVal(it) = x /\ it.key[2] = old.key[2] /\ ~IsInner(it)
    BY <2>1, <1>1, NewItems, ItemFacts
  <2> HIDE DEF it
  <2>3. SoundDb([items |-> (db2.items \ {old}) \cup {it}, next |-> db2.next])
    BY <2>1, <2>2, ReplaceItem
  <2> QED
    BY <2>3, <1>4 DEF Edited, it
<1> QED
  BY <1>1, <1>3, <1>4

LEMMA EditSetInnerStep ==
  ASSUME SoundDb(db2), NEW x \in Nat, NEW y, EditSetInner(x, y)
  PROVE  SoundDb(db2')
PROOF
<1>1. PICK vars \in XYVars(x, y), e \in Entry(db2, x) :
        \/ Edited(db2.items \cup {InnerItem(e.key[2], db2.next[e.key[2] + 1], vars)},
                  [db2.next EXCEPT ![e.key[2] + 1] = db2.next[e.key[2] + 1] + 1])
        \/ \E o \in Within(db2, e, y) :
             Edited((db2.items \ {o}) \cup {InnerItem(e.key[2], o.key[4], vars)}, db2.next)
  BY DEF EditSetInner
<1> DEFINE n == e.key[2]
           m == db2.next[n + 1]
           next == [db2.next EXCEPT ![n + 1] = m + 1]
<1>2. /\ e \in db2.items /\ XVal(e) = x /\ n \in Nat /\ n < Len(db2.next)
      /\ db2.next \in Seq(Nat) /\ Len(db2.next) \in Nat
  BY DEF Entry, Outer, SoundDb, ItemOK
<1>3. m \in Nat /\ next \in Seq(Nat) /\ Len(next) = Len(db2.next)
  <2>1. n + 1 \in 1..Len(db2.next)
    BY <1>2
  <2>2. m \in Nat
    BY <1>2, <2>1
  <2> HIDE DEF m, n
  <2> QED
    BY <1>2, <2>1, <2>2
<1>4. CASE Edited(db2.items \cup {InnerItem(n, m, vars)}, next)
  <2> DEFINE it == InnerItem(n, m, vars)
  <2>1. ItemOK(it) /\ XVal(it) = x /\ it.key[2] = n /\ IsInner(it)
    BY <1>2, NewItems, ItemFacts
  <2> HIDE DEF it
  <2>2. \A o \in db2.items : it.key[2] = o.key[2] => XVal(it) = XVal(o)
    BY <2>1, <1>2 DEF SoundDb
  <2>3. Len(next) >= Len(db2.next) /\ it.key[2] < Len(next)
    BY <1>2, <1>3, <2>1
  <2> HIDE DEF next, m, n
  <2>4. SoundDb([items |-> db2.items \cup {it}, next |-> next])
    BY <1>3, <2>1, <2>2, <2>3, AddItem
  <2> QED
    BY <2>4, <1>4 DEF Edited, it
<1>5. ASSUME NEW old \in Within(db2, e, y), Edited((db2.items \ {old}) \cup {InnerItem(n, old.key[4], vars)}, db2.next)
      PROVE  SoundDb(db2')
  <2> DEFINE it == InnerItem(n, old.key[4], vars)
  <2>1. old \in db2.items /\ IsInner(old) /\ old.key[2] = n
    BY DEF Within, Inner
  <2>2. XVal(old) = x
    BY <2>1, <1>2 DEF SoundDb
  <2>3. ItemOK(it) /\ XVal(it) = x /\ it.key[2] = n /\ IsInner(it)
    BY <1>2, NewItems, ItemFacts
  <2> HIDE DEF it, n
  <2>4. SoundDb([items |-> (db2.items \ {old}) \cup {it}, next |-> db2.next])
    BY <2>1, <2>2, <2>3, ReplaceItem
  <2> QED
    BY <2>4, <1>5 DEF Edited, it
<1> QED
  BY <1>1, <1>4, <1>5

LEMMA EditDelStep ==
  ASSUME SoundDb(db2), NEW x, EditDel(x) \/ \E y \in YKeys : EditDelInner(x, y)
  PROVE  SoundDb(db2')
PROOF
<1>1. PICK old : db2' = [items |-> db2.items \ {old}, next |-> db2.next]
  BY DEF EditDel, EditDelInner, Edited
<1> QED
  BY <1>1, RemoveItem

LEMMA EmptySound == SoundDb(NoItems)
PROOF
<1>1. NoItems.items = {} /\ NoItems.next = <<>> /\ Outer(NoItems) = {}
  BY DEF NoItems, Outer
<1> QED
  BY <1>1, FS_EmptySet DEF SoundDb

LEMMA EditInitStep ==
  ASSUME SoundDb(db1), EditInit \/ EditCopy
  PROVE  SoundDb(db2')
PROOF
<1>1. CASE EditInit
  <2>1. db2' = NoItems
    BY <1>1 DEF EditInit, Edited, NoItems
  <2> QED
    BY <2>1, EmptySound
<1>2. CASE EditCopy
  <2> DEFINE new == [items |-> db1.items, next |-> db1.next]
  <2>1. db2' = new
    BY <1>2 DEF EditCopy, Edited
  <2>2. new.items = db1.items /\ new.next = db1.next /\ Outer(new) = Outer(db1)
    BY DEF Outer
  <2> HIDE DEF new
  <2> QED
    BY <2>1, <2>2 DEF SoundDb
<1> QED
  BY <1>1, <1>2

------------------------------------------------------------------------------
DiffInv ==
  /\ SoundDb(db1) /\ SoundDb(db2) /\ deps \in Seq(Dependencies)
  /\ doing \in {"idle", "merge", "compare", "match", "done"}
  /\ doing = "idle" => df = <<>> /\ i1 = 1 /\ i2 = 1
  /\ doing \in {"idle", "merge", "compare"} => ddvec = <<>>
  /\ doing = "merge" => Merging
  /\ doing = "compare" => Comparing
  /\ doing \in {"match", "done"} => Exact(df, db1.items, db2.items, db1.items, db2.items)
  /\ doing = "match" => AtMatch
  /\ doing = "done" => AtDone

LEMMA DiffInvInit == DiffInit => DiffInv
PROOF
<1> SUFFICES ASSUME DiffInit PROVE DiffInv
  OBVIOUS
<1>1. db1 = NoItems /\ db2 = NoItems
  BY DEF DiffInit
<1>2. SoundDb(NoItems)
  BY EmptySound
<1> QED
  BY <1>1, <1>2 DEF DiffInit, DiffInv

\* An edit or a registration, while nothing is compared.
LEMMA EditedKeeps ==
  ASSUME DiffInv, doing = "idle", UNCHANGED <<db1, doing, compared>>, SoundDb(db2'), deps' \in Seq(Dependencies)
  PROVE  DiffInv'
PROOF
  BY DEF DiffInv, compared

\* A round of a loop.
LEMMA LoopKeeps ==
  ASSUME DiffInv,
         DiffVector1 \/ MergeFirst \/ MergeSecond \/ MergeBoth \/ DiffVector \/ CompareFirst \/ CompareSecond
  PROVE  DiffInv'
PROOF
<1>1. SoundDb(db1) /\ SoundDb(db2) /\ deps \in Seq(Dependencies)
  BY DEF DiffInv
<1>2. db1' = db1 /\ db2' = db2 /\ deps' = deps /\ ddvec' = ddvec
  BY DEF DiffVector1, MergeFirst, MergeSecond, MergeBoth, DiffVector, CompareFirst, CompareSecond
<1>3. CASE DiffVector1
  <2>1. doing = "idle" /\ doing' = "merge"
    BY <1>3 DEF DiffVector1
  <2>2. Merging'
    BY <1>1, <1>3, <2>1, DiffVector1Step DEF DiffInv
  <2> QED
    BY <1>1, <1>2, <2>1, <2>2 DEF DiffInv
<1>4. CASE MergeFirst \/ MergeSecond \/ MergeBoth
  <2>1. doing = "merge" /\ doing' = "merge"
    BY <1>4 DEF MergeFirst, MergeSecond, MergeBoth
  <2>2. Merging
    BY <2>1 DEF DiffInv
  <2>3. Merging'
    BY <1>1, <1>4, <2>2, MergeFirstStep, MergeSecondStep, MergeBothStep
  <2> QED
    BY <1>1, <1>2, <2>1, <2>3 DEF DiffInv
<1>5. CASE DiffVector
  <2>1. doing = "merge" /\ doing' = "compare"
    BY <1>5 DEF DiffVector
  <2>2. Comparing'
    BY <1>1, <1>5, <2>1, DiffVectorStep DEF DiffInv
  <2> QED
    BY <1>1, <1>2, <2>1, <2>2 DEF DiffInv
<1>6. CASE CompareFirst \/ CompareSecond
  <2>1. doing = "compare" /\ doing' = "compare"
    BY <1>6 DEF CompareFirst, CompareSecond
  <2>2. Comparing
    BY <2>1 DEF DiffInv
  <2>3. Comparing'
    BY <1>1, <1>6, <2>2, CompareFirstStep, CompareSecondStep
  <2> QED
    BY <1>1, <1>2, <2>1, <2>3 DEF DiffInv
<1> QED
  BY <1>3, <1>4, <1>5, <1>6

LEMMA VectorKeeps ==
  ASSUME DiffInv, CommitVec \/ MatchDep \/ SortVec
  PROVE  DiffInv'
PROOF
<1>1. SoundDb(db1) /\ SoundDb(db2) /\ deps \in Seq(Dependencies)
  BY DEF DiffInv
<1>2. db1' = db1 /\ db2' = db2 /\ deps' = deps /\ df' = df
  BY DEF CommitVec, MatchDep, SortVec
<1>3. Exact(df, db1.items, db2.items, db1.items, db2.items)
  BY <1>1, CommitVecExact DEF DiffInv, CommitVec, MatchDep, SortVec
<1>4. df \in Seq(Range(df)) /\ IsInjective(df)
  BY <1>3, SeqRange DEF Exact
<1>5. Exact(df, db1.items, db2.items, db1.items, db2.items)'
  BY <1>2, <1>3
<1>6. CASE CommitVec
  <2>1. doing' = "match" /\ i1' = 1 /\ i2' = 1 /\ ddvec' = <<>>
    BY <1>6 DEF CommitVec, DiffInv
  <2>2. AtMatch'
    <3>1. Len(df) \in Nat /\ (deps # <<>> => 1 \in DOMAIN deps)
      BY <1>1, <1>4
    <3>2. Range(ddvec') = {} /\ ddvec' \in Seq(Range(ddvec')) /\ IsInjective(ddvec')
      BY <2>1 DEF Range, IsInjective
    <3>3. VecOK(ddvec)'
      BY <3>2 DEF VecOK
    <3>4. \A d \in DOMAIN deps : d \in Nat \ {0}
      BY <1>1
    <3>5. \A p \in DOMAIN df : p \in Nat \ {0}
      BY <1>4
    <3>6. \A p \in DOMAIN df, d \in DOMAIN deps : ~Passed(p, d)'
      BY <2>1, <3>4, <3>5 DEF Passed
    <3> QED
      BY <1>2, <2>1, <3>1, <3>2, <3>3, <3>6 DEF AtMatch
  <2> QED
    BY <1>1, <1>2, <1>5, <2>1, <2>2 DEF DiffInv
<1>7. CASE MatchDep
  <2>1. doing = "match" /\ doing' = "match"
    BY <1>7 DEF MatchDep
  <2>2. AtMatch'
    BY <1>1, <1>4, <1>7, <2>1, MatchDepStep DEF DiffInv
  <2> QED
    BY <1>1, <1>2, <1>5, <2>1, <2>2 DEF DiffInv
<1>8. CASE SortVec
  <2>1. doing = "match" /\ doing' = "done"
    BY <1>8 DEF SortVec
  <2>2. AtDone'
    BY <1>1, <1>4, <1>8, <2>1, SortVecStep DEF DiffInv
  <2> QED
    BY <1>1, <1>2, <1>5, <2>1, <2>2 DEF DiffInv
<1> QED
  BY <1>6, <1>7, <1>8

LEMMA DiffInvStep == DiffInv /\ [DiffNext]_diffVars => DiffInv'
PROOF
<1> SUFFICES ASSUME DiffInv, [DiffNext]_diffVars PROVE DiffInv'
  OBVIOUS
<1>1. ASSUME NEW tree \in BOOLEAN, NEW row \in Rows, NEW pat \in Patterns, DbDepAdd(tree, row, pat)
      PROVE  DiffInv'
  <2>1. doing = "idle" /\ UNCHANGED <<db1, db2, doing, compared>>
    BY <1>1 DEF DbDepAdd
  <2>2. [tree |-> tree, row |-> row, pat |-> pat] \in Dependencies
    BY DiffAssumption DEF Dependencies
  <2>3. deps' \in Seq(Dependencies)
    BY <2>2, <1>1 DEF DbDepAdd, DiffInv
  <2>4. SoundDb(db2')
    BY <2>1 DEF DiffInv
  <2> QED
    BY <2>1, <2>3, <2>4, EditedKeeps
<1>2. ASSUME NEW x \in XKeys,
             EditSet(x) \/ EditDel(x) \/ \E y \in YKeys : EditSetInner(x, y) \/ EditDelInner(x, y)
      PROVE  DiffInv'
  <2>1. doing = "idle" /\ UNCHANGED <<db1, deps, doing, compared>>
    BY <1>2 DEF EditSet, EditDel, EditSetInner, EditDelInner, Edited
  <2>2. SoundDb(db2')
    <3>1. SoundDb(db2) /\ x \in Nat
      BY DiffAssumption DEF DiffInv
    <3> QED
      BY <3>1, <1>2, EditSetStep, EditDelStep, EditSetInnerStep
  <2>3. deps' \in Seq(Dependencies)
    BY <2>1 DEF DiffInv
  <2> QED
    BY <2>1, <2>2, <2>3, EditedKeeps
<1>3. CASE EditInit \/ EditCopy
  <2>1. doing = "idle" /\ UNCHANGED <<db1, deps, doing, compared>>
    BY <1>3 DEF EditInit, EditCopy, Edited
  <2>2. SoundDb(db2')
    BY <1>3, EditInitStep DEF DiffInv
  <2>3. deps' \in Seq(Dependencies)
    BY <2>1 DEF DiffInv
  <2> QED
    BY <2>1, <2>2, <2>3, EditedKeeps
<1>4. CASE DiffVector1 \/ MergeFirst \/ MergeSecond \/ MergeBoth \/ DiffVector \/ CompareFirst \/ CompareSecond
  BY <1>4, LoopKeeps
<1>5. CASE CommitVec \/ MatchDep \/ SortVec
  BY <1>5, VectorKeeps
<1>6. CASE DiffFree
  <2>1. /\ doing' = "idle" /\ df' = <<>> /\ ddvec' = <<>> /\ i1' = 1 /\ i2' = 1
        /\ db1' \in {db1, db2} /\ db2' = db2 /\ deps' = deps
    BY <1>6 DEF DiffFree, NoDiff
  <2> QED
    BY <2>1 DEF DiffInv
<1>7. CASE UNCHANGED diffVars
  <2>1. UNCHANGED <<db1, db2, deps, doing, v1, v2, i1, i2, df, ddvec>>
    BY <1>7 DEF diffVars, compared
  <2>2. Merging => Merging'
    BY <2>1 DEF Merging, Places, Frontier
  <2>3. Comparing => Comparing'
    BY <2>1 DEF Comparing, Places
  <2>4. AtMatch => AtMatch'
    BY <2>1 DEF AtMatch, VecOK, CallOK, Passed, Heard, Part, Callback
  <2>5. AtDone => AtDone'
    BY <2>1 DEF AtDone, VecOK, CallOK, Heard, Part, Callback
  <2> QED
    BY <2>1, <2>2, <2>3, <2>4, <2>5 DEF DiffInv
<1> QED
  BY <1>1, <1>2, <1>3, <1>4, <1>5, <1>6, <1>7 DEF DiffNext

\* DiffExact holds whatever edits made the databases, leftovers of deleted
\* entries among them: the two algorithms find every difference of the items,
\* once, and nothing else.
THEOREM DifferenceComplete == DiffSpec => []DiffExact
PROOF
<1>1. DiffInv => DiffExact
  BY ExactIsExact DEF DiffInv
<1> QED
  BY <1>1, DiffInvInit, DiffInvStep, PTL DEF DiffSpec

\* DependentsCalled holds for any dependencies: the commit vector has what
\* they ask for, once and in the order of the rows.
THEOREM VectorComplete == DiffSpec => []DependentsCalled
PROOF
<1>1. DiffInv => DependentsCalled
  BY DoneIsCalled DEF DiffInv
<1> QED
  BY <1>1, DiffInvInit, DiffInvStep, PTL DEF DiffSpec
=============================================================================
