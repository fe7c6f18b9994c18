------------------------------ MODULE MCBackend ------------------------------
(***************************************************************************)
(* The parts of the backend that the models of the transaction and of the  *)
(* sessions leave out.  They share no variable, so one run checks them     *)
(* side by side: the initial state chooses the part that moves.            *)
(***************************************************************************)
EXTENDS Lifecycle, Notify, EventTimers, DbDiff, Chunk

VARIABLE part

lifecycleOnly == <<notifyVars, timerVars, diffVars, chunkVars>>
notifyOnly    == <<lifeVars, timerVars, diffVars, chunkVars>>
timersOnly    == <<lifeVars, notifyVars, diffVars, chunkVars>>
diffOnly      == <<lifeVars, notifyVars, timerVars, chunkVars>>
chunkOnly     == <<lifeVars, notifyVars, timerVars, diffVars>>
backendVars   == <<part, lifeVars, lifecycleOnly>>

BackendInit ==
  /\ part \in {"lifecycle", "notify", "timers", "diff", "chunk"}
  /\ LifeInit /\ NotifyInit /\ TimersInit /\ DiffInit /\ ChunkInit

\* Bounds that the parts share out.  A third start, and starts that overlap,
\* only with few options and without commits.  Of two events, a plugin's
\* subscription and an empty filter any two.  Of three edits and two
\* dependencies any four, and five edits of one entry and one inside it.
LifeBound ==
  overlapped' \/ starts' > 2 =>
    committed' = <<>> /\ \A d \in Daemons : proc'[d].flags \in {{}, {"z"}}
EmptyFilter == \E i \in DOMAIN ceSubs' : \E su \in ToSet(ceSubs'[i].subs) : su.filter = ""
NotifyBound == events' + Len(hsSubs') + (IF EmptyFilter THEN 1 ELSE 0) <= 2
OneEntry == \A it \in db2'.items : XVal(it) = 1 /\ (IsInner(it) => it.vars["y"] = 1)
DiffBound == IF edits' <= 3 THEN edits' + Len(deps') <= 4 ELSE deps' = <<>> /\ OneEntry

BackendNext ==
  /\ UNCHANGED part
  /\ \/ part = "lifecycle" /\ LifeNext /\ LifeBound /\ UNCHANGED lifecycleOnly
     \/ part = "notify" /\ NotifyNext /\ NotifyBound /\ UNCHANGED notifyOnly
     \/ part = "timers" /\ TimersNext /\ UNCHANGED timersOnly
     \/ part = "diff" /\ DiffNext /\ DiffBound /\ UNCHANGED diffOnly
     \/ part = "chunk" /\ ChunkNext /\ UNCHANGED chunkOnly

\* The daemon goes round its event loop, and a client at its prompt reads.
BackendSpec == BackendInit /\ [][BackendNext]_backendVars /\ TimersFairness /\ NotifyFairness

MCOptionSets == {{}, {"z"}, {"I", "r"}, {"r", "C"}, {"I", "R"}, {"c"}, {"1", "c", "I", "r", "C"}}
MCEdits == {{"app"}, {"app", "master"}}
MCClassOf == [b \in Blocks |-> IF b <= 2 THEN "s" ELSE IF b <= 4 THEN "m" ELSE "l"]
MCPerBlock == [k \in {"s", "m", "l"} |-> IF k = "s" THEN 2 ELSE IF k = "m" THEN 3 ELSE 1]
MCNameClass == [l \in Labels |-> IF l = "f" THEN "s" ELSE "m"]
MCPluginOrder == <<"master", "app">>
==============================================================================
