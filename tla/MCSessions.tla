----------------------------- MODULE MCSessions -----------------------------
(***************************************************************************)
(* Two views of the sessions in one run.  In the first all processes and   *)
(* connections take part, with the operations that matter to the walk of   *)
(* the event loop.  The second has every operation, with two connections,  *)
(* accepted one after the other, once one of the processes has died (but   *)
(* not all) or while none of them waits.                                   *)
(***************************************************************************)
EXTENDS MCConfigSession

LoopView ==
  /\ locked = None /\ cand = "initial" /\ run = "initial"
  /\ \A c \in Conns : \A m \in Range(conn[c].inq) : m.op \in {"kill", "debug"}

LockView ==
  /\ Cardinality({c \in Conns : conn[c].st # "free"}) <= 2
  /\ Len(backlog) <= 1 /\ Cardinality({p \in Pids : client[p].st = "dead"}) <= 2
  /\ (\E p \in Pids : client[p].st = "dead") \/ \A p \in Pids : client[p].st = "idle"

Views == LoopView \/ LockView
==============================================================================
