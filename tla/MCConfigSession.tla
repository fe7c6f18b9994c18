--------------------------- MODULE MCConfigSession ---------------------------
(***************************************************************************)
(* Processes and connections are interchangeable.  There is one connection *)
(* more than there are processes where the bounds allow it, so that one    *)
(* the backend has not yet seen closed lies beside the next of the client. *)
(***************************************************************************)
EXTENDS ConfigSession, TLC

Symmetry == Permutations(Pids) \cup Permutations(Conns)
==============================================================================
