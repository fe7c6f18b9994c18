------------------------- MODULE MCCandidateCommit -------------------------
(***************************************************************************)
(* Two keys, one with two commit dependencies; four values: one without    *)
(* its defaults, the same with them, another valid one, so that a change   *)
(* is seen in the system, and one that fails validation.                   *)
(***************************************************************************)
EXTENDS CandidateCommit

CONSTANTS k1, k2, raw, full, alt, bad, d1, d2, d3

MCKeys == {k1, k2}
MCKeyPos == [k \in MCKeys |-> IF k = k1 THEN 1 ELSE 2]
MCValues == {raw, full, alt, bad}
MCFill == [v \in Values |-> IF v = raw THEN full ELSE v]
MCValid == Values \ {bad}
MCDeps == {d1, d2, d3}
\* d1 and d2 commit, d3 validates; d2 runs before d1 and d3.
MCDepKeys == [d \in MCDeps |-> IF d = d1 THEN {k1, k2} ELSE {k1}]
MCDepRow == [d \in MCDeps |-> IF d = d2 THEN 1 ELSE 2]
MCDepType == [d \in MCDeps |-> IF d = d3 THEN {"validate"} ELSE {"commit"}]

(***************************************************************************)
(* Bound: one fault that the code does not repair, followed to the end of  *)
(* its transaction; nothing is promised after it.  Behaviours go on after  *)
(* a failed copy to the candidate or a failed end hook.                    *)
(***************************************************************************)
OneFault == Cardinality(faults) <= 1 /\ (pc = "idle" => ~Unrepaired)
=============================================================================
