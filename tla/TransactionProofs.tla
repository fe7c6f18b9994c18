-------------------------- MODULE TransactionProofs --------------------------
(***************************************************************************)
(* Proofs about the commit transaction, for any number of keys, values,    *)
(* dependencies and plugins, every commit order and every set of copy      *)
(* faults: first what holds of running and the candidate, then what the    *)
(* loops do to the system, then that the transaction is atomic.            *)
(***************************************************************************)
EXTENDS CandidateCommit, FiniteSetTheorems, TLAPS

------------------------------------------------------------------------------
(* The operators the transaction is built from. *)

\* db_diff returns a sequence of keys, and every key that differs is in it.
LEMMA DbDiffProperties ==
  ASSUME NEW db1 \in Database, NEW db2 \in Database, NEW s \in DbDiff(db1, db2)
  PROVE  /\ s \in Seq(Keys)
         /\ \A k \in Keys : db1[k] # db2[k] => \E n \in 1..Len(s) : s[n] = k
PROOF
<1> DEFINE D == {k \in Keys : db1[k] # db2[k]}
<1>1. IsFiniteSet(D)
  BY FS_Subset, ConstantsOK
<1>2. Cardinality(D) \in Nat
  BY <1>1, FS_CardinalityType
<1>3. s \in [1..Cardinality(D) -> D]
  BY DEF DbDiff
<1>4. \A k \in D : \E n \in DOMAIN s : s[n] = k
  BY DEF DbDiff
<1> HIDE DEF D
<1>5. s \in Seq(D) /\ Len(s) = Cardinality(D) /\ DOMAIN s = 1..Len(s)
  BY <1>2, <1>3
<1>6. s \in Seq(Keys)
  BY <1>5 DEF D
<1> QED
  BY <1>4, <1>5, <1>6 DEF D

\* dbdep_commitvec returns a sequence of entries.
LEMMA CommitVecsType ==
  ASSUME NEW db1 \in Database, NEW db2 \in Database,
         NEW s \in CommitVecs(Matches(db1, db2))
  PROVE  s \in Seq(Entry)
PROOF
<1> DEFINE S == Matches(db1, db2)
<1>1. S \subseteq Entry
  BY DEF Matches
<1>2. IsFiniteSet(Entry)
  BY FS_Product, ConstantsOK DEF Entry
<1>3. Cardinality(S) \in Nat
  BY <1>1, <1>2, FS_Subset, FS_CardinalityType
<1>4. s \in [1..Cardinality(S) -> S]
  BY DEF CommitVecs
<1> HIDE DEF S
<1> QED
  BY <1>1, <1>3, <1>4

\* file_cp leaves the source or the old contents, or cuts the file short.
LEMMA FileCpType ==
  ASSUME NEW src \in DbFile, NEW dst \in DbFile, NEW r \in FileCp(src, dst)
  PROVE  /\ r.db \in DbFile
         /\ r.db \in {src, dst, Torn}
         /\ r.fault \subseteq {"write", "read"}
PROOF
<1>1. CASE r = [db |-> dst, ok |-> FALSE, fault |-> {}]
  BY <1>1
<1>2. CASE r = [db |-> src, ok |-> TRUE, fault |-> {}]
  BY <1>2
<1>3. ASSUME NEW f \in CopyFaults \ {"open"},
             r = [db |-> Torn, ok |-> f = "read", fault |-> {f}]
      PROVE  /\ r.db \in DbFile
             /\ r.db \in {src, dst, Torn}
             /\ r.fault \subseteq {"write", "read"}
  <2>1. r.db = Torn /\ r.fault = {f}
    BY <1>3, Zenon
  <2>2. f \in {"write", "read"}
    BY ConstantsOK DEF FaultKinds
  <2> QED
    BY <2>1, <2>2 DEF DbFile
<1>4. \/ r = [db |-> dst, ok |-> FALSE, fault |-> {}]
      \/ r = [db |-> src, ok |-> TRUE, fault |-> {}]
      \/ \E f \in CopyFaults \ {"open"} : r = [db |-> Torn, ok |-> f = "read", fault |-> {f}]
  BY Zenon DEF FileCp
<1> QED
  BY <1>1, <1>2, <1>3, <1>4, Zenon

\* A call of a plugin leaves the system well formed.
LEMMA CalledType ==
  ASSUME NEW e \in Entry, NEW o, NEW vec \in Database, sys \in [CommitEntry -> Vals]
  PROVE  Called(e, o, vec) \in [CommitEntry -> Vals]
  BY DEF Called, Database, Vals, Entry

\* A hook call leaves the record of hooks well formed.
LEMMA HookCallsType ==
  ASSUME NEW h \in Hooks, NEW m, hook \in [Plugin -> Hooks]
  PROVE  HookCalls(h, m) \in [Plugin -> Hooks]
  BY DEF HookCalls

------------------------------------------------------------------------------
(* Types and array bounds. *)

\* The phases in which nothing has failed yet and running is not written.
Path == {"begin", "generic", "validate", "complete", "commit", "delete", "set", "copy"}

\* The candidate stays a database, and running is what the diff was made of.
Whole == pc \in Path => candidate \in Database /\ running = vec1

BoundInv == TypeOK /\ InBounds /\ Whole

LEMMA BoundInit == Init => BoundInv
PROOF
<1> SUFFICES ASSUME Init PROVE BoundInv
  OBVIOUS
<1>1. running \in Database /\ candidate = running /\ before = running
  BY DEF Init
<1>2. sys \in [CommitEntry -> Vals]
  BY <1>1 DEF Init, CommitEntry, Entry, Database
<1>3. Empty \in Database
  BY DEF Empty, Database, Vals
<1>4. hook \in [Plugin -> Hooks]
  BY DEF Init, Hooks
<1> QED
  BY <1>1, <1>2, <1>3, <1>4 DEF Init, BoundInv, TypeOK, InBounds, Whole, Path, Phases, DbFile

\* The client's operations.
LEMMA BoundClient == BoundInv /\ Client => BoundInv'
PROOF
<1> SUFFICES ASSUME BoundInv, Client PROVE BoundInv'
  OBVIOUS
<1> USE DEF BoundInv
<1>0. TypeOK /\ InBounds /\ Whole
  OBVIOUS
<1>1. ASSUME NEW k \in Keys, NEW v \in Vals, Change(k, v) PROVE BoundInv'
  BY <1>0, <1>1 DEF Change, TypeOK, InBounds, Whole, Path, transaction, DbFile, Database
<1>2. CASE Discard
  <2>1. PICK r \in FileCp(running, candidate) : candidate' = r.db
    BY <1>2 DEF Discard
  <2>2. candidate' \in DbFile
    BY <1>0, <2>1, FileCpType DEF TypeOK
  <2> QED
    BY <1>0, <1>2, <2>2 DEF Discard, TypeOK, InBounds, Whole, Path, transaction
<1>3. CASE Rm
  BY <1>0, <1>3 DEF Rm, TypeOK, InBounds, Whole, Path, transaction, DbFile
<1>4. CASE InitDb
  <2>1. candidate' \in DbFile
    BY <1>0, <1>4 DEF InitDb, TypeOK, DbFile, Empty, Database, Vals
  <2> QED
    BY <1>0, <1>4, <2>1 DEF InitDb, TypeOK, InBounds, Whole, Path, transaction
<1>5. ASSUME NEW o \in {"commit", "validate"}, Start(o) PROVE BoundInv'
  <2>1. CASE /\ running \in Database /\ candidate \in Database
             /\ df' \in DbDiff(running, candidate)
             /\ vec1' = running /\ vec2' = candidate
             /\ ddvec' \in CommitVecs(Matches(running, candidate))
             /\ pc' = "begin"
    <3>1. df' \in Seq(Keys) /\ ddvec' \in Seq(Entry)
      BY <2>1, DbDiffProperties, CommitVecsType
    <3> QED
      BY <1>0, <1>5, <2>1, <3>1 DEF Start, TypeOK, InBounds, Whole, Path, dbs, Phases
  <2>2. CASE df' = <<>> /\ ddvec' = <<>> /\ pc' = "abort" /\ UNCHANGED <<vec1, vec2>>
    BY <1>0, <1>5, <2>2 DEF Start, TypeOK, InBounds, Whole, Path, dbs, Phases
  <2> QED
    BY <1>5, <2>1, <2>2 DEF Start
<1> QED
  BY <1>1, <1>2, <1>3, <1>4, <1>5 DEF Client

\* Hooks and validation.
LEMMA BoundValidation == BoundInv /\ Validation => BoundInv'
PROOF
<1> SUFFICES ASSUME BoundInv, Validation PROVE BoundInv'
  OBVIOUS
<1> USE DEF BoundInv
<1>0. TypeOK /\ InBounds /\ Whole
  OBVIOUS
<1>1. CASE BeginHooks
  <2>1. hook' \in [Plugin -> Hooks]
    BY <1>0, <1>1, HookCallsType DEF BeginHooks, TypeOK, Hooks
  <2> QED
    BY <1>0, <1>1, <2>1 DEF BeginHooks, TypeOK, InBounds, Whole, Path, dbs, transaction, Phases
<1>2. CASE GenericValidate
  <2>1. df[i] \in Keys
    BY <1>0, <1>2 DEF GenericValidate, TypeOK, InBounds
  <2>2. candidate' \in Database
    <3>1. NeedsCheck(df[i]) => Fill[vec2[df[i]]] \in Vals
      BY <1>0, <2>1, FillOK DEF NeedsCheck, TypeOK, Database, Vals
    <3>2. candidate \in Database
      BY <1>0, <1>2 DEF GenericValidate, Whole, Path
    <3>3. NeedsCheck(df[i]) => [candidate EXCEPT ![df[i]] = Fill[vec2[df[i]]]] \in Database
      BY <2>1, <3>1, <3>2 DEF Database
    <3> QED
      BY <1>2, <3>2, <3>3 DEF GenericValidate
  <2> QED
    BY <1>0, <1>2, <2>2 DEF GenericValidate, TypeOK, InBounds, Whole, Path, transaction, Phases, DbFile
<1>3. CASE GenericDone
  BY <1>0, <1>3 DEF GenericDone, TypeOK, InBounds, Whole, Path, dbs, transaction, Phases
<1>4. CASE ValidateDb
  BY <1>0, <1>4 DEF ValidateDb, TypeOK, InBounds, Whole, Path, dbs, transaction, Phases
<1>5. CASE ValidateDone
  BY <1>0, <1>5 DEF ValidateDone, TypeOK, InBounds, Whole, Path, dbs, transaction, Phases
<1>6. CASE CompleteHooks
  <2>1. hook' \in [Plugin -> Hooks]
    BY <1>0, <1>6, HookCallsType DEF CompleteHooks, TypeOK, Hooks
  <2>2. Empty \in Database
    BY DEF Empty, Database, Vals
  <2>3. CASE pc' = "abort" /\ UNCHANGED <<df, vec1, vec2, ddvec, i, j, reply>>
    BY <1>0, <1>6, <2>1, <2>3 DEF CompleteHooks, TypeOK, InBounds, Whole, Path, dbs, Phases
  <2>4. CASE pc' = "idle" /\ reply' = "ok" /\ Free
    BY <1>0, <1>6, <2>1, <2>2, <2>4
       DEF CompleteHooks, TypeOK, InBounds, Whole, Path, dbs, Phases, Free
  <2>5. CASE /\ \/ pc' = "commit" /\ i' = 1
                \/ pc' = "delete" /\ i' = DeleteFrom
             /\ UNCHANGED <<df, vec1, vec2, ddvec, j, reply>>
    <3>1. DeleteFrom \in Nat /\ DeleteFrom = Len(ddvec)
      BY <1>0 DEF DeleteFrom, TypeOK
    <3> QED
      BY <1>0, <1>6, <2>1, <2>5, <3>1
         DEF CompleteHooks, TypeOK, InBounds, Whole, Path, dbs, Phases
  <2> QED
    BY <1>6, <2>3, <2>4, <2>5 DEF CompleteHooks
<1> QED
  BY <1>1, <1>2, <1>3, <1>4, <1>5, <1>6 DEF Validation

\* The loops that apply the commit.
LEMMA BoundApply == BoundInv /\ Apply => BoundInv'
PROOF
<1> SUFFICES ASSUME BoundInv, Apply PROVE BoundInv'
  OBVIOUS
<1> USE DEF BoundInv
<1>0. TypeOK /\ InBounds /\ Whole
  OBVIOUS
<1>1. CASE CommitStep
  <2>1. ddvec[i] \in Entry
    BY <1>0, <1>1 DEF CommitStep, TypeOK, InBounds
  <2>2. sys' \in [CommitEntry -> Vals]
    BY <1>0, <1>1, <2>1, CalledType DEF CommitStep, Forward, TypeOK
  <2> QED
    BY <1>0, <1>1, <2>2
       DEF CommitStep, Forward, TypeOK, InBounds, Whole, Path, dbs, transaction, Phases, FaultHistory
<1>2. CASE CommitDone
  BY <1>0, <1>2 DEF CommitDone, TypeOK, InBounds, Whole, Path, dbs, transaction, Phases
<1>3. CASE DeleteStep
  <2>1. ddvec[i] \in Entry
    BY <1>0, <1>3 DEF DeleteStep, TypeOK, InBounds
  <2>2. sys' \in [CommitEntry -> Vals]
    BY <1>0, <1>3, <2>1, CalledType DEF DeleteStep, Forward, TypeOK
  <2> QED
    BY <1>0, <1>3, <2>2
       DEF DeleteStep, Forward, TypeOK, InBounds, Whole, Path, dbs, transaction, Phases, FaultHistory
<1>4. CASE DeleteDone
  BY <1>0, <1>4 DEF DeleteDone, TypeOK, InBounds, Whole, Path, dbs, transaction, Phases
<1>5. CASE SetStep
  <2>1. ddvec[i] \in Entry
    BY <1>0, <1>5 DEF SetStep, TypeOK, InBounds
  <2>2. sys' \in [CommitEntry -> Vals]
    BY <1>0, <1>5, <2>1, CalledType DEF SetStep, Forward, TypeOK
  <2> QED
    BY <1>0, <1>5, <2>2
       DEF SetStep, Forward, TypeOK, InBounds, Whole, Path, dbs, transaction, Phases, FaultHistory
<1>6. CASE SetDone
  BY <1>0, <1>6 DEF SetDone, TypeOK, InBounds, Whole, Path, dbs, transaction, Phases
<1> QED
  BY <1>1, <1>2, <1>3, <1>4, <1>5, <1>6 DEF Apply

\* The loops that undo it.
LEMMA BoundRollback == BoundInv /\ Rollback => BoundInv'
PROOF
<1> SUFFICES ASSUME BoundInv, Rollback PROVE BoundInv'
  OBVIOUS
<1> USE DEF BoundInv
<1>0. TypeOK /\ InBounds /\ Whole
  OBVIOUS
<1>1. CASE RollbackStep
  <2>1. ddvec[j] \in Entry
    BY <1>0, <1>1 DEF RollbackStep, TypeOK, InBounds
  <2>2. sys' \in [CommitEntry -> Vals]
    BY <1>0, <1>1, <2>1, CalledType DEF RollbackStep, Backward, TypeOK
  <2>3. faults' \subseteq FaultHistory /\ j' = j - 1
    BY <1>0, <1>1 DEF RollbackStep, Backward, TypeOK, FaultHistory
  <2> QED
    BY <1>0, <1>1, <2>2, <2>3 DEF RollbackStep, TypeOK, InBounds, Whole, Path, dbs, transaction
<1>2. CASE RollbackDone
  BY <1>0, <1>2 DEF RollbackDone, TypeOK, InBounds, Whole, Path, dbs, transaction, Phases
<1>3. CASE UndeleteStep
  <2>1. ddvec[j] \in Entry
    BY <1>0, <1>3 DEF UndeleteStep, TypeOK, InBounds
  <2>2. sys' \in [CommitEntry -> Vals]
    BY <1>0, <1>3, <2>1, CalledType DEF UndeleteStep, TypeOK
  <2>3. faults' \subseteq FaultHistory /\ j' = j + 1
    BY <1>0, <1>3 DEF UndeleteStep, TypeOK, FaultHistory
  <2> QED
    BY <1>0, <1>3, <2>2, <2>3 DEF UndeleteStep, TypeOK, InBounds, Whole, Path, dbs, transaction
<1>4. CASE UndeleteDone
  BY <1>0, <1>4 DEF UndeleteDone, TypeOK, InBounds, Whole, Path, dbs, transaction, Phases
<1>5. CASE UnsetStep
  <2>1. ddvec[j] \in Entry
    BY <1>0, <1>5 DEF UnsetStep, TypeOK, InBounds
  <2>2. sys' \in [CommitEntry -> Vals]
    BY <1>0, <1>5, <2>1, CalledType DEF UnsetStep, Backward, TypeOK
  <2>3. faults' \subseteq FaultHistory /\ j' = j - 1
    BY <1>0, <1>5 DEF UnsetStep, Backward, TypeOK, FaultHistory
  <2> QED
    BY <1>0, <1>5, <2>2, <2>3 DEF UnsetStep, TypeOK, InBounds, Whole, Path, dbs, transaction
<1>6. CASE UnsetDone
  BY <1>0, <1>6 DEF UnsetDone, TypeOK, InBounds, Whole, Path, dbs, transaction, Phases
<1>7. CASE ReaddStep
  <2>1. ddvec[j] \in Entry
    BY <1>0, <1>7 DEF ReaddStep, TypeOK, InBounds
  <2>2. sys' \in [CommitEntry -> Vals]
    BY <1>0, <1>7, <2>1, CalledType DEF ReaddStep, Backward, TypeOK
  <2>3. faults' \subseteq FaultHistory /\ j' = j + 1
    BY <1>0, <1>7 DEF ReaddStep, Backward, TypeOK, FaultHistory
  <2> QED
    BY <1>0, <1>7, <2>2, <2>3 DEF ReaddStep, TypeOK, InBounds, Whole, Path, dbs, transaction
<1>8. CASE ReaddDone
  BY <1>0, <1>8 DEF ReaddDone, TypeOK, InBounds, Whole, Path, dbs, transaction, Phases
<1> QED
  BY <1>1, <1>2, <1>3, <1>4, <1>5, <1>6, <1>7, <1>8 DEF Rollback

\* The copies and the last hooks.
LEMMA BoundFinish == BoundInv /\ Finish => BoundInv'
PROOF
<1> SUFFICES ASSUME BoundInv, Finish PROVE BoundInv'
  OBVIOUS
<1> USE DEF BoundInv
<1>0. TypeOK /\ InBounds /\ Whole
  OBVIOUS
<1>1. CASE Copy
  <2>1. PICK r \in FileCp(candidate, running) :
          /\ running' = r.db /\ faults' = faults \cup r.fault
          /\ \/ pc' = "copyback" /\ UNCHANGED j
             \/ /\ j' = Len(ddvec)
                /\ pc' = IF CommitOrder = 0 THEN "rollback" ELSE "unset"
    BY <1>1 DEF Copy
  <2>2. running' \in DbFile /\ r.fault \subseteq {"write", "read"}
    BY <1>0, <2>1, FileCpType DEF TypeOK
  <2>3. faults \subseteq FaultHistory /\ j \in Nat /\ Len(ddvec) \in Nat
    BY <1>0 DEF TypeOK
  <2>5. faults' \subseteq FaultHistory
    BY <2>1, <2>2, <2>3 DEF FaultHistory
  <2>6. j' \in Nat /\ pc' \in {"copyback", "rollback", "unset"}
    BY <2>1, <2>3
  <2>4. pc' \in {"rollback", "unset"} => j' = Len(ddvec)
    BY <2>1
  <2> QED
    BY <1>0, <1>1, <2>2, <2>4, <2>5, <2>6
       DEF Copy, TypeOK, InBounds, Whole, Path, transaction, Phases, FaultHistory
<1>2. CASE CopyBack
  <2>1. PICK r \in FileCp(running, candidate) : candidate' = r.db
    BY <1>2 DEF CopyBack
  <2>2. candidate' \in DbFile
    BY <1>0, <2>1, FileCpType DEF TypeOK
  <2>3. \/ pc' = "end" /\ UNCHANGED faults
        \/ pc' = "abort" /\ faults' = faults \cup {"copyback"}
    BY <1>2 DEF CopyBack
  <2> QED
    BY <1>0, <1>2, <2>2, <2>3
       DEF CopyBack, TypeOK, InBounds, Whole, Path, transaction, Phases, FaultHistory
<1>3. Empty \in Database
  BY DEF Empty, Database, Vals
<1>4. CASE EndHooks
  <2>1. hook' \in [Plugin -> Hooks] /\ faults' \subseteq faults \cup {"end"}
    BY <1>0, <1>4, HookCallsType DEF EndHooks, TypeOK, Hooks
  <2> QED
    BY <1>0, <1>3, <1>4, <2>1
       DEF EndHooks, TypeOK, InBounds, Whole, Path, dbs, Free, Phases, FaultHistory
<1>5. CASE AbortHooks
  <2>1. hook' \in [Plugin -> Hooks]
    BY <1>0, <1>5, HookCallsType DEF AbortHooks, TypeOK, Hooks
  <2> QED
    BY <1>0, <1>3, <1>5, <2>1 DEF AbortHooks, TypeOK, InBounds, Whole, Path, dbs, Free, Phases
<1> QED
  BY <1>1, <1>2, <1>4, <1>5 DEF Finish

\* Every step preserves types and bounds.
LEMMA BoundNext == BoundInv /\ [Next]_vars => BoundInv'
PROOF
<1> SUFFICES ASSUME BoundInv, [Next]_vars PROVE BoundInv'
  OBVIOUS
<1>1. CASE UNCHANGED vars
  BY <1>1 DEF vars, BoundInv, TypeOK, InBounds, Whole
<1> QED
  BY <1>1, BoundClient, BoundValidation, BoundApply, BoundRollback, BoundFinish
     DEF Next, Backend

LEMMA BoundAlways == Spec => []BoundInv
  BY BoundInit, BoundNext, PTL DEF Spec

(***************************************************************************)
(* Every reachable state of the transaction is well formed: databases,     *)
(* difference, commit vector and the record of the system keep their       *)
(* types through all loops of candidate_commit.                            *)
(***************************************************************************)
THEOREM TypeCorrect == Spec => []TypeOK
<1>1. BoundInv => TypeOK
  BY DEF BoundInv
<1> QED
  BY <1>1, BoundAlways, PTL

(***************************************************************************)
(* The loops of candidate_commit and validate_db never index outside the   *)
(* commit vector or the difference, for vectors of any length, empty ones  *)
(* included, and every place a callback can fail.                          *)
(***************************************************************************)
THEOREM ArrayBounds == Spec => []InBounds
<1>1. BoundInv => InBounds
  BY DEF BoundInv
<1> QED
  BY <1>1, BoundAlways, PTL

------------------------------------------------------------------------------
(***************************************************************************)
(* Only checked values reach the running database.  The invariant says why *)
(* the copy at the end is safe: every key whose value differs is in df,    *)
(* the loop of generic_validate_yang has been over all of df when the path *)
(* leaves "generic", and the candidate holds the values of the difference, *)
(* with or without their defaults.                                         *)
(***************************************************************************)

DiffCovers == \A k \in Keys : vec1[k] # vec2[k] => \E n \in 1..Len(df) : df[n] = k

CandidateIsVec2 == \A k \in Keys : candidate[k] = vec2[k] \/ candidate[k] = Norm(vec2[k])

\* How far the loop over df has come.
Checked(n) == pc # "begin" /\ (pc = "generic" => n < i)

DiffChecked == \A n \in 1..Len(df) : Checked(n) => InSpec(candidate[df[n]])

PathInv == DiffCovers /\ CandidateIsVec2 /\ DiffChecked

CheckedInv == RunningInSpec /\ (pc \in Path => PathInv)

\* Steps that leave the path and do not write running.
LEMMA CheckedOffPath ==
  ASSUME CheckedInv, UNCHANGED running, pc' \notin Path
  PROVE  CheckedInv'
  BY DEF CheckedInv, RunningInSpec, InSpec

\* Steps after the loop over df that write neither database.
LEMMA CheckedOnPath ==
  ASSUME CheckedInv, UNCHANGED <<running, candidate, df, vec1, vec2>>,
         pc \in Path, pc \notin {"begin", "generic"}
  PROVE  CheckedInv'
  BY DEF CheckedInv, RunningInSpec, InSpec, PathInv, DiffCovers, CandidateIsVec2,
         DiffChecked, Checked, Norm

LEMMA CheckedInit == Init => CheckedInv
  BY DEF Init, CheckedInv, RunningInSpec, InSpec, Path

\* One turn of the loop over df.
LEMMA CheckedGeneric == BoundInv /\ CheckedInv /\ GenericValidate => CheckedInv'
PROOF
<1> SUFFICES ASSUME BoundInv, CheckedInv, GenericValidate PROVE CheckedInv'
  OBVIOUS
<1> DEFINE k == df[i]
<1>1. /\ k \in Keys /\ i \in Nat /\ i >= 1 /\ i <= Len(df) /\ df \in Seq(Keys)
      /\ vec2 \in Database /\ candidate \in Database /\ pc = "generic"
  BY DEF GenericValidate, BoundInv, TypeOK, InBounds, Whole, Path
<1>2. PathInv
  BY <1>1 DEF CheckedInv, Path
<1>3. UNCHANGED <<running, df, vec1, vec2>>
  BY DEF GenericValidate, transaction
<1>4. CASE ~NeedsCheck(k) /\ i' = i + 1 /\ UNCHANGED <<candidate, pc>>
  <2>1. candidate[k] = NoVal
    BY <1>1, <1>2, <1>4 DEF NeedsCheck, PathInv, CandidateIsVec2, Norm
  <2>2. \A n \in 1..Len(df) : n < i + 1 => InSpec(candidate[df[n]])
    BY <1>1, <1>2, <2>1 DEF PathInv, DiffChecked, Checked, InSpec
  <2>3. DiffCovers' /\ CandidateIsVec2'
    BY <1>2, <1>3, <1>4 DEF PathInv, DiffCovers, CandidateIsVec2, Norm
  <2>4. DiffChecked'
    BY <1>1, <1>3, <1>4, <2>2 DEF DiffChecked, Checked, InSpec
  <2> QED
    BY <1>3, <2>3, <2>4 DEF CheckedInv, PathInv, RunningInSpec, InSpec
<1>5. CASE /\ NeedsCheck(k) /\ Fill[vec2[k]] \in Valid
           /\ candidate' = [candidate EXCEPT ![k] = Fill[vec2[k]]]
           /\ i' = i + 1 /\ UNCHANGED pc
  <2>1. vec2[k] \in Values
    BY <1>1, <1>5 DEF NeedsCheck, Database, Vals
  <2>2. InSpec(Fill[vec2[k]])
    BY <1>5, <2>1, FillOK DEF InSpec
  <2>3. candidate'[k] = Fill[vec2[k]] /\ \A l \in Keys : l # k => candidate'[l] = candidate[l]
    BY <1>1, <1>5 DEF Database
  <2>4. \A n \in 1..Len(df) : n < i + 1 => InSpec(candidate'[df[n]])
    <3> SUFFICES ASSUME NEW n \in 1..Len(df), n < i + 1 PROVE InSpec(candidate'[df[n]])
      OBVIOUS
    <3>1. CASE df[n] = k
      BY <2>2, <2>3, <3>1
    <3>2. CASE df[n] # k
      <4>1. n < i /\ df[n] \in Keys
        BY <1>1, <3>2
      <4> QED
        BY <1>1, <1>2, <2>3, <3>2, <4>1 DEF PathInv, DiffChecked, Checked
    <3> QED
      BY <3>1, <3>2
  <2>5. CandidateIsVec2'
    BY <1>1, <1>2, <1>3, <1>5, <2>3 DEF PathInv, CandidateIsVec2, Norm, NeedsCheck
  <2>6. DiffCovers' /\ DiffChecked'
    BY <1>1, <1>2, <1>3, <1>5, <2>4 DEF PathInv, DiffCovers, DiffChecked, Checked, InSpec
  <2> QED
    BY <1>3, <2>5, <2>6 DEF CheckedInv, PathInv, RunningInSpec, InSpec
<1>6. CASE pc' = "abort"
  BY <1>3, <1>6, CheckedOffPath DEF Path
<1> QED
  BY <1>4, <1>5, <1>6 DEF GenericValidate

\* The copy to running: all keys are in spec, the changed and the others.
LEMMA CheckedCopy == BoundInv /\ CheckedInv /\ Copy => CheckedInv'
PROOF
<1> SUFFICES ASSUME BoundInv, CheckedInv, Copy PROVE CheckedInv'
  OBVIOUS
<1>1. /\ running \in DbFile /\ candidate \in Database /\ running = vec1
      /\ vec1 \in Database /\ vec2 \in Database
  BY DEF Copy, BoundInv, TypeOK, Whole, Path
<1>2. PathInv /\ pc = "copy"
  BY DEF Copy, CheckedInv, Path
<1>3. PICK r \in FileCp(candidate, running) : running' = r.db
  BY DEF Copy
<1>4. running' \in {candidate, running, Torn}
  BY <1>1, <1>3, FileCpType DEF DbFile
<1>5. \A k \in Keys : InSpec(candidate[k])
  <2> SUFFICES ASSUME NEW k \in Keys PROVE InSpec(candidate[k])
    OBVIOUS
  <2>1. CASE vec1[k] # vec2[k]
    BY <1>2, <2>1 DEF PathInv, DiffCovers, DiffChecked, Checked
  <2>2. CASE vec1[k] = vec2[k]
    <3>1. InSpec(vec2[k])
      BY <1>1, <2>2 DEF CheckedInv, RunningInSpec
    <3>2. Norm(vec2[k]) = vec2[k]
      BY <3>1 DEF InSpec, Norm
    <3> QED
      BY <1>2, <3>1, <3>2 DEF PathInv, CandidateIsVec2
  <2> QED
    BY <2>1, <2>2
<1>6. RunningInSpec'
  BY <1>4, <1>5, ConstantsOK DEF CheckedInv, RunningInSpec, InSpec
<1>7. pc' \notin Path
  BY DEF Copy, Path
<1> QED
  BY <1>6, <1>7 DEF CheckedInv

LEMMA CheckedNext == BoundInv /\ CheckedInv /\ [Next]_vars => CheckedInv'
PROOF
<1> SUFFICES ASSUME BoundInv, CheckedInv, [Next]_vars PROVE CheckedInv'
  OBVIOUS
<1>1. ASSUME NEW k \in Keys, NEW v \in Vals, Change(k, v) PROVE CheckedInv'
  BY <1>1, CheckedOffPath DEF Change, Path
<1>2. CASE Discard \/ Rm \/ InitDb
  BY <1>2, CheckedOffPath DEF Discard, Rm, InitDb, Path
<1>3. ASSUME NEW o \in {"commit", "validate"}, Start(o) PROVE CheckedInv'
  <2>1. CASE /\ running \in Database /\ candidate \in Database
             /\ df' \in DbDiff(running, candidate)
             /\ vec1' = running /\ vec2' = candidate
             /\ pc' = "begin"
    <3>1. DiffCovers'
      BY <2>1, DbDiffProperties DEF DiffCovers
    <3>2. UNCHANGED <<running, candidate>>
      BY <1>3 DEF Start, dbs
    <3>3. CandidateIsVec2' /\ DiffChecked'
      BY <2>1, <3>2 DEF CandidateIsVec2, DiffChecked, Checked
    <3> QED
      BY <3>1, <3>2, <3>3 DEF CheckedInv, PathInv, RunningInSpec, InSpec
  <2>2. CASE pc' = "abort"
    BY <1>3, <2>2, CheckedOffPath DEF Start, dbs, Path
  <2> QED
    BY <1>3, <2>1, <2>2 DEF Start
<1>4. CASE BeginHooks
  <2>1. CASE pc' = "generic" /\ i' = 1
    BY <1>4, <2>1 DEF BeginHooks, dbs, transaction, CheckedInv, RunningInSpec, InSpec, Path,
          PathInv, DiffCovers, CandidateIsVec2, DiffChecked, Checked, Norm
  <2>2. CASE pc' = "abort"
    BY <1>4, <2>2, CheckedOffPath DEF BeginHooks, dbs, Path
  <2> QED
    BY <1>4, <2>1, <2>2 DEF BeginHooks
<1>5. CASE GenericDone
  <2>1. i \in Nat /\ df \in Seq(Keys) /\ i > Len(df) /\ pc = "generic"
    BY <1>5 DEF GenericDone, BoundInv, TypeOK
  <2>2. \A n \in 1..Len(df) : InSpec(candidate[df[n]])
    BY <2>1 DEF CheckedInv, Path, PathInv, DiffChecked, Checked
  <2> QED
    BY <1>5, <2>1, <2>2 DEF GenericDone, dbs, transaction, CheckedInv, RunningInSpec, InSpec,
          Path, PathInv, DiffCovers, CandidateIsVec2, DiffChecked, Checked, Norm
<1>6. CASE ValidateDb \/ ValidateDone
  BY <1>6, CheckedOnPath DEF ValidateDb, ValidateDone, dbs, transaction, Path
<1>7. CASE CompleteHooks
  <2>1. CASE UNCHANGED <<df, vec1, vec2>>
    BY <1>7, <2>1, CheckedOnPath DEF CompleteHooks, dbs, Path
  <2>2. CASE pc' = "idle"
    BY <1>7, <2>2, CheckedOffPath DEF CompleteHooks, dbs, Path
  <2> QED
    BY <1>7, <2>1, <2>2 DEF CompleteHooks
<1>8. CASE Apply
  BY <1>8, CheckedOnPath
     DEF Apply, CommitStep, CommitDone, DeleteStep, DeleteDone, SetStep, SetDone, dbs,
         transaction, Path
<1>9. CASE Rollback
  BY <1>9, CheckedOffPath
     DEF Rollback, RollbackStep, RollbackDone, UndeleteStep, UndeleteDone, UnsetStep,
         UnsetDone, ReaddStep, ReaddDone, dbs, Path
<1>10. CASE CopyBack \/ EndHooks \/ AbortHooks
  BY <1>10, CheckedOffPath DEF CopyBack, EndHooks, AbortHooks, dbs, Path
<1>11. CASE UNCHANGED vars
  BY <1>11 DEF vars, CheckedInv, RunningInSpec, InSpec, PathInv, DiffCovers,
         CandidateIsVec2, DiffChecked, Checked, Norm
<1> QED
  BY <1>1, <1>2, <1>3, <1>4, <1>5, <1>6, <1>7, <1>8, <1>9, <1>10, <1>11,
     CheckedGeneric, CheckedCopy DEF Next, Client, Backend, Validation, Finish

(***************************************************************************)
(* The running database only ever holds values that passed the mandatory,  *)
(* range and regexp checks and have their defaults, although validation    *)
(* works on the difference as it was before the defaults were added.       *)
(***************************************************************************)
THEOREM OnlyCheckedValues == Spec => []RunningInSpec
<1>1. CheckedInv => RunningInSpec
  BY DEF CheckedInv
<1> QED
  BY <1>1, BoundAlways, CheckedInit, CheckedNext, PTL DEF Spec

------------------------------------------------------------------------------
(***************************************************************************)
(* An error answer means an unchanged running database.  Before the answer *)
(* the same has to hold at every step that can still end in one.           *)
(***************************************************************************)

Unwritten == faults \cap {"write", "copyback"} = {}

ErrorInv ==
  /\ ErrorChangesNothing
  /\ pc \notin {"idle", "copyback", "end"} /\ Unwritten => running = before

\* A copy that fails before it opened its target has changed nothing.
LEMMA FileCpFails ==
  ASSUME NEW src, NEW dst, NEW r \in FileCp(src, dst), ~r.ok, "write" \notin r.fault
  PROVE  r.db = dst
PROOF
<1>1. CASE r = [db |-> dst, ok |-> FALSE, fault |-> {}]
  BY <1>1
<1>2. CASE r = [db |-> src, ok |-> TRUE, fault |-> {}]
  BY <1>2
<1>3. ASSUME NEW f \in CopyFaults \ {"open"},
             r = [db |-> Torn, ok |-> f = "read", fault |-> {f}]
      PROVE  FALSE
  <2>1. r.ok = (f = "read") /\ r.fault = {f}
    BY <1>3, Zenon
  <2>2. f # "read" /\ f # "write"
    BY <2>1
  <2> QED
    BY <2>2, ConstantsOK DEF FaultKinds
<1>4. \/ r = [db |-> dst, ok |-> FALSE, fault |-> {}]
      \/ r = [db |-> src, ok |-> TRUE, fault |-> {}]
      \/ \E f \in CopyFaults \ {"open"} : r = [db |-> Torn, ok |-> f = "read", fault |-> {f}]
  BY Zenon DEF FileCp
<1> QED
  BY <1>1, <1>2, <1>3, <1>4, Zenon

LEMMA ErrorNext == ErrorInv /\ [Next]_vars => ErrorInv'
PROOF
<1> SUFFICES ASSUME ErrorInv, [Next]_vars PROVE ErrorInv'
  OBVIOUS
<1> USE DEF ErrorInv, ErrorChangesNothing, Unwritten
<1>1. ASSUME NEW k \in Keys, NEW v \in Vals, Change(k, v) PROVE ErrorInv'
  BY <1>1 DEF Change, transaction
<1>2. CASE Discard \/ Rm \/ InitDb
  BY <1>2 DEF Discard, Rm, InitDb, transaction
<1>3. ASSUME NEW o \in {"commit", "validate"}, Start(o) PROVE ErrorInv'
  BY <1>3 DEF Start, dbs
<1>4. CASE BeginHooks \/ GenericValidate \/ GenericDone \/ ValidateDb \/ ValidateDone
  BY <1>4 DEF BeginHooks, GenericValidate, GenericDone, ValidateDb, ValidateDone, dbs,
              transaction
<1>5. CASE CompleteHooks
  BY <1>5 DEF CompleteHooks, dbs
<1>6. CASE Apply
  BY <1>6 DEF Apply, CommitStep, CommitDone, DeleteStep, DeleteDone, SetStep, SetDone, Forward,
              dbs, transaction
<1>7. CASE Rollback
  <2>1. UNCHANGED <<running, before, reply>> /\ faults \subseteq faults'
    BY <1>7 DEF Rollback, RollbackStep, RollbackDone, UndeleteStep, UndeleteDone, UnsetStep,
              UnsetDone, ReaddStep, ReaddDone, Backward, dbs, transaction
  <2>2. pc \notin {"idle", "copyback", "end"} /\ pc' # "idle"
    BY <1>7 DEF Rollback, RollbackStep, RollbackDone, UndeleteStep, UndeleteDone, UnsetStep,
              UnsetDone, ReaddStep, ReaddDone
  <2> QED
    BY <2>1, <2>2
<1>8. CASE Copy
  <2>1. PICK r \in FileCp(candidate, running) :
          /\ running' = r.db /\ faults' = faults \cup r.fault
          /\ r.ok => pc' = "copyback"
    BY <1>8 DEF Copy
  <2>2. CASE ~r.ok /\ "write" \notin r.fault
    BY <1>8, <2>1, <2>2, FileCpFails DEF Copy, transaction
  <2>3. CASE r.ok \/ "write" \in r.fault
    BY <1>8, <2>1, <2>3 DEF Copy, transaction
  <2> QED
    BY <2>2, <2>3
<1>9. CASE CopyBack
  BY <1>9 DEF CopyBack, transaction
<1>10. CASE EndHooks
  BY <1>10 DEF EndHooks, dbs
<1>11. CASE AbortHooks
  BY <1>11 DEF AbortHooks, dbs
<1>12. CASE UNCHANGED vars
  BY <1>12 DEF vars
<1> QED
  BY <1>1, <1>2, <1>3, <1>4, <1>5, <1>6, <1>7, <1>8, <1>9, <1>10, <1>11, <1>12
     DEF Next, Client, Backend, Validation, Finish

(***************************************************************************)
(* An error answer to commit or validate leaves running as it was when the *)
(* message came, except after a write error in the copy to running and     *)
(* after a failing copy back to candidate.                                 *)
(***************************************************************************)
THEOREM ErrorIsHarmless == Spec => []ErrorChangesNothing
<1>1. Init => ErrorInv
  BY DEF Init, ErrorInv, ErrorChangesNothing
<1>2. ErrorInv => ErrorChangesNothing
  BY DEF ErrorInv
<1> QED
  BY <1>1, <1>2, ErrorNext, PTL DEF Spec

------------------------------------------------------------------------------
(* The hooks around a transaction. *)

\* The hooks and the answer change together, when a transaction ends.
LEMMA HooksNext == HooksClosed /\ [Next]_vars => HooksClosed'
PROOF
<1> SUFFICES ASSUME HooksClosed, [Next]_vars PROVE HooksClosed'
  OBVIOUS
<1>1. ASSUME pc' # "idle" PROVE HooksClosed'
  BY <1>1 DEF HooksClosed
<1>2. ASSUME pc = "idle", UNCHANGED <<hook, reply, op, faults>> PROVE HooksClosed'
  BY <1>2 DEF HooksClosed
<1>3. CASE Client
  <2>1. pc' # "idle" \/ (pc = "idle" /\ UNCHANGED <<hook, reply, op, faults>>)
    BY <1>3 DEF Client, Change, Discard, Rm, InitDb, Start, transaction
  <2> QED
    BY <1>1, <1>2, <2>1
<1>4. CASE Validation
  <2>1. pc' # "idle" \/ (reply' = "ok" /\ op' = "validate")
    BY <1>4 DEF Validation, BeginHooks, GenericValidate, GenericDone, ValidateDb, ValidateDone,
                CompleteHooks
  <2> QED
    BY <2>1 DEF HooksClosed
<1>5. CASE Apply \/ Rollback
  BY <1>1, <1>5 DEF Apply, CommitStep, CommitDone, DeleteStep, DeleteDone, SetStep, SetDone,
                    Forward, Rollback, RollbackStep, RollbackDone, UndeleteStep, UndeleteDone,
                    UnsetStep, UnsetDone, ReaddStep, ReaddDone
<1>6. CASE Copy \/ CopyBack
  BY <1>1, <1>6 DEF Copy, CopyBack
<1>7. CASE EndHooks
  <2>1. PICK m \in Plugin \cup {NPlugins} :
          /\ hook' = HookCalls("end", m)
          /\ faults' = IF m < NPlugins THEN faults \cup {"end"} ELSE faults
    BY <1>7 DEF EndHooks
  <2>2. reply' = "ok"
    BY <1>7 DEF EndHooks
  <2>3. "end" \notin faults' => \A p \in Plugin : hook'[p] = "end"
    BY <2>1, ConstantsOK DEF HookCalls, Plugin
  <2> QED
    BY <2>2, <2>3 DEF HooksClosed
<1>8. CASE AbortHooks
  <2>1. hook' = HookCalls("abort", NPlugins) /\ reply' = "err"
    BY <1>8 DEF AbortHooks
  <2>2. \A p \in Plugin : hook'[p] = "abort"
    BY <2>1, ConstantsOK DEF HookCalls, Plugin
  <2> QED
    BY <2>1, <2>2 DEF HooksClosed
<1>9. CASE UNCHANGED vars
  BY <1>1, <1>2, <1>9 DEF vars
<1> QED
  BY <1>3, <1>4, <1>5, <1>6, <1>7, <1>8, <1>9 DEF Next, Backend, Finish

(***************************************************************************)
(* No plugin is left inside a transaction: every error ends with abort in  *)
(* all plugins, every commit with end in all plugins unless one of those   *)
(* hooks fails.                                                            *)
(***************************************************************************)
THEOREM NoPluginLeftInside == Spec => []HooksClosed
<1>1. Init => HooksClosed
  BY DEF Init, HooksClosed
<1> QED
  BY <1>1, HooksNext, PTL DEF Spec

------------------------------------------------------------------------------
(***************************************************************************)
(* The system follows the running database: what the loops of              *)
(* candidate_commit do to the system, in all three commit orders, with a   *)
(* callback failing at any place.                                          *)
(***************************************************************************)

\* The entries of the commit vector whose plugin is called by the loops.
Calls == {n \in 1..Len(ddvec) : "commit" \in DepType[ddvec[n][1]]}

\* The phases with a commit vector.
Busy == Path \cup {"rollback", "undelete", "unset", "readd"}

Key(n) == ddvec[n][2]
Old(n) == Norm(sys[ddvec[n]]) = Norm(vec1[Key(n)])
New(n) == sys[ddvec[n]] = vec2[Key(n)]
Del(n) == DeleteOp(Key(n)) = "DELETE"
Gone(n) == DiffOp(Key(n)) = "DELETE"

------------------------------------------------------------------------------
(* The commit vector. *)

\* Each entry matches a key that differs, none is there twice, in row order,
\* and every part of the system whose key differs has its entry.
VecOK ==
  /\ \A n \in 1..Len(ddvec) :
       /\ ddvec[n] \in Entry
       /\ ddvec[n][2] \in DepKeys[ddvec[n][1]]
       /\ vec1[ddvec[n][2]] # vec2[ddvec[n][2]]
  /\ \A m, n \in 1..Len(ddvec) : ddvec[m] = ddvec[n] => m = n
  /\ \A m, n \in 1..Len(ddvec) : m < n => DepRow[ddvec[m][1]] <= DepRow[ddvec[n][1]]
  /\ \A e \in CommitEntry : vec1[e[2]] # vec2[e[2]] => \E n \in 1..Len(ddvec) : ddvec[n] = e

VecInv == pc \in Busy => VecOK

\* dbdep_commitvec makes such a vector.
LEMMA CommitVecsProperties ==
  ASSUME NEW db1 \in Database, NEW db2 \in Database,
         NEW s \in CommitVecs(Matches(db1, db2))
  PROVE  /\ \A n \in 1..Len(s) :
              /\ s[n] \in Entry
              /\ s[n][2] \in DepKeys[s[n][1]]
              /\ db1[s[n][2]] # db2[s[n][2]]
         /\ \A m, n \in 1..Len(s) : s[m] = s[n] => m = n
         /\ \A m, n \in 1..Len(s) : m < n => DepRow[s[m][1]] <= DepRow[s[n][1]]
         /\ \A e \in CommitEntry : db1[e[2]] # db2[e[2]] => \E n \in 1..Len(s) : s[n] = e
PROOF
<1> DEFINE S == Matches(db1, db2)
<1>1. s \in Seq(Entry)
  BY CommitVecsType
<1>2. s \in [1..Cardinality(S) -> S] /\ IsCommitVec(s, S)
  BY DEF CommitVecs
<1>3. DOMAIN s = 1..Len(s)
  BY <1>1
<1>4. \A n \in DOMAIN s : s[n] \in S
  BY <1>2
<1>5. \A e \in S : e \in Entry /\ e[2] \in DepKeys[e[1]] /\ db1[e[2]] # db2[e[2]]
  BY DEF Matches
<1>6. \A e \in CommitEntry : db1[e[2]] # db2[e[2]] => e \in S
  BY DEF Matches, CommitEntry
<1> HIDE DEF S
<1>7. /\ \A e \in S : \E n \in DOMAIN s : s[n] = e
      /\ \A m, n \in DOMAIN s : s[m] = s[n] => m = n
      /\ \A m, n \in DOMAIN s : m < n => DepRow[s[m][1]] <= DepRow[s[n][1]]
  BY <1>2 DEF IsCommitVec
<1> QED
  BY <1>3, <1>4, <1>5, <1>6, <1>7

\* Nothing changes the vector or the two sides of the difference in between.
LEMMA VecNext == VecInv /\ [Next]_vars => VecInv'
PROOF
<1> SUFFICES ASSUME VecInv, [Next]_vars PROVE VecInv'
  OBVIOUS
<1>1. CASE pc' \notin Busy
  BY <1>1 DEF VecInv
<1>2. ASSUME pc \in Busy, UNCHANGED <<ddvec, vec1, vec2>> PROVE VecInv'
  BY <1>2 DEF VecInv, VecOK
<1>3. ASSUME NEW o \in {"commit", "validate"}, Start(o) PROVE VecInv'
  <2>1. CASE pc' = "abort"
    BY <1>1, <2>1 DEF Busy, Path
  <2>2. CASE /\ running \in Database /\ candidate \in Database
             /\ vec1' = running /\ vec2' = candidate
             /\ ddvec' \in CommitVecs(Matches(running, candidate))
    <3>1. VecOK'
      BY <2>2, CommitVecsProperties DEF VecOK
    <3> QED
      BY <3>1 DEF VecInv
  <2> QED
    BY <1>3, <2>1, <2>2 DEF Start
<1>4. ASSUME Client, pc' \in Busy PROVE VecInv'
  <2>1. \/ pc' = "idle"
        \/ \E o \in {"commit", "validate"} : Start(o)
    BY <1>4 DEF Client, Change, Discard, Rm, InitDb
  <2> QED
    BY <1>1, <1>3, <2>1 DEF Busy, Path
<1>5. ASSUME Validation PROVE VecInv'
  <2>1. pc \in Busy /\ (UNCHANGED <<ddvec, vec1, vec2>> \/ pc' = "idle")
    BY <1>5 DEF Validation, BeginHooks, GenericValidate, GenericDone, ValidateDb,
                ValidateDone, CompleteHooks, transaction, Busy, Path
  <2> QED
    BY <1>1, <1>2, <2>1 DEF Busy, Path
<1>6. ASSUME Apply \/ Rollback PROVE VecInv'
  <2>1. pc \in Busy /\ UNCHANGED <<ddvec, vec1, vec2>>
    BY <1>6 DEF Apply, CommitStep, CommitDone, DeleteStep, DeleteDone, SetStep, SetDone,
                Rollback, RollbackStep, RollbackDone, UndeleteStep, UndeleteDone, UnsetStep,
                UnsetDone, ReaddStep, ReaddDone, transaction, Busy, Path
  <2> QED
    BY <1>2, <2>1
<1>7. ASSUME Finish PROVE VecInv'
  <2>1. \/ pc \in Busy /\ UNCHANGED <<ddvec, vec1, vec2>>
        \/ pc' \in {"idle", "end", "abort"}
    BY <1>7 DEF Finish, Copy, CopyBack, EndHooks, AbortHooks, transaction, Busy, Path
  <2> QED
    BY <1>1, <1>2, <2>1 DEF Busy, Path
<1>8. CASE UNCHANGED vars
  BY <1>1, <1>2, <1>8 DEF vars
<1> QED
  BY <1>1, <1>4, <1>5, <1>6, <1>7, <1>8 DEF Next, Backend

------------------------------------------------------------------------------
(* The inductive invariants. *)

\* How far each loop has brought the system to the new values.
NewInv ==
  \A n \in Calls :
    /\ pc = "commit" /\ n < i => New(n)
    /\ pc = "delete" /\ n > i /\ Gone(n) => New(n)
    /\ pc = "set" /\ (n < i \/ Gone(n)) => New(n)
    /\ pc = "copy" => New(n)

\* What each loop has not touched yet, or has already brought back.
OldInv ==
  \A n \in Calls :
    /\ pc \in {"begin", "generic", "validate", "complete"} => Old(n)
    /\ pc = "commit" /\ n >= i => Old(n)
    /\ pc = "rollback" /\ n > j => Old(n)
    /\ pc = "delete" /\ (n <= i \/ ~Del(n)) => Old(n)
    /\ pc = "undelete" /\ (n < j \/ ~Del(n)) => Old(n)
    /\ pc = "set" /\ n >= i /\ ~Del(n) => Old(n)
    /\ pc = "unset" /\ n > j /\ ~Del(n) => Old(n)
    /\ pc = "readd" /\ (n < j \/ ~Del(n)) => Old(n)

\* Parts of the system whose key does not differ are left alone.
Kept ==
  \A e \in CommitEntry : vec1[e[2]] = vec2[e[2]] => Norm(sys[e]) = Norm(vec1[e[2]])

\* Without a commit vector the system holds what running says.
Settled == \A e \in CommitEntry : Norm(sys[e]) = Norm(running[e[2]])

SyncInv ==
  ~Unrepaired => /\ pc \in Busy => OldInv /\ Kept /\ running = vec1
                 /\ pc \notin Busy => Settled

------------------------------------------------------------------------------
(* One call of a plugin. *)

\* In every loop a deletion is asked for only where the target has no value.
LEMMA OpFacts ==
  ASSUME NEW k \in Keys
  PROVE  /\ CommitOp(k) # "skip" /\ (CommitOp(k) = "DELETE" => vec2[k] = NoVal)
         /\ RollbackOp(k) # "skip" /\ (RollbackOp(k) = "DELETE" => vec1[k] = NoVal)
         /\ DiffOp(k) = "DELETE" => DeleteOp(k) = "DELETE" /\ vec2[k] = NoVal
         /\ DeleteOp(k) # "DELETE" => DeleteOp(k) = "skip"
         /\ SetOp(k) # "DELETE" /\ (SetOp(k) = "skip" => DiffOp(k) = "DELETE")
         /\ DeleteOp(k) # "DELETE" =>
              UnsetOp(k) # "skip" /\ (UnsetOp(k) = "DELETE" => vec1[k] = NoVal)
         /\ ReaddOp(k) = IF DeleteOp(k) = "DELETE" THEN "ADD" ELSE "skip"
PROOF
<1>1. CASE DiffOp(k) = "DELETE"
  <2>1. vec2[k] = NoVal
    BY <1>1 DEF DiffOp
  <2> QED
    BY <1>1, <2>1 DEF CommitOp, RollbackOp, DeleteOp, SetOp, UnsetOp, ReaddOp, SplitOp
<1>2. CASE DiffOp(k) = "ADD"
  <2>1. vec1[k] = NoVal
    BY <1>2 DEF DiffOp
  <2> QED
    BY <1>2, <2>1 DEF CommitOp, RollbackOp, DeleteOp, SetOp, UnsetOp, ReaddOp, SplitOp
<1>3. CASE DiffOp(k) = "CHANGE"
  BY <1>3 DEF CommitOp, RollbackOp, DeleteOp, SetOp, UnsetOp, ReaddOp, SplitOp
<1>4. DiffOp(k) \in {"DELETE", "ADD", "CHANGE"}
  BY DEF DiffOp
<1> QED
  BY <1>1, <1>2, <1>3, <1>4

\* The entries that are called belong to the system.
LEMMA CallsInSystem ==
  ASSUME TypeOK, VecOK, NEW n \in Calls
  PROVE  n \in 1..Len(ddvec) /\ ddvec[n] \in CommitEntry /\ Key(n) \in Keys
  BY DEF Calls, VecOK, CommitEntry, Key, Entry

\* A call changes the system at its own entry only, and where the key differs.
LEMMA CallEffect ==
  ASSUME TypeOK, VecOK, NEW x \in Calls, NEW o, NEW vec, sys' = Called(ddvec[x], o, vec)
  PROVE  /\ sys'[ddvec[x]] = IF o = "DELETE" THEN NoVal ELSE vec[Key(x)]
         /\ \A n \in Calls : n # x => sys'[ddvec[n]] = sys[ddvec[n]]
         /\ \A e \in CommitEntry : e # ddvec[x] => sys'[e] = sys[e]
         /\ \A e \in CommitEntry : vec1[e[2]] = vec2[e[2]] => sys'[e] = sys[e]
PROOF
<1>1. x \in 1..Len(ddvec) /\ ddvec[x] \in CommitEntry
  BY CallsInSystem
<1>2. sys \in [CommitEntry -> Vals]
  BY DEF TypeOK
<1>3. sys'[ddvec[x]] = IF o = "DELETE" THEN NoVal ELSE vec[Key(x)]
  BY <1>1, <1>2 DEF Called, Key
<1>4. \A e \in CommitEntry : e # ddvec[x] => sys'[e] = sys[e]
  BY <1>1, <1>2 DEF Called
<1>5. \A n \in Calls : n # x => sys'[ddvec[n]] = sys[ddvec[n]]
  <2> SUFFICES ASSUME NEW n \in Calls, n # x PROVE sys'[ddvec[n]] = sys[ddvec[n]]
    OBVIOUS
  <2>1. n \in 1..Len(ddvec) /\ ddvec[n] \in CommitEntry
    BY CallsInSystem
  <2>2. ddvec[n] # ddvec[x]
    BY <1>1, <2>1 DEF VecOK
  <2> QED
    BY <1>4, <2>1, <2>2
<1>6. \A e \in CommitEntry : vec1[e[2]] = vec2[e[2]] => e # ddvec[x]
  BY <1>1 DEF VecOK
<1> QED
  BY <1>3, <1>4, <1>5, <1>6

\* While the vector stays, the loops are to do the same with its entries, and
\* the invariants of the next state can be read off the next system.
LEMMA NewPrime ==
  ASSUME UNCHANGED <<ddvec, vec1, vec2>>,
         \A n \in Calls :
           LET NewNow == sys'[ddvec[n]] = vec2[Key(n)]
           IN /\ pc' = "commit" /\ n < i' => NewNow
              /\ pc' = "delete" /\ n > i' /\ Gone(n) => NewNow
              /\ pc' = "set" /\ (n < i' \/ Gone(n)) => NewNow
              /\ pc' = "copy" => NewNow
  PROVE  NewInv'
  BY DEF NewInv, New, Gone, DiffOp, Key, Calls

LEMMA OldPrime ==
  ASSUME UNCHANGED <<ddvec, vec1, vec2>>,
         \A n \in Calls :
           LET OldNow == Norm(sys'[ddvec[n]]) = Norm(vec1[Key(n)])
           IN /\ pc' \in {"begin", "generic", "validate", "complete"} => OldNow
              /\ pc' = "commit" /\ n >= i' => OldNow
              /\ pc' = "rollback" /\ n > j' => OldNow
              /\ pc' = "delete" /\ (n <= i' \/ ~Del(n)) => OldNow
              /\ pc' = "undelete" /\ (n < j' \/ ~Del(n)) => OldNow
              /\ pc' = "set" /\ n >= i' /\ ~Del(n) => OldNow
              /\ pc' = "unset" /\ n > j' /\ ~Del(n) => OldNow
              /\ pc' = "readd" /\ (n < j' \/ ~Del(n)) => OldNow
  PROVE  OldInv'
  BY DEF OldInv, Old, Norm, Del, DeleteOp, SplitOp, DiffOp, Key, Calls

------------------------------------------------------------------------------
(* Towards the new values. *)

\* The loops of the commit.
Working == {"commit", "delete", "set", "copy"}

LEMMA NewOffPath == ASSUME pc' \notin Working PROVE NewInv'
  BY DEF NewInv, Working

LEMMA NewCommitStep == BoundInv /\ VecInv /\ NewInv /\ CommitStep => NewInv'
PROOF
<1> SUFFICES ASSUME BoundInv, VecInv, NewInv, CommitStep PROVE NewInv'
  OBVIOUS
<1>1. TypeOK /\ VecOK /\ i \in Nat /\ pc = "commit" /\ UNCHANGED <<ddvec, vec1, vec2>>
  BY DEF CommitStep, BoundInv, TypeOK, VecInv, Busy, Path, transaction
<1>2. i \in 1..Len(ddvec)
  BY <1>1 DEF CommitStep, BoundInv, InBounds
<1>3. Calls \subseteq 1..Len(ddvec)
  BY DEF Calls
<1> DEFINE o == CommitOp(ddvec[i][2])
<1>4. CASE pc' = "rollback"
  BY <1>4, NewOffPath DEF Working
<1>5. CASE Skipped(ddvec[i], o) /\ i' = i + 1 /\ UNCHANGED <<sys, pc>>
  <2>1. i \notin Calls
    BY <1>1, <1>2, <1>5, CallsInSystem, OpFacts DEF Skipped, Key, Calls
  <2> QED
    BY <1>1, <1>3, <1>5, <2>1, NewPrime DEF NewInv, New
<1>6. CASE ~Skipped(ddvec[i], o) /\ sys' = Called(ddvec[i], o, vec2) /\ i' = i + 1 /\ UNCHANGED pc
  <2>1. i \in Calls
    BY <1>2, <1>6 DEF Skipped, Calls
  <2>2. Key(i) \in Keys /\ o = CommitOp(Key(i))
    BY <1>1, <2>1, CallsInSystem DEF Key
  <2>3. sys'[ddvec[i]] = vec2[Key(i)]
    BY <1>1, <1>6, <2>1, <2>2, CallEffect, OpFacts, ZenonT(60)
  <2>4. \A n \in Calls : n # i => sys'[ddvec[n]] = sys[ddvec[n]]
    BY <1>1, <1>6, <2>1, CallEffect
  <2> QED
    BY <1>1, <1>3, <1>6, <2>3, <2>4, NewPrime DEF NewInv, New
<1> QED
  BY <1>4, <1>5, <1>6 DEF CommitStep, Forward

LEMMA NewDeleteStep == BoundInv /\ VecInv /\ NewInv /\ DeleteStep => NewInv'
PROOF
<1> SUFFICES ASSUME BoundInv, VecInv, NewInv, DeleteStep PROVE NewInv'
  OBVIOUS
<1>1. TypeOK /\ VecOK /\ i \in Nat /\ pc = "delete" /\ UNCHANGED <<ddvec, vec1, vec2>>
  BY DEF DeleteStep, BoundInv, TypeOK, VecInv, Busy, Path, transaction
<1>2. i \in 1..Len(ddvec)
  BY <1>1 DEF DeleteStep, BoundInv, InBounds
<1>3. Calls \subseteq 1..Len(ddvec)
  BY DEF Calls
<1> DEFINE o == DeleteOp(ddvec[i][2])
<1>4. CASE pc' = "undelete"
  BY <1>4, NewOffPath DEF Working
<1>5. CASE Skipped(ddvec[i], o) /\ i' = i - 1 /\ UNCHANGED <<sys, pc>>
  <2>1. i \notin Calls \/ ~Gone(i)
    BY <1>1, <1>2, <1>5, CallsInSystem, OpFacts DEF Skipped, Key, Calls, Gone
  <2> QED
    BY <1>1, <1>3, <1>5, <2>1, NewPrime DEF NewInv, New
<1>6. CASE ~Skipped(ddvec[i], o) /\ sys' = Called(ddvec[i], o, vec2) /\ i' = i - 1 /\ UNCHANGED pc
  <2>1. i \in Calls
    BY <1>2, <1>6 DEF Skipped, Calls
  <2>2. Key(i) \in Keys /\ o = DeleteOp(Key(i))
    BY <1>1, <2>1, CallsInSystem DEF Key
  <2>3. Gone(i) => sys'[ddvec[i]] = vec2[Key(i)]
    BY <1>1, <1>6, <2>1, <2>2, CallEffect, OpFacts DEF Gone
  <2>4. \A n \in Calls : n # i => sys'[ddvec[n]] = sys[ddvec[n]]
    BY <1>1, <1>6, <2>1, CallEffect
  <2> QED
    BY <1>1, <1>3, <1>6, <2>3, <2>4, NewPrime DEF NewInv, New
<1> QED
  BY <1>4, <1>5, <1>6 DEF DeleteStep, Forward

LEMMA NewSetStep == BoundInv /\ VecInv /\ NewInv /\ SetStep => NewInv'
PROOF
<1> SUFFICES ASSUME BoundInv, VecInv, NewInv, SetStep PROVE NewInv'
  OBVIOUS
<1>1. TypeOK /\ VecOK /\ i \in Nat /\ pc = "set" /\ UNCHANGED <<ddvec, vec1, vec2>>
  BY DEF SetStep, BoundInv, TypeOK, VecInv, Busy, Path, transaction
<1>2. i \in 1..Len(ddvec)
  BY <1>1 DEF SetStep, BoundInv, InBounds
<1>3. Calls \subseteq 1..Len(ddvec)
  BY DEF Calls
<1> DEFINE o == SetOp(ddvec[i][2])
<1>4. CASE pc' = "unset"
  BY <1>4, NewOffPath DEF Working
<1>5. CASE Skipped(ddvec[i], o) /\ i' = i + 1 /\ UNCHANGED <<sys, pc>>
  <2>1. i \notin Calls \/ Gone(i)
    BY <1>1, <1>2, <1>5, CallsInSystem, OpFacts DEF Skipped, Key, Calls, Gone
  <2> QED
    BY <1>1, <1>3, <1>5, <2>1, NewPrime DEF NewInv, New
<1>6. CASE ~Skipped(ddvec[i], o) /\ sys' = Called(ddvec[i], o, vec2) /\ i' = i + 1 /\ UNCHANGED pc
  <2>1. i \in Calls
    BY <1>2, <1>6 DEF Skipped, Calls
  <2>2. Key(i) \in Keys /\ o = SetOp(Key(i))
    BY <1>1, <2>1, CallsInSystem DEF Key
  <2>3. sys'[ddvec[i]] = vec2[Key(i)]
    BY <1>1, <1>6, <2>1, <2>2, CallEffect, OpFacts, ZenonT(60)
  <2>4. \A n \in Calls : n # i => sys'[ddvec[n]] = sys[ddvec[n]]
    BY <1>1, <1>6, <2>1, CallEffect
  <2> QED
    BY <1>1, <1>3, <1>6, <2>3, <2>4, NewPrime DEF NewInv, New
<1> QED
  BY <1>4, <1>5, <1>6 DEF SetStep, Forward

LEMMA NewNext == BoundInv /\ VecInv /\ NewInv /\ [Next]_vars => NewInv'
PROOF
<1> SUFFICES ASSUME BoundInv, VecInv, NewInv, [Next]_vars PROVE NewInv'
  OBVIOUS
<1>0. i \in Nat /\ Calls \subseteq 1..Len(ddvec) /\ Len(ddvec) \in Nat
  BY DEF BoundInv, TypeOK, Calls
<1>1. CASE Client
  BY <1>1, NewOffPath DEF Client, Change, Discard, Rm, InitDb, Start, Working
<1>2. CASE BeginHooks \/ GenericValidate \/ GenericDone \/ ValidateDb \/ ValidateDone
  BY <1>2, NewOffPath DEF BeginHooks, GenericValidate, GenericDone, ValidateDb, ValidateDone,
                          Working
<1>3. CASE CompleteHooks
  <2>1. CASE pc' \in {"idle", "abort"}
    BY <2>1, NewOffPath DEF Working
  <2>2. CASE /\ \/ pc' = "commit" /\ i' = 1
                \/ pc' = "delete" /\ i' = DeleteFrom
             /\ UNCHANGED <<ddvec, vec1, vec2>>
    <3>1. \A n \in Calls : ~(n < 1) /\ ~(n > Len(ddvec))
      BY <1>0
    <3> QED
      BY <2>2, <3>1, NewPrime DEF DeleteFrom
  <2> QED
    BY <1>3, <2>1, <2>2 DEF CompleteHooks
<1>4. CASE CommitDone
  <2>1. pc = "commit" /\ i > Len(ddvec) /\ pc' = "copy" /\ UNCHANGED <<ddvec, vec1, vec2, sys>>
    BY <1>4 DEF CommitDone, transaction
  <2> QED
    BY <1>0, <2>1, NewPrime DEF NewInv, New
<1>5. CASE DeleteDone
  <2>1. /\ pc = "delete" /\ i = 0 /\ pc' = "set" /\ i' = 1
        /\ UNCHANGED <<ddvec, vec1, vec2, sys>>
    BY <1>5 DEF DeleteDone, transaction
  <2> QED
    BY <1>0, <2>1, NewPrime DEF NewInv, New
<1>6. CASE SetDone
  <2>1. pc = "set" /\ i > Len(ddvec) /\ pc' = "copy" /\ UNCHANGED <<ddvec, vec1, vec2, sys>>
    BY <1>6 DEF SetDone, transaction
  <2> QED
    BY <1>0, <2>1, NewPrime DEF NewInv, New
<1>7. CASE Rollback
  BY <1>7, NewOffPath
     DEF Rollback, RollbackStep, RollbackDone, UndeleteStep, UndeleteDone, UnsetStep, UnsetDone,
         ReaddStep, ReaddDone, Working
<1>8. CASE Finish
  BY <1>8, NewOffPath DEF Finish, Copy, CopyBack, EndHooks, AbortHooks, Working
<1>9. CASE UNCHANGED vars
  BY <1>9, NewPrime DEF vars, NewInv, New
<1> QED
  BY <1>1, <1>2, <1>3, <1>4, <1>5, <1>6, <1>7, <1>8, <1>9, NewCommitStep, NewDeleteStep,
     NewSetStep DEF Next, Backend, Validation, Apply

------------------------------------------------------------------------------
(* Back to the old values. *)

\* A turn of a loop of the commit touches its own entry only.
LEMMA ForwardEffect ==
  ASSUME TypeOK, VecOK, i \in 1..Len(ddvec),
         NEW o, NEW next, NEW failpc, NEW failj, Forward(o, next, failpc, failj)
  PROVE  /\ \A n \in Calls : n # i \/ o = "skip" => sys'[ddvec[n]] = sys[ddvec[n]]
         /\ \A e \in CommitEntry : vec1[e[2]] = vec2[e[2]] => sys'[e] = sys[e]
         /\ \/ pc' = failpc /\ j' = failj /\ sys' = sys
            \/ pc' = pc /\ i' = next
PROOF
<1>1. CASE sys' = sys
  BY <1>1 DEF Forward
<1>2. CASE ~Skipped(ddvec[i], o) /\ sys' = Called(ddvec[i], o, vec2) /\ pc' = pc /\ i' = next
  <2>1. i \in Calls /\ o # "skip"
    BY <1>2 DEF Skipped, Calls
  <2> QED
    BY <1>2, <2>1, CallEffect
<1> QED
  BY <1>1, <1>2 DEF Forward

\* A turn of a rollback loop, when the callback does not fail.
LEMMA BackwardEffect ==
  ASSUME TypeOK, VecOK, j \in 1..Len(ddvec), NEW o, NEW next, Backward(o, next), ~Unrepaired'
  PROVE  /\ \A n \in Calls : n # j \/ o = "skip" => sys'[ddvec[n]] = sys[ddvec[n]]
         /\ j \in Calls /\ o # "skip" =>
              sys'[ddvec[j]] = IF o = "DELETE" THEN NoVal ELSE vec1[Key(j)]
         /\ \A e \in CommitEntry : vec1[e[2]] = vec2[e[2]] => sys'[e] = sys[e]
         /\ faults' = faults /\ j' = next
PROOF
<1>1. CASE Skipped(ddvec[j], o) /\ UNCHANGED <<sys, faults>>
  <2>1. ~(j \in Calls /\ o # "skip")
    BY <1>1 DEF Skipped, Calls
  <2> QED
    BY <1>1, <2>1 DEF Backward
<1>2. CASE ~Skipped(ddvec[j], o) /\ sys' = Called(ddvec[j], o, vec1) /\ UNCHANGED faults
  <2>1. j \in Calls /\ o # "skip"
    BY <1>2 DEF Skipped, Calls
  <2> QED
    BY <1>2, <2>1, CallEffect DEF Backward
<1>3. CASE faults' = faults \cup {"callback"}
  BY <1>3 DEF Unrepaired
<1> QED
  BY <1>1, <1>2, <1>3 DEF Backward

LEMMA KeptPrime ==
  ASSUME Kept, UNCHANGED <<vec1, vec2>>,
         \A e \in CommitEntry : vec1[e[2]] = vec2[e[2]] => sys'[e] = sys[e]
  PROVE  Kept'
  BY DEF Kept, Norm

\* When all entries are as before, the system is what running says.
LEMMA BackToOld ==
  ASSUME TypeOK, VecOK, Kept, running = vec1, \A n \in Calls : Old(n)
  PROVE  Settled
PROOF
<1>1. ASSUME NEW e \in CommitEntry PROVE Norm(sys[e]) = Norm(running[e[2]])
  <2>1. CASE vec1[e[2]] = vec2[e[2]]
    BY <2>1 DEF Kept
  <2>2. CASE vec1[e[2]] # vec2[e[2]]
    <3>1. PICK n \in 1..Len(ddvec) : ddvec[n] = e
      BY <2>2 DEF VecOK
    <3>2. n \in Calls
      BY <3>1 DEF Calls, CommitEntry
    <3> QED
      BY <3>1, <3>2 DEF Old, Key
  <2> QED
    BY <2>1, <2>2
<1> QED
  BY <1>1 DEF Settled

\* What the invariants say of a transaction under way that can still be undone.
SyncHyp ==
  TypeOK /\ InBounds /\ VecOK /\ OldInv /\ Kept /\ running = vec1

LEMMA SyncHypHolds ==
  ASSUME BoundInv, VecInv, SyncInv, pc \in Busy, ~Unrepaired
  PROVE  SyncHyp
  BY DEF BoundInv, VecInv, SyncInv, SyncHyp

\* One turn of the loops of the commit.
LEMMA SyncApply ==
  ASSUME SyncHyp, CommitStep \/ DeleteStep \/ SetStep
  PROVE  OldInv' /\ Kept' /\ running' = vec1' /\ pc' \in Busy
PROOF
<1> USE DEF SyncHyp
<1>1. UNCHANGED <<running, ddvec, vec1, vec2>> /\ i \in Nat /\ Len(ddvec) \in Nat
  BY DEF CommitStep, DeleteStep, SetStep, dbs, transaction, TypeOK
<1>2. Calls \subseteq 1..Len(ddvec)
  BY DEF Calls
<1>3. CASE CommitStep
  <2>1. pc = "commit" /\ i \in 1..Len(ddvec)
    BY <1>1, <1>3 DEF CommitStep, InBounds
  <2>2. /\ \A n \in Calls : n # i => sys'[ddvec[n]] = sys[ddvec[n]]
        /\ \A e \in CommitEntry : vec1[e[2]] = vec2[e[2]] => sys'[e] = sys[e]
        /\ \/ pc' = "rollback" /\ j' = i - 1 /\ sys' = sys
           \/ pc' = "commit" /\ i' = i + 1
    BY <1>3, <2>1, ForwardEffect DEF CommitStep
  <2>3. OldInv'
    BY <1>1, <1>2, <2>1, <2>2, OldPrime DEF OldInv, Old
  <2> QED
    BY <1>1, <2>2, <2>3, KeptPrime DEF Busy, Path
<1>4. CASE DeleteStep
  <2>1. pc = "delete" /\ i \in 1..Len(ddvec)
    BY <1>1, <1>4 DEF DeleteStep, InBounds
  <2>2. /\ \A n \in Calls : n # i \/ DeleteOp(Key(i)) = "skip" => sys'[ddvec[n]] = sys[ddvec[n]]
        /\ \A e \in CommitEntry : vec1[e[2]] = vec2[e[2]] => sys'[e] = sys[e]
        /\ \/ pc' = "undelete" /\ j' = i + 1 /\ sys' = sys
           \/ pc' = "delete" /\ i' = i - 1
    BY <1>4, <2>1, ForwardEffect DEF DeleteStep, Key
  <2>3. \A n \in Calls : n # i \/ ~Del(n) => sys'[ddvec[n]] = sys[ddvec[n]]
    BY <2>2, CallsInSystem, OpFacts DEF Del
  <2>4. OldInv'
    BY <1>1, <1>2, <2>1, <2>2, <2>3, OldPrime DEF OldInv, Old
  <2> QED
    BY <1>1, <2>2, <2>4, KeptPrime DEF Busy, Path
<1>5. CASE SetStep
  <2>1. pc = "set" /\ i \in 1..Len(ddvec)
    BY <1>1, <1>5 DEF SetStep, InBounds
  <2>2. /\ \A n \in Calls : n # i => sys'[ddvec[n]] = sys[ddvec[n]]
        /\ \A e \in CommitEntry : vec1[e[2]] = vec2[e[2]] => sys'[e] = sys[e]
        /\ \/ pc' = "unset" /\ j' = i - 1 /\ sys' = sys
           \/ pc' = "set" /\ i' = i + 1
    BY <1>5, <2>1, ForwardEffect DEF SetStep
  <2>3. OldInv'
    BY <1>1, <1>2, <2>1, <2>2, OldPrime DEF OldInv, Old
  <2> QED
    BY <1>1, <2>2, <2>3, KeptPrime DEF Busy, Path
<1> QED
  BY <1>3, <1>4, <1>5

\* One turn of the rollback loops: a callback that fails is a fault.
LEMMA SyncRollback ==
  ASSUME SyncHyp, ~Unrepaired', RollbackStep \/ UnsetStep \/ ReaddStep \/ UndeleteStep
  PROVE  OldInv' /\ Kept' /\ running' = vec1' /\ pc' \in Busy
PROOF
<1> USE DEF SyncHyp
<1>1. UNCHANGED <<running, ddvec, vec1, vec2, pc>> /\ j \in Nat /\ Len(ddvec) \in Nat
  BY DEF RollbackStep, UnsetStep, ReaddStep, UndeleteStep, dbs, transaction, TypeOK
<1>2. Calls \subseteq 1..Len(ddvec)
  BY DEF Calls
<1>3. CASE RollbackStep
  <2>1. pc = "rollback" /\ j \in 1..Len(ddvec)
    BY <1>1, <1>3 DEF RollbackStep, InBounds
  <2> DEFINE o == RollbackOp(Key(j))
  <2>2. /\ \A n \in Calls : n # j => sys'[ddvec[n]] = sys[ddvec[n]]
        /\ j \in Calls /\ o # "skip" =>
             sys'[ddvec[j]] = IF o = "DELETE" THEN NoVal ELSE vec1[Key(j)]
        /\ \A e \in CommitEntry : vec1[e[2]] = vec2[e[2]] => sys'[e] = sys[e]
        /\ j' = j - 1
    BY <1>3, <2>1, BackwardEffect DEF RollbackStep, Key
  <2>3. j \in Calls => sys'[ddvec[j]] = vec1[Key(j)]
    BY <2>2, CallsInSystem, OpFacts
  <2>4. OldInv'
    BY <1>1, <1>2, <2>1, <2>2, <2>3, OldPrime DEF OldInv, Old
  <2> QED
    BY <1>1, <2>1, <2>2, <2>4, KeptPrime DEF Busy
<1>4. CASE UnsetStep
  <2>1. pc = "unset" /\ j \in 1..Len(ddvec)
    BY <1>1, <1>4 DEF UnsetStep, InBounds
  <2> DEFINE o == UnsetOp(Key(j))
  <2>2. /\ \A n \in Calls : n # j => sys'[ddvec[n]] = sys[ddvec[n]]
        /\ j \in Calls /\ o # "skip" =>
             sys'[ddvec[j]] = IF o = "DELETE" THEN NoVal ELSE vec1[Key(j)]
        /\ \A e \in CommitEntry : vec1[e[2]] = vec2[e[2]] => sys'[e] = sys[e]
        /\ j' = j - 1
    BY <1>4, <2>1, BackwardEffect DEF UnsetStep, Key
  <2>3. j \in Calls /\ ~Del(j) => sys'[ddvec[j]] = vec1[Key(j)]
    BY <2>2, CallsInSystem, OpFacts DEF Del
  <2>4. OldInv'
    BY <1>1, <1>2, <2>1, <2>2, <2>3, OldPrime DEF OldInv, Old
  <2> QED
    BY <1>1, <2>1, <2>2, <2>4, KeptPrime DEF Busy
<1>5. CASE ReaddStep
  <2>1. pc = "readd" /\ j \in 1..Len(ddvec)
    BY <1>1, <1>5 DEF ReaddStep, InBounds
  <2> DEFINE o == ReaddOp(Key(j))
  <2>2. /\ \A n \in Calls : n # j \/ o = "skip" => sys'[ddvec[n]] = sys[ddvec[n]]
        /\ j \in Calls /\ o # "skip" =>
             sys'[ddvec[j]] = IF o = "DELETE" THEN NoVal ELSE vec1[Key(j)]
        /\ \A e \in CommitEntry : vec1[e[2]] = vec2[e[2]] => sys'[e] = sys[e]
        /\ j' = j + 1
    BY <1>5, <2>1, BackwardEffect DEF ReaddStep, Key
  <2>3. j \in Calls => IF Del(j) THEN sys'[ddvec[j]] = vec1[Key(j)]
                                 ELSE sys'[ddvec[j]] = sys[ddvec[j]]
    BY <2>2, CallsInSystem, OpFacts DEF Del
  <2>4. OldInv'
    BY <1>1, <1>2, <2>1, <2>2, <2>3, OldPrime DEF OldInv, Old
  <2> QED
    BY <1>1, <2>1, <2>2, <2>4, KeptPrime DEF Busy
<1>6. CASE UndeleteStep
  <2>1. pc = "undelete" /\ j \in 1..Len(ddvec) /\ j' = j + 1
    BY <1>1, <1>6 DEF UndeleteStep, InBounds
  <2>2. sys' = sys /\ (j \in Calls => ~Del(j))
    BY <1>6, <2>1 DEF UndeleteStep, UndeleteOp, Unrepaired, Skipped, Calls, Del, Key
  <2>3. OldInv'
    BY <1>1, <1>2, <2>1, <2>2, OldPrime DEF OldInv, Old
  <2> QED
    BY <1>1, <2>1, <2>2, <2>3, KeptPrime DEF Busy
<1> QED
  BY <1>3, <1>4, <1>5, <1>6

\* A copy reported as done without a read error is complete.
LEMMA FileCpDone ==
  ASSUME NEW src, NEW dst, NEW r \in FileCp(src, dst), r.ok, "read" \notin r.fault
  PROVE  r.db = src
PROOF
<1>1. CASE r = [db |-> dst, ok |-> FALSE, fault |-> {}]
  BY <1>1
<1>2. CASE r = [db |-> src, ok |-> TRUE, fault |-> {}]
  BY <1>2
<1>3. ASSUME NEW f \in CopyFaults \ {"open"},
             r = [db |-> Torn, ok |-> f = "read", fault |-> {f}]
      PROVE  FALSE
  <2>1. r.ok = (f = "read") /\ r.fault = {f}
    BY <1>3, Zenon
  <2> QED
    BY <2>1
<1>4. \/ r = [db |-> dst, ok |-> FALSE, fault |-> {}]
      \/ r = [db |-> src, ok |-> TRUE, fault |-> {}]
      \/ \E f \in CopyFaults \ {"open"} : r = [db |-> Torn, ok |-> f = "read", fault |-> {f}]
  BY Zenon DEF FileCp
<1> QED
  BY <1>1, <1>2, <1>3, <1>4, Zenon

\* The candidate at the copy is what the plugins were given, up to defaults.
LEMMA NormIdempotent == ASSUME NEW v \in Vals PROVE Norm(Norm(v)) = Norm(v)
  BY FillOK, ConstantsOK DEF Norm, Vals

LEMMA CandidateGiven ==
  ASSUME TypeOK, CandidateIsVec2, NEW k \in Keys
  PROVE  Norm(candidate[k]) = Norm(vec2[k])
PROOF
<1>1. vec2[k] \in Vals
  BY DEF TypeOK, Database
<1> QED
  BY <1>1, NormIdempotent DEF CandidateIsVec2

\* The copy to running: the system is as new if it succeeds, else to be undone.
LEMMA SyncCopy ==
  ASSUME SyncHyp, CandidateIsVec2, NewInv, ~Unrepaired', Copy
  PROVE  SyncInv'
PROOF
<1> USE DEF SyncHyp
<1>1. /\ pc = "copy" /\ UNCHANGED <<sys, ddvec, vec1, vec2>> /\ Len(ddvec) \in Nat
      /\ Calls \subseteq 1..Len(ddvec)
  BY DEF Copy, transaction, TypeOK, Calls
<1>2. PICK r \in FileCp(candidate, running) :
        /\ running' = r.db /\ faults' = faults \cup r.fault
        /\ \/ r.ok /\ pc' = "copyback"
           \/ ~r.ok /\ j' = Len(ddvec) /\ pc' \in {"rollback", "unset"}
  BY DEF Copy
<1>3. "read" \notin r.fault /\ "write" \notin r.fault
  BY <1>2 DEF Unrepaired
<1>4. CASE ~r.ok
  <2>1. running' = vec1'
    BY <1>1, <1>2, <1>3, <1>4, FileCpFails
  <2>2. OldInv'
    <3>1. \A n \in Calls : ~(n > j')
      BY <1>1, <1>2, <1>4
    <3>2. pc' \in {"rollback", "unset"}
      BY <1>2, <1>4
    <3> QED
      BY <1>1, <3>1, <3>2, OldPrime
  <2>3. Kept'
    BY <1>1, KeptPrime
  <2> QED
    BY <1>2, <1>4, <2>1, <2>2, <2>3 DEF SyncInv, Busy
<1>5. CASE r.ok
  <2>1. running' = candidate /\ pc' = "copyback"
    BY <1>2, <1>3, <1>5, FileCpDone
  <2>2. ASSUME NEW e \in CommitEntry PROVE Norm(sys[e]) = Norm(candidate[e[2]])
    <3>1. e[2] \in Keys
      BY DEF CommitEntry, Entry
    <3>2. CASE vec1[e[2]] = vec2[e[2]]
      BY <3>1, <3>2, CandidateGiven DEF Kept
    <3>3. CASE vec1[e[2]] # vec2[e[2]]
      <4>1. PICK n \in 1..Len(ddvec) : ddvec[n] = e
        BY <3>3 DEF VecOK
      <4>2. n \in Calls
        BY <4>1 DEF Calls, CommitEntry
      <4>3. sys[e] = vec2[e[2]]
        BY <1>1, <4>1, <4>2 DEF NewInv, New, Key
      <4> QED
        BY <3>1, <4>3, CandidateGiven
    <3> QED
      BY <3>2, <3>3
  <2>3. Settled'
    BY <1>1, <2>1, <2>2 DEF Settled, Norm
  <2> QED
    BY <2>1, <2>3 DEF SyncInv, Busy, Path
<1> QED
  BY <1>4, <1>5

\* Outside a transaction neither side changes.
LEMMA SyncQuiet ==
  ASSUME SyncInv, pc \notin Busy, pc' \notin Busy, UNCHANGED <<sys, running>>,
         Unrepaired => Unrepaired'
  PROVE  SyncInv'
  BY DEF SyncInv, Settled, Norm

\* The steps between the loops, and the end of a transaction that failed.
LEMMA SyncPhase ==
  ASSUME SyncHyp, Validation \/ CommitDone \/ DeleteDone \/ SetDone \/ RollbackDone
                  \/ UndeleteDone \/ UnsetDone \/ ReaddDone
  PROVE  SyncInv'
PROOF
<1> USE DEF SyncHyp
<1>1. UNCHANGED <<sys, running>> /\ i \in Nat /\ j \in Nat /\ Len(ddvec) \in Nat
  BY DEF Validation, BeginHooks, GenericValidate, GenericDone, ValidateDb, ValidateDone,
         CompleteHooks, CommitDone, DeleteDone, SetDone, RollbackDone, UndeleteDone, UnsetDone,
         ReaddDone, dbs, TypeOK
<1>2. Calls \subseteq 1..Len(ddvec)
  BY DEF Calls
<1>3. ASSUME \A n \in Calls : Old(n), pc' \in {"idle", "abort"} PROVE SyncInv'
  <2>1. Settled
    BY <1>3, BackToOld
  <2>2. Settled'
    BY <1>1, <2>1 DEF Settled, Norm
  <2> QED
    BY <1>3, <2>2 DEF SyncInv, Busy, Path
<1>4. ASSUME OldInv', pc' \in Busy, UNCHANGED <<vec1, vec2>> PROVE SyncInv'
  BY <1>1, <1>4, KeptPrime DEF SyncInv
<1>5. CASE Validation
  <2>1. pc \in {"begin", "generic", "validate", "complete"}
    BY <1>5 DEF Validation, BeginHooks, GenericValidate, GenericDone, ValidateDb, ValidateDone,
                CompleteHooks
  <2>2. \A n \in Calls : Old(n)
    BY <2>1 DEF OldInv
  <2>3. \/ pc' \in {"idle", "abort"}
        \/ /\ pc' \in {"generic", "validate", "complete", "commit", "delete"}
           /\ UNCHANGED <<ddvec, vec1, vec2>>
    BY <1>5 DEF Validation, BeginHooks, GenericValidate, GenericDone, ValidateDb, ValidateDone,
                CompleteHooks, transaction
  <2>4. CASE /\ pc' \in {"generic", "validate", "complete", "commit", "delete"}
             /\ UNCHANGED <<ddvec, vec1, vec2>>
    <3>1. OldInv'
      BY <1>1, <2>2, <2>4, OldPrime DEF Old
    <3> QED
      BY <1>4, <2>4, <3>1 DEF Busy, Path
  <2> QED
    BY <1>3, <2>2, <2>3, <2>4
<1>6. CASE CommitDone \/ SetDone
  <2>1. pc' = "copy" /\ UNCHANGED <<ddvec, vec1, vec2>>
    BY <1>6 DEF CommitDone, SetDone, transaction
  <2>2. OldInv'
    BY <2>1, OldPrime
  <2> QED
    BY <1>4, <2>1, <2>2 DEF Busy, Path
<1>7. CASE DeleteDone
  <2>1. pc = "delete" /\ pc' = "set" /\ UNCHANGED <<ddvec, vec1, vec2>>
    BY <1>7 DEF DeleteDone, transaction
  <2>2. OldInv'
    BY <1>1, <2>1, OldPrime DEF OldInv, Old
  <2> QED
    BY <1>4, <2>1, <2>2 DEF Busy, Path
<1>8. CASE UnsetDone
  <2>1. pc = "unset" /\ j = 0 /\ pc' = "readd" /\ j' = 1 /\ UNCHANGED <<ddvec, vec1, vec2>>
    BY <1>8 DEF UnsetDone, transaction
  <2>2. OldInv'
    BY <1>1, <1>2, <2>1, OldPrime DEF OldInv, Old
  <2> QED
    BY <1>4, <2>1, <2>2 DEF Busy
<1>9. CASE RollbackDone \/ UndeleteDone \/ ReaddDone
  <2>1. /\ \/ pc = "rollback" /\ j = 0
           \/ pc \in {"undelete", "readd"} /\ j > Len(ddvec)
        /\ pc' = "abort"
    BY <1>9 DEF RollbackDone, UndeleteDone, ReaddDone
  <2>2. \A n \in Calls : Old(n)
    BY <1>1, <1>2, <2>1 DEF OldInv
  <2> QED
    BY <1>3, <2>1, <2>2
<1> QED
  BY <1>5, <1>6, <1>7, <1>8, <1>9

LEMMA SyncStart ==
  ASSUME SyncInv, BoundInv, NEW o \in {"commit", "validate"}, Start(o), VecInv'
  PROVE  SyncInv'
PROOF
<1>1. /\ pc = "idle" /\ UNCHANGED <<sys, running, faults>>
  BY DEF Start, dbs
<1>2. CASE pc' = "abort"
  BY <1>1, <1>2, SyncQuiet DEF Busy, Path, Unrepaired
<1>3. CASE pc' = "begin" /\ vec1' = running
  <2>1. SUFFICES ASSUME ~Unrepaired' PROVE OldInv' /\ Kept' /\ running' = vec1'
    BY <1>3 DEF SyncInv, Busy, Path
  <2>2. Settled
    BY <1>1, <2>1 DEF SyncInv, Unrepaired, Busy, Path
  <2>3. \A e \in CommitEntry : Norm(sys'[e]) = Norm(vec1'[e[2]])
    BY <1>1, <1>3, <2>2 DEF Settled
  <2>4. VecOK'
    BY <1>3 DEF VecInv, Busy, Path
  <2>5. \A n \in Calls' : ddvec'[n] \in CommitEntry
    BY <2>4 DEF VecOK, Calls, CommitEntry, Entry
  <2>6. OldInv'
    BY <1>3, <2>3, <2>5 DEF OldInv, Old, Key, Norm
  <2>7. Kept'
    BY <2>3 DEF Kept, Norm
  <2> QED
    BY <1>1, <1>3, <2>6, <2>7
<1> QED
  BY <1>2, <1>3 DEF Start

LEMMA SyncNext ==
  BoundInv /\ CheckedInv /\ VecInv /\ NewInv /\ SyncInv /\ [Next]_vars => SyncInv'
PROOF
<1> SUFFICES ASSUME BoundInv, CheckedInv, VecInv, NewInv, SyncInv, [Next]_vars PROVE SyncInv'
  OBVIOUS
<1>1. ASSUME Unrepaired' PROVE SyncInv'
  BY <1>1 DEF SyncInv
<1>2. ASSUME NEW k \in Keys, NEW v \in Vals, Change(k, v) PROVE SyncInv'
  BY <1>2, SyncQuiet DEF Change, Busy, Path, Unrepaired
<1>3. CASE Discard \/ Rm \/ InitDb
  BY <1>3, SyncQuiet DEF Discard, Rm, InitDb, Busy, Path, Unrepaired
<1>4. ASSUME NEW o \in {"commit", "validate"}, Start(o) PROVE SyncInv'
  BY <1>4, SyncStart, VecNext
<1>5. ASSUME Validation \/ Apply \/ Rollback, ~Unrepaired' PROVE SyncInv'
  <2>1. pc \in Busy
    BY <1>5 DEF Validation, BeginHooks, GenericValidate, GenericDone, ValidateDb, ValidateDone,
                CompleteHooks, Apply, CommitStep, CommitDone, DeleteStep, DeleteDone, SetStep,
                SetDone, Rollback, RollbackStep, RollbackDone, UndeleteStep, UndeleteDone,
                UnsetStep, UnsetDone, ReaddStep, ReaddDone, Busy, Path
  <2>2. faults \subseteq faults'
    BY <1>5 DEF Validation, BeginHooks, GenericValidate, GenericDone, ValidateDb, ValidateDone,
                CompleteHooks, Apply, CommitStep, CommitDone, DeleteStep, DeleteDone, SetStep,
                SetDone, Rollback, RollbackStep, RollbackDone, UndeleteStep, UndeleteDone,
                UnsetStep, UnsetDone, ReaddStep, ReaddDone, Backward
  <2>3. SyncHyp
    BY <1>5, <2>1, <2>2, SyncHypHolds DEF Unrepaired
  <2>4. CASE CommitStep \/ DeleteStep \/ SetStep
    BY <2>3, <2>4, SyncApply DEF SyncInv
  <2>5. CASE RollbackStep \/ UnsetStep \/ ReaddStep \/ UndeleteStep
    BY <1>5, <2>3, <2>5, SyncRollback DEF SyncInv
  <2>6. CASE \/ Validation \/ CommitDone \/ DeleteDone \/ SetDone \/ RollbackDone
             \/ UndeleteDone \/ UnsetDone \/ ReaddDone
    BY <2>3, <2>6, SyncPhase
  <2> QED
    BY <1>5, <2>4, <2>5, <2>6 DEF Apply, Rollback
<1>6. ASSUME Copy, ~Unrepaired' PROVE SyncInv'
  <2>1. pc = "copy" /\ faults \subseteq faults'
    BY <1>6 DEF Copy
  <2>2. SyncHyp /\ CandidateIsVec2
    BY <1>6, <2>1, SyncHypHolds DEF Unrepaired, Busy, Path, CheckedInv, PathInv
  <2> QED
    BY <1>6, <2>2, SyncCopy
<1>7. CASE CopyBack \/ EndHooks \/ AbortHooks
  <2>1. pc \notin Busy /\ pc' \notin Busy /\ UNCHANGED <<sys, running>> /\ faults \subseteq faults'
    BY <1>7 DEF CopyBack, EndHooks, AbortHooks, dbs, Busy, Path
  <2> QED
    BY <2>1, SyncQuiet DEF Unrepaired
<1>8. CASE UNCHANGED vars
  <2>1. CASE pc \in Busy /\ ~Unrepaired
    <3>1. OldInv' /\ Kept' /\ running' = vec1'
      BY <1>8, <2>1, OldPrime, KeptPrime DEF vars, SyncInv, OldInv, Old
    <3> QED
      BY <1>8, <2>1, <3>1 DEF vars, SyncInv
  <2>2. CASE pc \notin Busy \/ Unrepaired
    BY <1>8, <2>2, SyncQuiet DEF vars, SyncInv, Unrepaired
  <2> QED
    BY <2>1, <2>2
<1> QED
  BY <1>1, <1>2, <1>3, <1>4, <1>5, <1>6, <1>7, <1>8 DEF Next, Client, Backend, Finish

------------------------------------------------------------------------------
(* Theorems. *)

CommitInv == BoundInv /\ CheckedInv /\ VecInv /\ NewInv /\ SyncInv

LEMMA CommitInit == Init => CommitInv
PROOF
<1> SUFFICES ASSUME Init PROVE CommitInv
  OBVIOUS
<1>1. pc = "idle" /\ pc \notin Busy /\ pc \notin Working
  BY DEF Init, Busy, Path, Working
<1>2. VecInv /\ NewInv
  BY <1>1 DEF VecInv, NewInv, Working
<1>3. Settled
  BY DEF Init, Settled
<1> QED
  BY <1>1, <1>2, <1>3, BoundInit, CheckedInit DEF CommitInv, SyncInv

LEMMA CommitInvNext == CommitInv /\ [Next]_vars => CommitInv'
  BY BoundNext, CheckedNext, VecNext, NewNext, SyncNext DEF CommitInv

(***************************************************************************)
(* Between messages the system holds what the running database says, in    *)
(* all three commit orders and whatever hook, check, callback or copy      *)
(* failed, unless a rollback callback failed, the delete loop was undone   *)
(* by deleting, or running was cut short by its copy.                      *)
(***************************************************************************)
THEOREM SystemFollowsRunning == Spec => []InSync
<1>1. CommitInv => InSync
  BY DEF CommitInv, SyncInv, InSync, Settled, Busy, Path
<1> QED
  BY <1>1, CommitInit, CommitInvNext, PTL DEF Spec

(***************************************************************************)
(* running is written only when every plugin has been given the new values *)
(* and what it is given is those values, with defaults.                    *)
(***************************************************************************)
THEOREM CopyComesLast == Spec => RunningFollowsSystem
<1> DEFINE Follows ==
      running' # running =>
        /\ \A n \in DOMAIN ddvec :
             "commit" \in DepType[ddvec[n][1]] => sys[ddvec[n]] = vec2[ddvec[n][2]]
        /\ running' \in Database => \A k \in Keys : Norm(running'[k]) = Norm(vec2[k])
<1>1. CommitInv /\ [Next]_vars => [Follows]_vars
  <2> SUFFICES ASSUME CommitInv, [Next]_vars, running' # running PROVE Follows
    OBVIOUS
  <2>1. Copy
    BY DEF Next, Client, Change, Discard, Rm, InitDb, Start, Backend, Validation, BeginHooks,
           GenericValidate, GenericDone, ValidateDb, ValidateDone, CompleteHooks, Apply,
           CommitStep, CommitDone, DeleteStep, DeleteDone, SetStep, SetDone, Rollback,
           RollbackStep, RollbackDone, UndeleteStep, UndeleteDone, UnsetStep, UnsetDone,
           ReaddStep, ReaddDone, Finish, CopyBack, EndHooks, AbortHooks, dbs, vars
  <2>2. TypeOK /\ NewInv /\ CandidateIsVec2 /\ pc = "copy" /\ candidate \in Database
    BY <2>1 DEF CommitInv, BoundInv, Whole, CheckedInv, PathInv, Path, Copy
  <2>3. \A n \in DOMAIN ddvec :
          "commit" \in DepType[ddvec[n][1]] => sys[ddvec[n]] = vec2[ddvec[n][2]]
    BY <2>2 DEF NewInv, New, Key, Calls, TypeOK
  <2>4. PICK r \in FileCp(candidate, running) : running' = r.db
    BY <2>1 DEF Copy
  <2>5. running' \in {candidate, running, Torn}
    BY <2>2, <2>4, FileCpType DEF TypeOK
  <2>6. running' \in Database => \A k \in Keys : Norm(running'[k]) = Norm(vec2[k])
    BY <2>2, <2>5, CandidateGiven, ConstantsOK
  <2> QED
    BY <2>3, <2>6
<1>2. RunningFollowsSystem <=> [][Follows]_vars
  BY DEF RunningFollowsSystem
<1> QED
  BY <1>1, <1>2, CommitInit, CommitInvNext, PTL DEF Spec

(***************************************************************************)
(* A plugin is given a new value only when the dependencies of a lower row *)
(* have theirs, and in orders 1 and 2 when all deletions are done.         *)
(***************************************************************************)
THEOREM PrioritiesRespected == Spec => PriorityOrder
<1> DEFINE Ordered ==
      \A e \in CommitEntry : sys'[e] # sys[e] /\ pc \in {"commit", "set"} =>
        \A n \in DOMAIN ddvec :
          LET d == ddvec[n]
          IN /\ "commit" \in DepType[d[1]]
             /\ DepRow[d[1]] < DepRow[e[1]] \/ (pc = "set" /\ DiffOp(d[2]) = "DELETE")
             => sys[d] = vec2[d[2]]
<1>1. CommitInv /\ [Next]_vars => [Ordered]_vars
  <2> SUFFICES ASSUME CommitInv, [Next]_vars, NEW e \in CommitEntry, sys'[e] # sys[e],
                      pc \in {"commit", "set"}, NEW n \in DOMAIN ddvec,
                      "commit" \in DepType[ddvec[n][1]],
                      \/ DepRow[ddvec[n][1]] < DepRow[e[1]]
                      \/ pc = "set" /\ DiffOp(ddvec[n][2]) = "DELETE"
               PROVE  sys[ddvec[n]] = vec2[ddvec[n][2]]
    OBVIOUS
  <2>1. CommitStep \/ SetStep
    BY DEF Next, Client, Change, Discard, Rm, InitDb, Start, Backend, Validation, BeginHooks,
           GenericValidate, GenericDone, ValidateDb, ValidateDone, CompleteHooks, Apply,
           CommitDone, DeleteStep, DeleteDone, SetDone, Rollback,
           RollbackStep, RollbackDone, UndeleteStep, UndeleteDone, UnsetStep, UnsetDone,
           ReaddStep, ReaddDone, Finish, Copy, CopyBack, EndHooks, AbortHooks, dbs, vars
  <2>2. TypeOK /\ InBounds /\ VecOK /\ NewInv
    BY DEF CommitInv, BoundInv, VecInv, Busy, Path
  <2>3. n \in Calls /\ n \in 1..Len(ddvec) /\ i \in 1..Len(ddvec)
    BY <2>1, <2>2 DEF Calls, TypeOK, InBounds, CommitStep, SetStep
  <2>4. e = ddvec[i]
    <3>1. PICK o : sys' = Called(ddvec[i], o, vec2) /\ ~Skipped(ddvec[i], o)
      BY <2>1 DEF CommitStep, SetStep, Forward
    <3>2. i \in Calls
      BY <2>3, <3>1 DEF Skipped, Calls
    <3> QED
      BY <2>2, <3>1, <3>2, CallEffect
  <2>5. CASE pc = "set" /\ DiffOp(ddvec[n][2]) = "DELETE"
    BY <2>2, <2>3, <2>5 DEF NewInv, New, Key, Gone
  <2>6. CASE DepRow[ddvec[n][1]] < DepRow[e[1]]
    <3>1. DepRow[ddvec[n][1]] \in Nat /\ DepRow[e[1]] \in Nat
      BY <2>2, <2>3, <2>4, ConstantsOK DEF VecOK, Entry
    <3>2. ~(i < n) /\ n # i
      BY <2>2, <2>3, <2>4, <2>6, <3>1 DEF VecOK
    <3> QED
      BY <2>2, <2>3, <3>2 DEF NewInv, New, Key
  <2> QED
    BY <2>5, <2>6
<1>2. PriorityOrder <=> [][Ordered]_vars
  BY DEF PriorityOrder
<1> QED
  BY <1>1, <1>2, CommitInit, CommitInvNext, PTL DEF Spec

------------------------------------------------------------------------------
(***************************************************************************)
(* candidate_commit and candidate_validate implement AtomicCommit: every   *)
(* step of the transaction is a step of the promise, or invisible.         *)
(***************************************************************************)

(* The refinement mapping, by name. *)

StoreNow == [k \in Keys |-> IF running \in Database THEN Norm(running[k]) ELSE NoVal]

SystemNow == [e \in CommitEntry |-> Norm(IF pc \in Changing THEN vec1[e[2]] ELSE sys[e])]

PhaseNow == IF pc = "idle" THEN "idle"
            ELSE IF pc \in {"copyback", "end"} THEN "done" ELSE "open"

LostNow == Unrepaired \/ "copyback" \in faults

LEMMA NormType == ASSUME NEW v \in Vals PROVE Norm(v) \in Vals
  BY FillOK DEF Norm, Vals

\* The mapping gives states of the right type.
LEMMA MappingType ==
  ASSUME TypeOK
  PROVE  /\ StoreNow \in [Keys -> Vals]
         /\ SystemNow \in [CommitEntry -> Vals]
         /\ PhaseNow \in {"idle", "open", "done"}
         /\ LostNow \in BOOLEAN
PROOF
<1>1. running \in Database => \A k \in Keys : Norm(running[k]) \in Vals
  BY NormType DEF Database
<1>2. \A e \in CommitEntry : vec1[e[2]] \in Vals /\ sys[e] \in Vals
  BY DEF TypeOK, Database, CommitEntry, Entry
<1>3. \A e \in CommitEntry : Norm(IF pc \in Changing THEN vec1[e[2]] ELSE sys[e]) \in Vals
  BY <1>2, NormType
<1>4. StoreNow \in [Keys -> Vals]
  BY <1>1 DEF StoreNow, Vals
<1>5. SystemNow \in [CommitEntry -> Vals]
  BY <1>3 DEF SystemNow
<1> QED
  BY <1>4, <1>5 DEF PhaseNow, LostNow, Unrepaired

\* Only a commit calls the plugins' commit callbacks and copies to running.
CommitOnly == pc \in Changing => op = "commit"

LEMMA CommitOnlyNext == CommitOnly /\ [Next]_vars => CommitOnly'
PROOF
<1> SUFFICES ASSUME CommitOnly, [Next]_vars PROVE CommitOnly'
  OBVIOUS
<1> USE DEF CommitOnly, Changing
<1>1. CASE Client
  BY <1>1 DEF Client, Change, Discard, Rm, InitDb, Start
<1>2. CASE Validation
  BY <1>2 DEF Validation, BeginHooks, GenericValidate, GenericDone, ValidateDb, ValidateDone,
              CompleteHooks
<1>3. CASE Apply \/ Rollback
  <2>1. pc \in Changing /\ op' = op
    BY <1>3 DEF Apply, CommitStep, CommitDone, DeleteStep, DeleteDone, SetStep, SetDone,
                Rollback, RollbackStep, RollbackDone, UndeleteStep, UndeleteDone, UnsetStep,
                UnsetDone, ReaddStep, ReaddDone, transaction
  <2> QED
    BY <2>1
<1>4. CASE Finish
  BY <1>4 DEF Finish, Copy, CopyBack, EndHooks, AbortHooks, transaction
<1>5. CASE UNCHANGED vars
  BY <1>5 DEF vars
<1> QED
  BY <1>1, <1>2, <1>3, <1>4, <1>5 DEF Next, Backend

------------------------------------------------------------------------------
(* The visible state where nothing visible happens. *)

\* In the phases before and after the calls the system is what running says.
LEMMA SystemView ==
  ASSUME SyncInv, BoundInv, VecInv, ~Unrepaired
  PROVE  SystemNow = [e \in CommitEntry |-> Norm(running[e[2]])]
PROOF
<1>1. CASE pc \in Changing
  <2>1. running = vec1
    BY <1>1 DEF SyncInv, Busy, Path, Changing
  <2> QED
    BY <1>1, <2>1 DEF SystemNow
<1>2. CASE pc \notin Changing /\ pc \in Busy
  <2>1. SyncHyp
    BY <1>2, SyncHypHolds
  <2>2. \A n \in Calls : Old(n)
    BY <1>2, <2>1 DEF SyncHyp, OldInv, Changing, Busy, Path
  <2>3. Settled
    BY <2>1, <2>2, BackToOld DEF SyncHyp
  <2> QED
    BY <1>2, <2>3 DEF SystemNow, Settled
<1>3. CASE pc \notin Changing /\ pc \notin Busy
  BY <1>3 DEF SyncInv, Settled, SystemNow
<1> QED
  BY <1>1, <1>2, <1>3

\* So as long as running is not written, neither side is seen to change.
LEMMA Unseen ==
  ASSUME CommitInv, CommitInv', ~Unrepaired, ~Unrepaired', running' = running
  PROVE  StoreNow' = StoreNow /\ SystemNow' = SystemNow
PROOF
<1>1. StoreNow' = StoreNow
  BY DEF StoreNow, Norm
<1>2. SystemNow = [e \in CommitEntry |-> Norm(running[e[2]])]
  BY SystemView DEF CommitInv
<1>3. (SyncInv /\ BoundInv /\ VecInv /\ ~Unrepaired =>
        SystemNow = [e \in CommitEntry |-> Norm(running[e[2]])])'
  BY SystemView, PTL
<1>4. SystemNow' = [e \in CommitEntry |-> Norm(running'[e[2]])]
  BY <1>3 DEF CommitInv, Norm
<1> QED
  BY <1>1, <1>2, <1>4

\* Faults are never forgotten, and none happens between messages.
LEMMA FaultsGrow ==
  ASSUME [Next]_vars PROVE faults \subseteq faults' /\ (pc = "idle" => faults' = faults)
PROOF
<1>1. CASE Client \/ Validation \/ Apply
  BY <1>1 DEF Client, Change, Discard, Rm, InitDb, Start, Validation, BeginHooks, GenericValidate,
              GenericDone, ValidateDb, ValidateDone, CompleteHooks, Apply, CommitStep, CommitDone,
              DeleteStep, DeleteDone, SetStep, SetDone
<1>2. CASE Rollback
  BY <1>2 DEF Rollback, RollbackStep, RollbackDone, UndeleteStep, UndeleteDone, UnsetStep,
              UnsetDone, ReaddStep, ReaddDone, Backward
<1>3. CASE Finish
  BY <1>3 DEF Finish, Copy, CopyBack, EndHooks, AbortHooks
<1>4. CASE UNCHANGED vars
  BY <1>4 DEF vars
<1> QED
  BY <1>1, <1>2, <1>3, <1>4 DEF Next, Backend

------------------------------------------------------------------------------
(* One step. *)

\* After a failure that is not repaired anything goes.
LEMMA LoseStep ==
  ASSUME CommitInv, CommitInv', [Next]_vars, LostNow'
  PROVE  Atomic!Lose
PROOF
<1>1. TypeOK /\ TypeOK'
  BY DEF CommitInv, BoundInv
<1>2. PhaseNow # "idle" \/ LostNow
  BY FaultsGrow DEF PhaseNow, LostNow, Unrepaired
<1>3. (TypeOK => /\ StoreNow \in [Keys -> Vals]
                 /\ SystemNow \in [CommitEntry -> Vals]
                 /\ PhaseNow \in {"idle", "open", "done"})'
  BY MappingType, PTL
<1>4. /\ StoreNow' \in [Keys -> Vals]
      /\ SystemNow' \in [CommitEntry -> Vals]
      /\ PhaseNow' \in {"idle", "open", "done"}
  BY <1>1, <1>3
<1>5. op' \in {"commit", "validate"} /\ reply' \in {"none", "ok", "err"}
  BY <1>1 DEF TypeOK
<1>6. LostNow' = TRUE
  OBVIOUS
<1> QED
  BY <1>2, <1>4, <1>5, <1>6
     DEF Atomic!Lose, Atomic!Config, StoreNow, SystemNow, PhaseNow, LostNow

\* Nothing was lost, and running stays: what is left to see is the answer.
Calm == ~LostNow /\ ~LostNow' /\ StoreNow' = StoreNow /\ SystemNow' = SystemNow

LEMMA StutterStep ==
  ASSUME Calm, PhaseNow' = PhaseNow, op' = op, reply' = reply
  PROVE  UNCHANGED Atomic!avars
PROOF
<1>1. LostNow' = LostNow
  BY Zenon DEF Calm, LostNow
<1> QED
  BY <1>1 DEF Calm, Atomic!avars, StoreNow, SystemNow, PhaseNow, LostNow

LEMMA RequestStep ==
  ASSUME Calm, NEW o, PhaseNow = "idle", PhaseNow' = "open", op' = o, reply' = "none"
  PROVE  Atomic!Request(o)
PROOF
<1>1. LostNow' = LostNow
  BY Zenon DEF Calm, LostNow
<1> QED
  BY <1>1 DEF Calm, Atomic!Request, StoreNow, SystemNow, PhaseNow, LostNow

LEMMA AnswerStep ==
  ASSUME Calm, NEW r, PhaseNow' = "idle", op' = op, reply' = r,
         \/ PhaseNow = "done" /\ r = "ok"
         \/ PhaseNow = "open" /\ (r = "err" \/ op = "validate")
  PROVE  Atomic!Answer(r)
PROOF
<1>1. LostNow' = LostNow
  BY Zenon DEF Calm, LostNow
<1> QED
  BY <1>1 DEF Calm, Atomic!Answer, StoreNow, SystemNow, PhaseNow, LostNow

\* The copy to running is the commit point.
LEMMA SwitchStep ==
  ASSUME CommitInv, CommitInv', CommitOnly, Copy, ~LostNow, ~LostNow', pc' = "copyback"
  PROVE  \E c \in Atomic!Config : Atomic!Switch(c)
PROOF
<1>1. PICK r \in FileCp(candidate, running) :
        /\ running' = r.db /\ faults' = faults \cup r.fault
        /\ r.ok
  BY DEF Copy
<1>2. "read" \notin r.fault
  BY <1>1 DEF LostNow, Unrepaired
<1>3. running' = candidate
  BY <1>1, <1>2, FileCpDone
<1>4. pc = "copy" /\ op = "commit" /\ op' = op /\ reply' = reply /\ candidate \in Database
  BY DEF Copy, transaction, CommitInv, BoundInv, Whole, Path, CommitOnly, Changing
<1>5. Settled'
  BY <1>3 DEF CommitInv, SyncInv, LostNow, Busy, Path
<1>6. StoreNow' = [k \in Keys |-> Norm(running'[k])]
  BY <1>3, <1>4 DEF StoreNow, Norm
<1>7. StoreNow' \in [Keys -> Vals]
  BY <1>3, <1>4, <1>6, NormType DEF Database
<1>8. \A e \in CommitEntry : e[2] \in Keys
  BY DEF CommitEntry, Entry
<1>9. SystemNow' = [e \in CommitEntry |-> Norm(sys'[e])]
  BY <1>3 DEF SystemNow, Changing, Norm
<1>10. SystemNow' = [e \in CommitEntry |-> StoreNow'[e[2]]]
  BY <1>5, <1>6, <1>8, <1>9 DEF Settled, Norm
<1>11. PhaseNow = "open" /\ PhaseNow' = "done"
  BY <1>3, <1>4 DEF PhaseNow
<1>12. LostNow' = LostNow
  BY Zenon DEF LostNow
<1>13. Atomic!Switch(StoreNow')
  BY <1>4, <1>10, <1>11, <1>12
     DEF Atomic!Switch, Atomic!Image, StoreNow, SystemNow, PhaseNow, LostNow
<1> QED
  BY <1>7, <1>13 DEF Atomic!Config

LEMMA CalmStep ==
  ASSUME CommitInv, CommitInv', ~LostNow, ~LostNow', running' = running
  PROVE  Calm
  BY Unseen DEF Calm, LostNow

LEMMA RefinementStep ==
  CommitInv /\ CommitInv' /\ CommitOnly /\ [Next]_vars => [Atomic!ANext]_(Atomic!avars)
PROOF
<1> SUFFICES ASSUME CommitInv, CommitInv', CommitOnly, [Next]_vars
             PROVE  Atomic!ANext \/ UNCHANGED Atomic!avars
  OBVIOUS
<1>1. CASE LostNow'
  BY <1>1, LoseStep DEF Atomic!ANext
<1>2. CASE ~LostNow'
  <2>1. ~LostNow
    BY <1>2, FaultsGrow DEF LostNow, Unrepaired
  <2>2. ASSUME running' = running, PhaseNow' = PhaseNow, op' = op, reply' = reply
        PROVE  UNCHANGED Atomic!avars
    BY <1>2, <2>1, <2>2, CalmStep, StutterStep
  <2>3. ASSUME NEW k \in Keys, NEW v \in Vals, Change(k, v) PROVE UNCHANGED Atomic!avars
    BY <2>2, <2>3 DEF Change, transaction, PhaseNow
  <2>4. CASE Discard \/ Rm \/ InitDb
    BY <2>2, <2>4 DEF Discard, Rm, InitDb, transaction, PhaseNow
  <2>5. ASSUME NEW o \in {"commit", "validate"}, Start(o) PROVE Atomic!ANext
    <3>1. /\ PhaseNow = "idle" /\ PhaseNow' = "open" /\ op' = o /\ reply' = "none"
          /\ running' = running
      BY <2>5 DEF Start, dbs, PhaseNow
    <3>2. Atomic!Request(o)
      BY <1>2, <2>1, <3>1, CalmStep, RequestStep
    <3> QED
      BY <3>2 DEF Atomic!ANext
  <2>6. CASE Validation
    <3>1. running' = running /\ op' = op /\ PhaseNow = "open"
      BY <2>6 DEF Validation, BeginHooks, GenericValidate, GenericDone, ValidateDb, ValidateDone,
                  CompleteHooks, dbs, transaction, PhaseNow
    <3>2. \/ PhaseNow' = "open" /\ reply' = reply
          \/ PhaseNow' = "idle" /\ reply' = "ok" /\ op = "validate"
      BY <2>6 DEF Validation, BeginHooks, GenericValidate, GenericDone, ValidateDb, ValidateDone,
                  CompleteHooks, PhaseNow
    <3>3. CASE PhaseNow' = "idle" /\ reply' = "ok" /\ op = "validate"
      <4>1. Atomic!Answer("ok")
        BY <1>2, <2>1, <3>1, <3>3, CalmStep, AnswerStep
      <4> QED
        BY <4>1 DEF Atomic!ANext
    <3> QED
      BY <2>2, <3>1, <3>2, <3>3
  <2>7. CASE Apply \/ Rollback
    <3>1. running' = running /\ op' = op /\ reply' = reply
      BY <2>7 DEF Apply, CommitStep, CommitDone, DeleteStep, DeleteDone, SetStep, SetDone,
                  Rollback, RollbackStep, RollbackDone, UndeleteStep, UndeleteDone, UnsetStep,
                  UnsetDone, ReaddStep, ReaddDone, dbs, transaction
    <3>2. PhaseNow = "open" /\ PhaseNow' = "open"
      BY <2>7 DEF Apply, CommitStep, CommitDone, DeleteStep, DeleteDone, SetStep, SetDone,
                  Rollback, RollbackStep, RollbackDone, UndeleteStep, UndeleteDone, UnsetStep,
                  UnsetDone, ReaddStep, ReaddDone, Forward, PhaseNow
    <3> QED
      BY <2>2, <3>1, <3>2
  <2>8. CASE Copy
    <3>1. CASE pc' = "copyback"
      BY <1>2, <2>1, <2>8, <3>1, SwitchStep DEF Atomic!ANext
    <3>2. CASE pc' # "copyback"
      <4>1. PICK r \in FileCp(candidate, running) :
              /\ running' = r.db /\ faults' = faults \cup r.fault
              /\ ~r.ok /\ pc' \in {"rollback", "unset"}
        BY <2>8, <3>2 DEF Copy
      <4>2. "write" \notin r.fault
        BY <1>2, <4>1 DEF LostNow, Unrepaired
      <4>3. running' = running
        BY <4>1, <4>2, FileCpFails
      <4>4. op' = op /\ reply' = reply /\ PhaseNow' = PhaseNow
        BY <2>8, <4>1 DEF Copy, transaction, PhaseNow
      <4> QED
        BY <2>2, <4>3, <4>4
    <3> QED
      BY <3>1, <3>2
  <2>9. CASE CopyBack
    <3>1. pc' = "end"
      BY <1>2, <2>9 DEF CopyBack, LostNow
    <3> QED
      BY <2>2, <2>9, <3>1 DEF CopyBack, transaction, PhaseNow
  <2>10. CASE EndHooks
    <3>1. /\ PhaseNow = "done" /\ PhaseNow' = "idle" /\ op' = op /\ reply' = "ok"
          /\ running' = running
      BY <2>10 DEF EndHooks, dbs, PhaseNow
    <3>2. Atomic!Answer("ok")
      BY <1>2, <2>1, <3>1, CalmStep, AnswerStep
    <3> QED
      BY <3>2 DEF Atomic!ANext
  <2>11. CASE AbortHooks
    <3>1. /\ PhaseNow = "open" /\ PhaseNow' = "idle" /\ op' = op /\ reply' = "err"
          /\ running' = running
      BY <2>11 DEF AbortHooks, dbs, PhaseNow
    <3>2. Atomic!Answer("err")
      BY <1>2, <2>1, <3>1, CalmStep, AnswerStep
    <3> QED
      BY <3>2 DEF Atomic!ANext
  <2>12. CASE UNCHANGED vars
    BY <2>2, <2>12 DEF vars, PhaseNow
  <2> QED
    BY <2>3, <2>4, <2>5, <2>6, <2>7, <2>8, <2>9, <2>10, <2>11, <2>12
       DEF Next, Client, Backend, Finish
<1> QED
  BY <1>1, <1>2

(***************************************************************************)
(* candidate_commit and candidate_validate implement the atomic commit:    *)
(* seen from outside, the stored configuration and the system change       *)
(* together and in one step, the copy to running, or not at all, for every *)
(* commit order and every place where a hook, a check or a callback fails. *)
(***************************************************************************)
THEOREM CommitIsAtomic == Spec => ImplementsAtomicCommit
<1>1. Init => Atomic!AInit
  <2> SUFFICES ASSUME Init PROVE Atomic!AInit
    OBVIOUS
  <2>1. /\ running \in Database /\ pc = "idle" /\ faults = {}
        /\ sys = [e \in CommitEntry |-> running[e[2]]]
    BY DEF Init
  <2>2. StoreNow = [k \in Keys |-> Norm(running[k])]
    BY <2>1 DEF StoreNow
  <2>3. StoreNow \in [Keys -> Vals]
    BY <2>1, <2>2, NormType DEF Database
  <2>4. \A e \in CommitEntry : e[2] \in Keys
    BY DEF CommitEntry, Entry
  <2>5. SystemNow = [e \in CommitEntry |-> StoreNow[e[2]]]
    BY <2>1, <2>2, <2>4 DEF SystemNow, Changing
  <2>6. PhaseNow = "idle" /\ LostNow = FALSE /\ op = "commit" /\ reply = "none"
    BY <2>1 DEF Init, PhaseNow, LostNow, Unrepaired
  <2> QED
    BY <2>3, <2>5, <2>6
       DEF Atomic!AInit, Atomic!Config, Atomic!Image, StoreNow, SystemNow, PhaseNow, LostNow
<1>2. Init => CommitOnly
  BY DEF Init, CommitOnly, Changing
<1> QED
  BY <1>1, <1>2, CommitInit, CommitInvNext, CommitOnlyNext, RefinementStep, PTL
     DEF Spec, ImplementsAtomicCommit, Atomic!ASpec
===============================================================================
