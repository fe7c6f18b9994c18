--------------------------- MODULE CandidateCommit ---------------------------
(***************************************************************************)
(* The commit and validate transactions of the configuration backend:      *)
(* candidate_commit() and candidate_validate() of apps/config/             *)
(* config_commit.c, with the plugin hooks of config_plugin.c around them.  *)
(*                                                                         *)
(* The backend is one process and runs a transaction to its end before it  *)
(* serves the next message.  A transaction is still many steps: one call   *)
(* into plugin code per dependency, two file copies, and a rollback whose  *)
(* shape depends on the option CLICON_COMMIT_ORDER.  Each call that can    *)
(* fail is one step here, so that every point of failure is reached.       *)
(*                                                                         *)
(* A database is a function from keys to values; sys records, for every    *)
(* dependency and key, the value the plugin was last told to put in the    *)
(* managed system.                                                         *)
(***************************************************************************)
EXTENDS Naturals, Sequences, FiniteSets

CONSTANTS
  Keys,         \* the keys of the database specification
  KeyPos,       \* KeyPos[k]: the place of k in the dbspec list
  Values,       \* the values (variable vectors) a key may hold
  NoVal,        \* the key is not in the database
  NoFile,       \* the database file does not exist
  Torn,         \* the database file was cut short by a failed copy
  Fill,         \* Fill[v]: v with the default values of the yang spec added
  Valid,        \* the values that pass the mandatory, range and regexp checks
  Deps,         \* the registered dependencies (dbdep_t)
  DepKeys,      \* DepKeys[d]: the keys that d matches
  DepRow,       \* DepRow[d]: priority, the lower the earlier
  DepType,      \* DepType[d]: a subset of {"validate", "commit"}
  NPlugins,     \* number of loaded plugins; each has all four hooks
  CommitOrder,  \* CLICON_COMMIT_ORDER: 0, 1 or 2
  CopyFaults    \* how file_cp may go wrong: a subset of FaultKinds

(***************************************************************************)
(* file_cp can fail before it opens its target, or in the middle of the    *)
(* copy when the target is already truncated.  A read error ends its loop  *)
(* like end of file does: the copy is cut short and reported as done.      *)
(***************************************************************************)
FaultKinds == {"open", "write", "read"}

Vals == Values \cup {NoVal}
Database == [Keys -> Vals]
DbFile == Database \cup {NoFile, Torn}
Plugin == 1..NPlugins
Entry == Deps \X Keys

\* The (dependency, key) pairs whose plugin keeps the system up to date.
CommitEntry == {e \in Entry : e[2] \in DepKeys[e[1]] /\ "commit" \in DepType[e[1]]}

ASSUME ConstantsOK ==
  /\ IsFiniteSet(Keys) /\ IsFiniteSet(Deps)
  /\ KeyPos \in [Keys -> Nat]
  /\ \A k, l \in Keys : KeyPos[k] = KeyPos[l] => k = l
  /\ NoVal \notin Values
  /\ NoFile \notin Database /\ Torn \notin Database /\ NoFile # Torn
  /\ DepKeys \in [Deps -> SUBSET Keys]
  /\ DepRow \in [Deps -> Nat]
  /\ DepType \in [Deps -> SUBSET {"validate", "commit"}]
  /\ Valid \subseteq Values
  /\ NPlugins \in Nat
  /\ CommitOrder \in 0..2
  /\ CopyFaults \subseteq FaultKinds

\* The default values are added once: filling a filled vector changes nothing.
ASSUME FillOK ==
  /\ Fill \in [Values -> Values]
  /\ \A v \in Values : Fill[Fill[v]] = Fill[v]

VARIABLES
  running,    \* running_db, the configuration the system is meant to have
  candidate,  \* candidate_db, the configuration being edited
  sys,        \* sys[e]: what the plugin of e last made of the system
  pc,         \* the place in the transaction; "idle" between messages
  op,         \* the message served: "commit" or "validate"
  df,         \* keys that differ, in dbspec order (struct dbdiff)
  vec1, vec2, \* the two databases as db_diff read them (dfe_vec1, dfe_vec2)
  ddvec,      \* the commit vector: sequence of entries (dbdep_dd_t)
  i,          \* index of the loop that goes forward in the transaction
  j,          \* index of the rollback loops
  hook,       \* hook[p]: the last transaction hook called in plugin p
  reply,      \* the answer to the last message
  before,     \* history: running at the start of a transaction not answered ok
  faults      \* history: what went wrong that the code does not repair

vars == <<running, candidate, sys, pc, op, df, vec1, vec2, ddvec, i, j, hook,
          reply, before, faults>>
dbs == <<running, candidate>>
transaction == <<op, df, vec1, vec2, ddvec, before>>

Phases == {"idle", "begin", "generic", "validate", "complete", "commit",
           "rollback", "delete", "undelete", "set", "unset", "readd",
           "copy", "copyback", "end", "abort"}
Hooks == {"none", "begin", "complete", "end", "abort"}
FaultHistory == {"write", "read", "copyback", "callback", "undelete", "end"}

TypeOK ==
  /\ running \in DbFile /\ candidate \in DbFile
  /\ sys \in [CommitEntry -> Vals]
  /\ pc \in Phases
  /\ op \in {"commit", "validate"}
  /\ df \in Seq(Keys)
  /\ vec1 \in Database /\ vec2 \in Database
  /\ ddvec \in Seq(Entry)
  /\ i \in Nat /\ j \in Nat
  /\ hook \in [Plugin -> Hooks]
  /\ reply \in {"none", "ok", "err"}
  /\ before \in DbFile
  /\ faults \subseteq FaultHistory

(***************************************************************************)
(* No loop of the transaction reads an entry outside the commit vector or  *)
(* the difference (dvec[i] and dfvec[i] in C), whichever loop it was       *)
(* entered from and wherever that one stopped.                             *)
(***************************************************************************)
InBounds ==
  /\ pc \in {"generic", "validate", "commit", "set"} => i >= 1
  /\ pc = "delete" => i <= Len(ddvec)
  /\ pc \in {"rollback", "unset"} => j <= Len(ddvec)
  /\ pc \in {"undelete", "readd"} => j >= 1

Empty == [k \in Keys |-> NoVal]

\* The value passes the checks of the specification and has its defaults.
InSpec(v) == v = NoVal \/ (v \in Valid /\ Fill[v] = v)

\* The backend has started: system, running and candidate agree.
Init ==
  /\ running \in {db \in Database : \A k \in Keys : InSpec(db[k])}
  /\ candidate = running
  /\ sys = [e \in CommitEntry |-> running[e[2]]]
  /\ pc = "idle"
  /\ op = "commit"
  /\ df = <<>> /\ ddvec = <<>>
  /\ vec1 = Empty /\ vec2 = Empty /\ before = running
  /\ i = 0 /\ j = 0
  /\ hook = [p \in Plugin |-> "none"]
  /\ reply = "none"
  /\ faults = {}

\* db_diff_free and dbdep_commitvec_free: the local state is gone.
Free ==
  /\ df' = <<>> /\ ddvec' = <<>>
  /\ vec1' = Empty /\ vec2' = Empty
  /\ i' = 0 /\ j' = 0

------------------------------------------------------------------------------
(* Files. *)

\* The copy is complete when an error is seen, and reported as failed.
MutantFileCp(src, dst) ==
  {[db |-> src, ok |-> TRUE, fault |-> {}], [db |-> src, ok |-> FALSE, fault |-> {}]}

\* file_cp(src, dst): what becomes of dst, what it returns, what it broke.
FileCp(src, dst) ==
  IF src = NoFile THEN {[db |-> dst, ok |-> FALSE, fault |-> {}]}
  ELSE {[db |-> src, ok |-> TRUE, fault |-> {}]}
         \cup {[db |-> dst, ok |-> FALSE, fault |-> {}] : f \in CopyFaults \cap {"open"}}
         \cup {[db |-> Torn, ok |-> f = "read", fault |-> {f}] : f \in CopyFaults \ {"open"}}

------------------------------------------------------------------------------
(* Between transactions the clients edit the candidate. *)

\* from_client_change: set a key of the candidate, or delete it.
Change(k, v) ==
  /\ pc = "idle"
  /\ candidate \in Database
  /\ candidate' = [candidate EXCEPT ![k] = v]
  /\ UNCHANGED <<running, sys, pc, transaction, i, j, hook, reply, faults>>

\* from_client_copy of running to candidate: discard the changes.
Discard ==
  /\ pc = "idle"
  /\ \E r \in FileCp(running, candidate) : candidate' = r.db
  /\ UNCHANGED <<running, sys, pc, transaction, i, j, hook, reply, faults>>

\* from_client_rm of the candidate.
Rm ==
  /\ pc = "idle"
  /\ candidate' = NoFile
  /\ UNCHANGED <<running, sys, pc, transaction, i, j, hook, reply, faults>>

\* from_client_initdb: creates an empty database, leaves an existing one alone.
InitDb ==
  /\ pc = "idle"
  /\ candidate' = IF candidate = NoFile THEN Empty ELSE candidate
  /\ UNCHANGED <<running, sys, pc, transaction, i, j, hook, reply, faults>>

------------------------------------------------------------------------------
(* Start of a transaction: sanity checks, db_diff and dbdep_commitvec. *)

\* db_diff: the keys whose values differ, in the order of the dbspec list.
DbDiff(db1, db2) ==
  LET D == {k \in Keys : db1[k] # db2[k]}
  IN {s \in [1..Cardinality(D) -> D] :
        /\ \A k \in D : \E n \in DOMAIN s : s[n] = k
        /\ \A m, n \in DOMAIN s : m < n => KeyPos[s[m]] < KeyPos[s[n]]}

\* dbdep_match: every pair of a dependency and a changed key that it matches.
Matches(db1, db2) ==
  {e \in Entry : e[2] \in DepKeys[e[1]] /\ db1[e[2]] # db2[e[2]]}

MutantIsCommitVec(s, S) ==   \* not sorted
  /\ \A e \in S : \E n \in DOMAIN s : s[n] = e
  /\ \A m, n \in DOMAIN s : s[m] = s[n] => m = n

(***************************************************************************)
(* dbdep_commitvec: the matches, each once, sorted by priority.  qsort     *)
(* says nothing of the order of pairs with the same priority, so any of    *)
(* those orders may result.                                                *)
(***************************************************************************)
IsCommitVec(s, S) ==
  /\ \A e \in S : \E n \in DOMAIN s : s[n] = e
  /\ \A m, n \in DOMAIN s : s[m] = s[n] => m = n
  /\ \A m, n \in DOMAIN s : m < n => DepRow[s[m][1]] <= DepRow[s[n][1]]

CommitVecs(S) == {s \in [1..Cardinality(S) -> S] : IsCommitVec(s, S)}

\* candidate_commit and candidate_validate up to the begin hooks.
Start(o) ==
  /\ pc = "idle"
  /\ op' = o
  /\ reply' = "none"
  /\ before' = running
  /\ \/ /\ running \in Database /\ candidate \in Database
        /\ df' \in DbDiff(running, candidate)
        /\ vec1' = running /\ vec2' = candidate
        /\ ddvec' \in CommitVecs(Matches(running, candidate))
        /\ pc' = "begin"
     \/ /\ df' = <<>> /\ ddvec' = <<>>     \* stat or db_diff fails
        /\ pc' = "abort"
        /\ UNCHANGED <<vec1, vec2>>
  /\ UNCHANGED <<dbs, sys, i, j, hook, faults>>

MutantHookCalls(h, m) == [p \in Plugin |-> IF p < m THEN h ELSE hook[p]]

\* Plugins 1..m get hook h.
HookCalls(h, m) == [p \in Plugin |-> IF p <= m THEN h ELSE hook[p]]

\* plugin_begin_hooks: the first plugin to fail ends the loop.
BeginHooks ==
  /\ pc = "begin"
  /\ \/ /\ hook' = HookCalls("begin", NPlugins)
        /\ pc' = "generic" /\ i' = 1
     \/ \E m \in Plugin :
          hook' = HookCalls("begin", m) /\ pc' = "abort" /\ i' = i
  /\ UNCHANGED <<dbs, sys, transaction, j, reply, faults>>

------------------------------------------------------------------------------
(* Validation. *)

MutantNeedsCheck(k) == vec1[k] = NoVal /\ vec2[k] # NoVal  \* new keys only

\* Deleted keys are passed over.
NeedsCheck(k) == vec2[k] # NoVal

(***************************************************************************)
(* generic_validate_yang, one changed key: add the defaults to the key in  *)
(* the candidate, then check its values.  It writes the candidate but not  *)
(* the difference found before, which keeps the value without defaults.    *)
(* A failure (an invalid value, or a database error) leaves the candidate  *)
(* with or without the defaults of that key.                               *)
(***************************************************************************)
GenericValidate ==
  /\ pc = "generic"
  /\ i <= Len(df)
  /\ LET k == df[i]
         filled == [candidate EXCEPT ![k] = Fill[vec2[k]]]
     IN \/ /\ ~NeedsCheck(k)
           /\ i' = i + 1 /\ UNCHANGED <<candidate, pc>>
        \/ /\ NeedsCheck(k) /\ Fill[vec2[k]] \in Valid
           /\ candidate' = filled
           /\ i' = i + 1 /\ UNCHANGED pc
        \/ /\ NeedsCheck(k)
           /\ candidate' \in {candidate, filled}
           /\ pc' = "abort" /\ UNCHANGED i
  /\ UNCHANGED <<running, sys, transaction, j, hook, reply, faults>>

GenericDone ==
  /\ pc = "generic" /\ i > Len(df)
  /\ pc' = "validate" /\ i' = 1
  /\ UNCHANGED <<dbs, sys, transaction, j, hook, reply, faults>>

\* validate_db, one entry: the plugin may object.
ValidateDb ==
  /\ pc = "validate"
  /\ i <= Len(ddvec)
  /\ \/ i' = i + 1 /\ UNCHANGED pc
     \/ /\ "validate" \in DepType[ddvec[i][1]]
        /\ pc' = "abort" /\ UNCHANGED i
  /\ UNCHANGED <<dbs, sys, transaction, j, hook, reply, faults>>

ValidateDone ==
  /\ pc = "validate" /\ i > Len(ddvec)
  /\ pc' = "complete"
  /\ UNCHANGED <<dbs, sys, transaction, i, j, hook, reply, faults>>

MutantDeleteFrom == Len(ddvec) - 1   \* off by one: an empty vector has no entry 0

\* Where the loop over deletions starts: the last entry.
DeleteFrom == Len(ddvec)

(***************************************************************************)
(* plugin_complete_hooks.  A validate message is then answered: neither    *)
(* the end nor the abort hook follows.  A commit goes on in the order the  *)
(* option asks for.                                                        *)
(***************************************************************************)
CompleteHooks ==
  /\ pc = "complete"
  /\ \/ \E m \in Plugin :
          /\ hook' = HookCalls("complete", m)
          /\ pc' = "abort"
          /\ UNCHANGED <<df, vec1, vec2, ddvec, i, j, reply>>
     \/ /\ hook' = HookCalls("complete", NPlugins)
        /\ \/ op = "validate" /\ pc' = "idle" /\ reply' = "ok" /\ Free
           \/ /\ op = "commit"
              /\ \/ CommitOrder = 0 /\ pc' = "commit" /\ i' = 1
                 \/ CommitOrder # 0 /\ pc' = "delete" /\ i' = DeleteFrom
              /\ UNCHANGED <<df, vec1, vec2, ddvec, j, reply>>
  /\ UNCHANGED <<dbs, sys, op, before, faults>>

------------------------------------------------------------------------------
(***************************************************************************)
(* The commit loops.  For each loop an operator says which operation it    *)
(* calls the plugin with for a changed key, or "skip".  The plugin is      *)
(* external: ADD and CHANGE make the system hold the value of the target   *)
(* vector, DELETE removes it, and a call that fails changes nothing.       *)
(***************************************************************************)

\* dbdiff2commit_op: in the first database only, the second only, or both.
DiffOp(k) ==
  CASE vec2[k] = NoVal -> "DELETE"
    [] vec1[k] = NoVal -> "ADD"
    [] OTHER           -> "CHANGE"

\* In order 2 a change is a delete and then an add.
SplitOp(k, part) ==
  IF CommitOrder = 2 /\ DiffOp(k) = "CHANGE" THEN part ELSE DiffOp(k)

MutantCommitOp(k) == IF DiffOp(k) = "DELETE" THEN "skip" ELSE DiffOp(k)

CommitOp(k) == DiffOp(k)

MutantRollbackOp(k) == DiffOp(k)   \* not reversed

RollbackOp(k) ==
  CASE DiffOp(k) = "ADD"    -> "DELETE"
    [] DiffOp(k) = "DELETE" -> "ADD"
    [] OTHER                -> "CHANGE"

DeleteOp(k) == IF SplitOp(k, "DELETE") = "DELETE" THEN "DELETE" ELSE "skip"

\* The rollback of the delete loop repeats the operation: it is not reversed.
UndeleteOp(k) == DeleteOp(k)

SetOp(k) == IF DiffOp(k) = "DELETE" THEN "skip" ELSE SplitOp(k, "ADD")

UnsetOp(k) == IF SetOp(k) = "ADD" THEN "DELETE" ELSE SetOp(k)

MutantReaddOp(k) == IF DiffOp(k) = "DELETE" THEN "ADD" ELSE "skip"   \* not the changes

ReaddOp(k) == IF DeleteOp(k) = "DELETE" THEN "ADD" ELSE "skip"

\* Entries the loops pass over.
Skipped(e, o) == o = "skip" \/ "commit" \notin DepType[e[1]]

\* plugin_commit_callback: the system after operation o with target vector vec.
Called(e, o, vec) == [sys EXCEPT ![e] = IF o = "DELETE" THEN NoVal ELSE vec[e[2]]]

\* One turn of a loop that applies the commit; next is the next index.
Forward(o, next, failpc, failj) ==
  LET e == ddvec[i]
  IN \/ /\ Skipped(e, o)
        /\ i' = next /\ UNCHANGED <<sys, pc, j>>
     \/ /\ ~Skipped(e, o)
        /\ sys' = Called(e, o, vec2)
        /\ i' = next /\ UNCHANGED <<pc, j>>
     \/ /\ ~Skipped(e, o)
        /\ pc' = failpc /\ j' = failj /\ UNCHANGED <<sys, i>>

\* One turn of a rollback loop: a callback that fails is ignored.
Backward(o, next) ==
  LET e == ddvec[j]
  IN /\ j' = next
     /\ \/ Skipped(e, o) /\ UNCHANGED <<sys, faults>>
        \/ /\ ~Skipped(e, o)
           /\ sys' = Called(e, o, vec1) /\ UNCHANGED faults
        \/ /\ ~Skipped(e, o)
           /\ faults' = faults \cup {"callback"} /\ UNCHANGED sys

(* Order 0: all entries in priority order. *)

CommitStep ==
  /\ pc = "commit" /\ i <= Len(ddvec)
  /\ Forward(CommitOp(ddvec[i][2]), i + 1, "rollback", i - 1)
  /\ UNCHANGED <<dbs, transaction, hook, reply, faults>>

CommitDone ==
  /\ pc = "commit" /\ i > Len(ddvec)
  /\ pc' = "copy"
  /\ UNCHANGED <<dbs, sys, transaction, i, j, hook, reply, faults>>

RollbackStep ==
  /\ pc = "rollback" /\ j > 0
  /\ Backward(RollbackOp(ddvec[j][2]), j - 1)
  /\ UNCHANGED <<dbs, pc, transaction, i, hook, reply>>

RollbackDone ==
  /\ pc = "rollback" /\ j = 0
  /\ pc' = "abort"
  /\ UNCHANGED <<dbs, sys, transaction, i, j, hook, reply, faults>>

(* Orders 1 and 2: delete in reverse priority order, then change and add. *)

DeleteStep ==
  /\ pc = "delete" /\ i > 0
  /\ Forward(DeleteOp(ddvec[i][2]), i - 1, "undelete", i + 1)
  /\ UNCHANGED <<dbs, transaction, hook, reply, faults>>

DeleteDone ==
  /\ pc = "delete" /\ i = 0
  /\ pc' = "set" /\ i' = 1
  /\ UNCHANGED <<dbs, sys, transaction, j, hook, reply, faults>>

\* A call here deletes what should be added back.
UndeleteStep ==
  /\ pc = "undelete" /\ j <= Len(ddvec)
  /\ LET e == ddvec[j]
         o == UndeleteOp(e[2])
     IN \/ Skipped(e, o) /\ UNCHANGED <<sys, faults>>
        \/ /\ ~Skipped(e, o)
           /\ sys' = Called(e, o, vec1) /\ faults' = faults \cup {"undelete"}
        \/ /\ ~Skipped(e, o)
           /\ faults' = faults \cup {"callback"} /\ UNCHANGED sys
  /\ j' = j + 1
  /\ UNCHANGED <<dbs, pc, transaction, i, hook, reply>>

UndeleteDone ==
  /\ pc = "undelete" /\ j > Len(ddvec)
  /\ pc' = "abort"
  /\ UNCHANGED <<dbs, sys, transaction, i, j, hook, reply, faults>>

SetStep ==
  /\ pc = "set" /\ i <= Len(ddvec)
  /\ Forward(SetOp(ddvec[i][2]), i + 1, "unset", i - 1)
  /\ UNCHANGED <<dbs, transaction, hook, reply, faults>>

SetDone ==
  /\ pc = "set" /\ i > Len(ddvec)
  /\ pc' = "copy"
  /\ UNCHANGED <<dbs, sys, transaction, i, j, hook, reply, faults>>

UnsetStep ==
  /\ pc = "unset" /\ j > 0
  /\ Backward(UnsetOp(ddvec[j][2]), j - 1)
  /\ UNCHANGED <<dbs, pc, transaction, i, hook, reply>>

MutantUnsetDone ==   \* goes on with the index of the loop before
  /\ pc = "unset" /\ j = 0
  /\ pc' = "readd"
  /\ UNCHANGED <<dbs, sys, transaction, i, j, hook, reply, faults>>

UnsetDone ==
  /\ pc = "unset" /\ j = 0
  /\ pc' = "readd" /\ j' = 1
  /\ UNCHANGED <<dbs, sys, transaction, i, hook, reply, faults>>

ReaddStep ==
  /\ pc = "readd" /\ j <= Len(ddvec)
  /\ Backward(ReaddOp(ddvec[j][2]), j + 1)
  /\ UNCHANGED <<dbs, pc, transaction, i, hook, reply>>

ReaddDone ==
  /\ pc = "readd" /\ j > Len(ddvec)
  /\ pc' = "abort"
  /\ UNCHANGED <<dbs, sys, transaction, i, j, hook, reply, faults>>

------------------------------------------------------------------------------
(* The databases follow the system, and the transaction ends. *)

\* file_cp(candidate, running); a failure rolls the whole system back.
Copy ==
  /\ pc = "copy"
  /\ \E r \in FileCp(candidate, running) :
       /\ running' = r.db
       /\ faults' = faults \cup r.fault
       /\ \/ r.ok /\ pc' = "copyback" /\ UNCHANGED j
          \/ /\ ~r.ok /\ j' = Len(ddvec)
             /\ pc' = IF CommitOrder = 0 THEN "rollback" ELSE "unset"
  /\ UNCHANGED <<candidate, sys, transaction, i, hook, reply>>

\* file_cp(running, candidate); a failure is an error though running is new.
CopyBack ==
  /\ pc = "copyback"
  /\ \E r \in FileCp(running, candidate) :
       /\ candidate' = r.db
       /\ \/ r.ok /\ pc' = "end" /\ UNCHANGED faults
          \/ ~r.ok /\ pc' = "abort" /\ faults' = faults \cup {"copyback"}
  /\ UNCHANGED <<running, sys, transaction, i, j, hook, reply>>

\* plugin_end_hooks stops at the first plugin that fails; nobody looks.
EndHooks ==
  /\ pc = "end"
  /\ \E m \in Plugin \cup {NPlugins} :
       /\ hook' = HookCalls("end", m)
       /\ faults' = IF m < NPlugins THEN faults \cup {"end"} ELSE faults
  /\ pc' = "idle" /\ reply' = "ok" /\ before' = running
  /\ Free
  /\ UNCHANGED <<dbs, sys, op>>

\* plugin_abort_hooks: all plugins, those that never saw a begin too.
AbortHooks ==
  /\ pc = "abort"
  /\ hook' = HookCalls("abort", NPlugins)
  /\ pc' = "idle" /\ reply' = "err"
  /\ Free
  /\ UNCHANGED <<dbs, sys, op, before, faults>>

------------------------------------------------------------------------------
Client == \/ \E k \in Keys, v \in Vals : Change(k, v)
          \/ Discard
          \/ Rm
          \/ InitDb
          \/ \E o \in {"commit", "validate"} : Start(o)

Validation == BeginHooks \/ GenericValidate \/ GenericDone \/ ValidateDb
              \/ ValidateDone \/ CompleteHooks

Apply == CommitStep \/ CommitDone \/ DeleteStep \/ DeleteDone \/ SetStep \/ SetDone

Rollback == RollbackStep \/ RollbackDone \/ UndeleteStep \/ UndeleteDone
            \/ UnsetStep \/ UnsetDone \/ ReaddStep \/ ReaddDone

Finish == Copy \/ CopyBack \/ EndHooks \/ AbortHooks

\* What the backend does by itself once it has taken a message.
Backend == Validation \/ Apply \/ Rollback \/ Finish

Next == Client \/ Backend

Spec == Init /\ [][Next]_vars

------------------------------------------------------------------------------
(* Properties *)

Norm(v) == IF v = NoVal THEN NoVal ELSE Fill[v]

\* The faults after which the code itself leaves system and running apart.
Unrepaired == faults \cap {"write", "read", "callback", "undelete"} # {}

(***************************************************************************)
(* Between messages the system holds what the running database says        *)
(* (candidate_commit: "The state of the router corresponds to these        *)
(* values"), whatever callback, hook or validation failed on the way, up   *)
(* to the defaults that validation adds to the database only.              *)
(***************************************************************************)
InSync ==
  pc = "idle" /\ ~Unrepaired =>
    \A e \in CommitEntry : Norm(sys[e]) = Norm(running[e[2]])

(***************************************************************************)
(* An error answer means that nothing was committed: running is as it was  *)
(* when the message came (rollback before the abort hooks).                *)
(***************************************************************************)
ErrorChangesNothing ==
  pc = "idle" /\ reply = "err" /\ faults \cap {"write", "copyback"} = {} => running = before

(***************************************************************************)
(* The running database only ever holds values that passed validation,     *)
(* with their defaults: no path of candidate_commit reaches the copy with  *)
(* a changed key unchecked.                                                *)
(***************************************************************************)
RunningInSpec == running \in Database => \A k \in Keys : InSpec(running[k])

(***************************************************************************)
(* running changes only after every plugin has put the new values into     *)
(* the system ("Commit here in case cp fails"), and what it receives is    *)
(* what the plugins were given.                                            *)
(***************************************************************************)
RunningFollowsSystem ==
  [][running' # running =>
       /\ \A n \in DOMAIN ddvec :
            "commit" \in DepType[ddvec[n][1]] => sys[ddvec[n]] = vec2[ddvec[n][2]]
       /\ running' \in Database => \A k \in Keys : Norm(running'[k]) = Norm(vec2[k])]_vars

(***************************************************************************)
(* Plugins see priorities respected: in order 0 an entry is applied only   *)
(* when all entries of a lower row are; in orders 1 and 2 nothing is set   *)
(* before all deletions are done, and a row is set after the lower ones.   *)
(***************************************************************************)
PriorityOrder ==
  [][\A e \in CommitEntry : sys'[e] # sys[e] /\ pc \in {"commit", "set"} =>
       \A n \in DOMAIN ddvec :
         LET d == ddvec[n]
         IN /\ "commit" \in DepType[d[1]]
            /\ DepRow[d[1]] < DepRow[e[1]] \/ (pc = "set" /\ DiffOp(d[2]) = "DELETE")
            => sys[d] = vec2[d[2]]]_vars

(***************************************************************************)
(* No plugin is left inside a transaction: after an error all have been    *)
(* told abort, after a commit all have been told end (plugin_end_hooks     *)
(* stops at a plugin whose end hook fails: fault "end").                   *)
(***************************************************************************)
HooksClosed ==
  pc = "idle" =>
    /\ reply = "err" => \A p \in Plugin : hook[p] = "abort"
    /\ reply = "ok" /\ op = "commit" /\ "end" \notin faults =>
         \A p \in Plugin : hook[p] = "end"

------------------------------------------------------------------------------
(***************************************************************************)
(* The transaction seen from outside.  While plugins are being called the  *)
(* system counts as what it was before: the copy to running is the commit  *)
(* point, and a rollback has to bring back exactly that state.             *)
(***************************************************************************)
Changing == {"commit", "rollback", "delete", "undelete", "set", "unset", "readd", "copy"}

Atomic == INSTANCE AtomicCommit WITH
  Setting <- Vals,
  Managed <- CommitEntry,
  store   <- [k \in Keys |-> IF running \in Database THEN Norm(running[k]) ELSE NoVal],
  system  <- [e \in CommitEntry |-> Norm(IF pc \in Changing THEN vec1[e[2]] ELSE sys[e])],
  phase   <- IF pc = "idle" THEN "idle"
             ELSE IF pc \in {"copyback", "end"} THEN "done" ELSE "open",
  lost    <- Unrepaired \/ "copyback" \in faults

\* candidate_commit and candidate_validate implement the atomic commit.
ImplementsAtomicCommit == Atomic!ASpec

------------------------------------------------------------------------------
(* What comments of the source say and the code does not do. *)

(***************************************************************************)
(* "5. Failed deletion, add the key value back to running": when the       *)
(* rollback of the delete loop is over and no callback failed in it, the   *)
(* system is as it was.                                                    *)
(***************************************************************************)
FailedDeletionUndone ==
  pc = "undelete" /\ j > Len(ddvec) /\ faults \subseteq {"undelete"} =>
    \A e \in CommitEntry : Norm(sys[e]) = Norm(vec1[e[2]])

\* "The code reverts changes if the commit fails."
FailedCommitReverted ==
  pc = "idle" /\ reply = "err" /\ ~Unrepaired => running = before
==============================================================================
