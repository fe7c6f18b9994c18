------------------------------- MODULE DbDiff -------------------------------
(***************************************************************************)
(* What a commit works from: the difference of running and candidate       *)
(* (config_dbdiff.c) and the vector of the plugin dependencies it touches  *)
(* (config_dbdep.c), for lists whose entries carry indexes.  CandidateCommit *)
(* takes both for granted, on keys without indexes.                        *)
(*                                                                         *)
(* The specification has a list a[] $!x $v and in its entries a list       *)
(* a[].b[] $!x $!y $v.  An item is a database key and its variables; the   *)
(* key of an entry holds its index, as in <<"a", 0, "b", 0>>.  db_diff()   *)
(* comes to the two lists in turn: a[] has one unique variable and goes    *)
(* through dbdiff_vector_1(), a[].b[] has two and goes through             *)
(* dbdiff_vector().  A step is one round of a loop.                        *)
(*                                                                         *)
(* Deleting an entry of a[] leaves the keys of the list inside it in the   *)
(* database: leftovers, which both algorithms take for entries.            *)
(***************************************************************************)
EXTENDS Integers, Sequences, FiniteSets, SequencesExt

CONSTANTS
  XKeys, YKeys,  \* values of the unique variables x and y, numbers
  VVals,         \* values of v
  Rows,          \* priorities of dependencies, numbers
  MaxDeps,       \* bound: number of dependencies
  MaxEdits       \* bound: number of edits

ASSUME DiffAssumption ==
  /\ XKeys \subseteq Nat /\ YKeys \subseteq Nat /\ Rows \subseteq Nat
  /\ MaxDeps \in Nat /\ MaxEdits \in Nat

VARIABLES
  db1, db2,   \* running and candidate: [items, next], next[i + 1] the next index
              \* of the list in entry i; that of the outer list is Len(next)
  deps,       \* dependencies in the order they were registered
  edits,      \* number of edits so far
  doing,      \* "idle", "merge" (dbdiff_vector_1), "compare" (dbdiff_vector),
              \* "match" (dbdep_commitvec) or "done"
  v1, v2,     \* the items of the two databases that are compared
  i1, i2,     \* where the loops are
  df,         \* the difference so far
  ddvec       \* the commit vector so far: [dep, ent, mkey]

compared == <<v1, v2, i1, i2, df, ddvec>>
diffVars == <<db1, db2, deps, edits, doing, compared>>

NoItem == [key |-> <<>>, vars |-> <<>>]
IsInner(it) == Len(it.key) = 4
Unique(it) == IF IsInner(it) THEN {"x", "y"} ELSE {"x"}
Id(it) == [n \in Unique(it) |-> it.vars[n]]
Outer(db) == {it \in db.items : ~IsInner(it)}
Inner(db) == {it \in db.items : IsInner(it)}
NoItems == [items |-> {}, next |-> <<>>]

NoDiff == doing' = "idle" /\ v1' = <<>> /\ v2' = <<>> /\ i1' = 1 /\ i2' = 1 /\ df' = <<>> /\ ddvec' = <<>>

DiffInit ==
  /\ db1 = NoItems /\ db2 = NoItems
  /\ deps = <<>> /\ edits = 0
  /\ doing = "idle" /\ v1 = <<>> /\ v2 = <<>> /\ i1 = 1 /\ i2 = 1 /\ df = <<>> /\ ddvec = <<>>

----------------------------------------------------------------------------
\* lv_matchvar(): both laps compare the first vector with the second.
MatchVar(a, b, names) == \A n \in DOMAIN a \cap names : n \in DOMAIN b /\ a[n] = b[n]
AllNames == {"x", "y", "v"}
SameEntry(it1, it2) == MatchVar(it1.vars, it2.vars, Unique(it1))
SameVars(it1, it2) == MatchVar(it1.vars, it2.vars, AllNames)

First(it) == [op |-> "first", e1 |-> it, e2 |-> NoItem]
Second(it) == [op |-> "second", e1 |-> NoItem, e2 |-> it]
Both(it1, it2) == [op |-> "both", e1 |-> it1, e2 |-> it2]

\* dbdiff_add()
DiffAdd(e) == df' = Append(df, e)
DiffAddBoth(it1, it2) == IF SameVars(it1, it2) THEN df' = df ELSE DiffAdd(Both(it1, it2))

\* clicon_dbitems(): the items in whatever order the database gives them.
Listed(items) == Bijection(1..Cardinality(items), items)
\* qsort() with dbcmp().
XVal(it) == it.vars["x"]
SortedItems(items) == {s \in Listed(items) : \A i, j \in DOMAIN s : i < j => XVal(s[i]) <= XVal(s[j])}

\* dbdiff_vector_1(): one unique variable; both lists are sorted by it and
\* walked through together.
DiffVector1 ==
  /\ doing = "idle" /\ doing' = "merge"
  /\ v1' \in SortedItems(Outer(db1)) /\ v2' \in SortedItems(Outer(db2))
  /\ UNCHANGED <<db1, db2, deps, edits, i1, i2, df, ddvec>>

MergeFirst ==
  /\ doing = "merge" /\ i1 \in DOMAIN v1 /\ (i2 \in DOMAIN v2 => XVal(v1[i1]) < XVal(v2[i2]))
  /\ DiffAdd(First(v1[i1])) /\ i1' = i1 + 1
  /\ UNCHANGED <<db1, db2, deps, edits, doing, v1, v2, i2, ddvec>>

MergeSecond ==
  /\ doing = "merge" /\ i2 \in DOMAIN v2 /\ (i1 \in DOMAIN v1 => XVal(v2[i2]) < XVal(v1[i1]))
  /\ DiffAdd(Second(v2[i2])) /\ i2' = i2 + 1
  /\ UNCHANGED <<db1, db2, deps, edits, doing, v1, v2, i1, ddvec>>

MergeBoth ==
  /\ doing = "merge" /\ i1 \in DOMAIN v1 /\ i2 \in DOMAIN v2 /\ XVal(v1[i1]) = XVal(v2[i2])
  /\ DiffAddBoth(v1[i1], v2[i2]) /\ i1' = i1 + 1 /\ i2' = i2 + 1
  /\ UNCHANGED <<db1, db2, deps, edits, doing, v1, v2, ddvec>>

MutantMerged == i1 \notin DOMAIN v1 \/ i2 \notin DOMAIN v2
Merged == i1 \notin DOMAIN v1 /\ i2 \notin DOMAIN v2

\* dbdiff_vector(): each item of one list is looked for in the other.
DiffVector ==
  /\ doing = "merge" /\ Merged /\ doing' = "compare"
  /\ v1' \in Listed(Inner(db1)) /\ v2' \in Listed(Inner(db2))
  /\ i1' = 1 /\ i2' = 1
  /\ UNCHANGED <<db1, db2, deps, edits, df, ddvec>>

\* The first that matches ends the inner loop.
Matching(it, s) == {i \in DOMAIN s : SameEntry(it, s[i])}
CompareFirst ==
  /\ doing = "compare" /\ i1 \in DOMAIN v1
  /\ \/ Matching(v1[i1], v2) = {} /\ DiffAdd(First(v1[i1]))
     \/ \E i \in Matching(v1[i1], v2) :
          (\A j \in Matching(v1[i1], v2) : i <= j) /\ DiffAddBoth(v1[i1], v2[i])
  /\ i1' = i1 + 1
  /\ UNCHANGED <<db1, db2, deps, edits, doing, v1, v2, i2, ddvec>>

CompareSecond ==
  /\ doing = "compare" /\ i1 \notin DOMAIN v1 /\ i2 \in DOMAIN v2
  /\ IF Matching(v2[i2], v1) = {} THEN DiffAdd(Second(v2[i2])) ELSE df' = df
  /\ i2' = i2 + 1
  /\ UNCHANGED <<db1, db2, deps, edits, doing, v1, v2, i1, ddvec>>

\* dbdep_match_key(): the part of the key that the pattern covers, <<>> if
\* it does not match.  A pattern is the names of its lists and whether it
\* ends in a wildcard; names of which one is the start of another are left
\* out.
MatchKey(key, pat) ==
  LET n == 2 * Len(pat.names)
      fits == Len(key) >= n /\ \A i \in DOMAIN pat.names : key[2 * i - 1] = pat.names[i]
  IN IF fits /\ (Len(key) = n \/ pat.wild) THEN SubSeq(key, 1, n) ELSE <<>>

\* The side of a difference whose key counts.
Side(e) == IF e.op = "second" THEN e.e2 ELSE e.e1
DiffKey(e) == Side(e).key

\* dbdep_commitvec(): for every difference the dependencies that match; one
\* that is registered for a tree is taken once for each matched part.
CommitVec ==
  /\ doing = "compare" /\ i1 \notin DOMAIN v1 /\ i2 \notin DOMAIN v2 /\ doing' = "match"
  /\ v1' = <<>> /\ v2' = <<>> /\ i1' = 1 /\ i2' = 1
  /\ UNCHANGED <<db1, db2, deps, edits, df, ddvec>>

MutantKnown(d, mkey) == \E j \in DOMAIN ddvec : ddvec[j].dep = d
Known(d, mkey) == \E j \in DOMAIN ddvec : ddvec[j].dep = d /\ ddvec[j].mkey = mkey
Callback(d, e) ==
  [dep |-> d, ent |-> e, mkey |-> IF deps[d].tree THEN MatchKey(DiffKey(e), deps[d].pat) ELSE DiffKey(e)]
MatchDep ==
  /\ doing = "match" /\ i1 \in DOMAIN df /\ i2 \in DOMAIN deps
  /\ LET mkey == MatchKey(DiffKey(df[i1]), deps[i2].pat)
     IN ddvec' = IF mkey = <<>> \/ (deps[i2].tree /\ Known(i2, mkey)) THEN ddvec
                 ELSE Append(ddvec, Callback(i2, df[i1]))
  /\ IF i2 < Len(deps) THEN i2' = i2 + 1 /\ i1' = i1 ELSE i2' = 1 /\ i1' = i1 + 1
  /\ UNCHANGED <<db1, db2, deps, edits, doing, v1, v2, df>>

\* qsort() with dbdep_commitvec_sort(): the order of equal rows is open.
SortVec ==
  /\ doing = "match" /\ (i1 \in DOMAIN df => deps = <<>>) /\ doing' = "done"
  /\ \E p \in Bijection(DOMAIN ddvec, DOMAIN ddvec) :
       /\ ddvec' = [k \in DOMAIN ddvec |-> ddvec[p[k]]]
       /\ \A j, k \in DOMAIN ddvec : j < k => deps[ddvec'[j].dep].row <= deps[ddvec'[k].dep].row
  /\ i1' = 1 /\ i2' = 1
  /\ UNCHANGED <<db1, db2, deps, edits, v1, v2, df>>

\* The commit ends, with a copy of candidate to running or without; or a step
\* before failed.
DiffFree ==
  /\ doing # "idle" /\ NoDiff
  /\ db1' = db1 \/ (doing = "done" /\ db1' = db2)
  /\ UNCHANGED <<db2, deps, edits>>

----------------------------------------------------------------------------
\* dbdep(), dbdep_tree(), dbdep_validate(), dbdep_tree_validate(): the
\* dependency goes to the end of the list.  Whether it is for commit or for
\* validation is asked when the vector is walked (CandidateCommit).
DbDepAdd(tree, row, pat) ==
  /\ doing = "idle" /\ Len(deps) < MaxDeps /\ edits = 0
  /\ deps' = Append(deps, [tree |-> tree, row |-> row, pat |-> pat])
  /\ UNCHANGED <<db1, db2, edits, doing, compared>>

\* Changes of the candidate, as ListDb makes them: a new entry gets the next
\* index, and what is deleted leaves a hole.
Entry(db, x) == {it \in Outer(db) : XVal(it) = x}
Within(db, it, y) == {o \in Inner(db) : o.key[2] = it.key[2] /\ o.vars["y"] = y}
OuterItem(n, vars) == [key |-> <<"a", n>>, vars |-> vars]
InnerItem(n, m, vars) == [key |-> <<"a", n, "b", m>>, vars |-> vars]
VarSets(base) == {base} \cup {[n \in DOMAIN base \cup {"v"} |-> IF n = "v" THEN v ELSE base[n]] : v \in VVals}
XVars(x) == VarSets([n \in {"x"} |-> x])
XYVars(x, y) == VarSets([n \in {"x", "y"} |-> IF n = "x" THEN x ELSE y])

Edited(items, next) ==
  /\ doing = "idle" /\ edits < MaxEdits /\ edits' = edits + 1
  /\ db2' = [items |-> items, next |-> next]
  /\ UNCHANGED <<db1, deps, doing, compared>>
EditSet(x) ==
  \E vars \in XVars(x) :
    \/ /\ Entry(db2, x) = {}
       /\ Edited(db2.items \cup {OuterItem(Len(db2.next), vars)}, Append(db2.next, 0))
    \/ \E it \in Entry(db2, x) : Edited((db2.items \ {it}) \cup {OuterItem(it.key[2], vars)}, db2.next)
EditSetInner(x, y) ==
  \E vars \in XYVars(x, y), it \in Entry(db2, x) :
    LET n == it.key[2]
        m == db2.next[n + 1]
    IN \/ /\ Within(db2, it, y) = {}
          /\ Edited(db2.items \cup {InnerItem(n, m, vars)}, [db2.next EXCEPT ![n + 1] = m + 1])
       \/ \E o \in Within(db2, it, y) : Edited((db2.items \ {o}) \cup {InnerItem(n, o.key[4], vars)}, db2.next)

\* db_lv_vec_del() deletes the key of the entry and A.n.<value>, and not the
\* keys of the list inside it.
EditDel(x) == \E it \in Entry(db2, x) : Edited(db2.items \ {it}, db2.next)
EditDelInner(x, y) == \E it \in Entry(db2, x) : \E o \in Within(db2, it, y) : Edited(db2.items \ {o}, db2.next)

\* The candidate is removed and made again with db_init(), and its indexes
\* start again; or it becomes a copy of running (discard-changes).
EditInit == Edited({}, <<>>)
EditCopy == Edited(db1.items, db1.next)

Patterns == [names : {<<"a">>, <<"a", "b">>}, wild : BOOLEAN]
DiffNext ==
  \/ \E tree \in BOOLEAN, row \in Rows, pat \in Patterns : DbDepAdd(tree, row, pat)
  \/ \E x \in XKeys : EditSet(x) \/ EditDel(x) \/ \E y \in YKeys : EditSetInner(x, y) \/ EditDelInner(x, y)
  \/ EditInit \/ EditCopy
  \/ DiffVector1 \/ MergeFirst \/ MergeSecond \/ MergeBoth
  \/ DiffVector \/ CompareFirst \/ CompareSecond
  \/ CommitVec \/ MatchDep \/ SortVec \/ DiffFree

DiffSpec == DiffInit /\ [][DiffNext]_diffVars

----------------------------------------------------------------------------
\* The items of db that are the same entry as it: with leftovers there may be
\* several.
Twins(it, db) == {o \in db.items : Id(o) = Id(it)}
\* A variable of a is gone in b or different.
Differ(a, b) == \E n \in DOMAIN a.vars : n \notin DOMAIN b.vars \/ a.vars[n] # b.vars[n]

\* What e says of the databases is so.
Correct(e) ==
  \/ \E a \in db1.items : e = First(a) /\ Twins(a, db2) = {}
  \/ \E b \in db2.items : e = Second(b) /\ Twins(b, db1) = {}
  \/ \E a \in db1.items : \E b \in Twins(a, db2) : e = Both(a, b) /\ Differ(a, b)

(***************************************************************************)
(* The difference of the items is complete and has nothing twice, whatever *)
(* indexes they have on the two sides and whichever of the two algorithms  *)
(* compares them: every item that only one database has is in it, every    *)
(* item of running with a variable that is gone or different in candidate, *)
(* and nothing else; no item twice.  (A variable that only candidate has   *)
(* is no difference: lv_matchvar.)  Leftovers count as items here; where   *)
(* candidate has several items for an entry, one of them is compared.      *)
(* What that does to the entries that live, ChangesSeen says.              *)
(***************************************************************************)
DiffExact ==
  doing \in {"match", "done"} =>
    /\ IsInjective(df) /\ \A e \in Range(df) : Correct(e)
    /\ \A a \in db1.items : Twins(a, db2) = {} => First(a) \in Range(df)
    /\ \A b \in db2.items : Twins(b, db1) = {} => Second(b) \in Range(df)
    /\ \A a \in db1.items :
         Twins(a, db2) # {} /\ (\A b \in Twins(a, db2) : Differ(a, b)) => \E b \in db2.items : Both(a, b) \in Range(df)
    /\ \A e, f \in Range(df) : e.op = "both" /\ e.e1 = f.e1 => e = f

(***************************************************************************)
(* What the comment at config_dbdiff.c:386 says of db_diff(), "compute     *)
(* differences and return a db_diff structures, containing a list of       *)
(* entities, each stating a database symbol and how it diffs": an entry    *)
(* that is in its list in both databases, leftovers left out, and has      *)
(* other variables in candidate, is in the difference.                     *)
(***************************************************************************)
Lives(it, db) == IsInner(it) => \E o \in Outer(db) : o.key[2] = it.key[2]
ChangesSeen ==
  doing = "done" =>
    \A a \in db1.items : \A b \in Twins(a, db2) :
      Lives(a, db1) /\ Lives(b, db2) /\ Differ(a, b) => Both(a, b) \in Range(df)

\* The index of an entry means the same entry in both databases.
IndexesAgree == \A a \in db1.items, b \in db2.items : a.key[2] = b.key[2] => XVal(a) = XVal(b)

\* Does the call c tell the plugin of dependency d about the difference e?
\* For a tree, a call about the same entry of the outer list does.
Tells(c, e, d) ==
  /\ c.dep = d
  /\ c.ent = e \/ (deps[d].tree /\ Side(c.ent).key[2] = DiffKey(e)[2] /\ XVal(Side(c.ent)) = XVal(Side(e)))

(***************************************************************************)
(* Every plugin hears of what it depends on, and of nothing else: for each *)
(* difference and each dependency that matches it there is a callback for  *)
(* that very entry, or, for a tree, one about the same entry of the outer  *)
(* list; never two for the same difference, and never two for the same     *)
(* tree; in the order of the priorities.  That a tree hears of everything  *)
(* holds as long as no index of running names another entry in candidate:  *)
(* a tree dependency compares indexes, and a candidate that was made       *)
(* anew may use them for other entries.                                    *)
(***************************************************************************)
DependentsCalled ==
  doing = "done" =>
    /\ \A c \in Range(ddvec) : c.ent \in Range(df) /\ MatchKey(DiffKey(c.ent), deps[c.dep].pat) # <<>>
    /\ \A e \in Range(df), d \in DOMAIN deps :
         MatchKey(DiffKey(e), deps[d].pat) # <<>> /\ (deps[d].tree => IndexesAgree) =>
           \E c \in Range(ddvec) : Tells(c, e, d)
    /\ \A i, j \in DOMAIN ddvec : i < j =>
         /\ deps[ddvec[i].dep].row <= deps[ddvec[j].dep].row
         /\ ddvec[i].dep = ddvec[j].dep =>
              ddvec[i].ent # ddvec[j].ent /\ (deps[ddvec[i].dep].tree => ddvec[i].mkey # ddvec[j].mkey)
=============================================================================
