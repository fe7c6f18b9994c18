------------------------------- MODULE ListDb -------------------------------
(***************************************************************************)
(* Lists in the database: how an operation on an entry of a list, or of a  *)
(* list inside an entry, becomes a sequence of reads and writes of single  *)
(* keys (clicon_lvalue.c built with DB_KEYCONTENT over clicon_qdb.c).      *)
(*                                                                         *)
(* A list with base key A keeps A.n, one more than the highest index; for  *)
(* every entry A.n.<value of its unique variable>, which holds the index   *)
(* i; and the entry's variables in A.i.  The base <<>> is the outer list   *)
(* and <<i>> the list inside its entry i.                                  *)
(*                                                                         *)
(* The index of the outer entry is looked up, and the entry created, by    *)
(* the CLI in its own process when it formats the key; the change itself   *)
(* is made by the backend.  Every access opens the database file anew, so  *)
(* the accesses of different processes interleave, and a file that another *)
(* process has open makes the access fail.                                 *)
(***************************************************************************)
EXTENDS Integers, Sequences, FiniteSets

CONSTANTS
  ListClients,  \* CLI processes
  NoClient,     \* nobody
  OuterKeys, InnerKeys,  \* values of the unique variables
  Vals,         \* values of the other variable
  NoVal,        \* the variable is not given
  Default,      \* its default value in the specification
  MaxListOps    \* bound: number of operations

ASSUME ListAssumption ==
  /\ NoClient \notin ListClients /\ MaxListOps \in Nat
  /\ NoVal \notin OuterKeys \cup InnerKeys \cup Vals \cup {Default}

None == -1
Indexes == 0..(MaxListOps - 1)
Bases == {<<>>} \cup {<<i>> : i \in Indexes}
ListKeys == OuterKeys \cup InnerKeys
Paths == {<<k>> : k \in OuterKeys} \cup {<<k, w>> : k \in OuterKeys, w \in InnerKeys}
NoRec == [key |-> NoVal, b |-> NoVal]
Recs == {NoRec} \cup [key : ListKeys, b : Vals \cup {Default}]

VARIABLES
  maxIndex,   \* A.n: [Bases -> Nat]
  content,    \* A.n.<value>: [Bases -> [ListKeys -> index or None]]
  rec,        \* A.i: [Bases -> [Indexes -> variables or NoRec]]
  lclient,    \* [ListClients -> the operation under way]
  serving,    \* the client whose request the backend executes
  overlapped, \* have two processes changed the same list at the same time?
  dbFailed,   \* has an access to the database failed?
  listOps     \* number of operations so far

store == <<maxIndex, content, rec>>
listVars == <<store, lclient, serving, overlapped, dbFailed, listOps>>

\* What the database says of the list: the variables behind every path.
ViewOf(m, c, r) ==
  [p \in Paths |->
    LET i == c[<<>>][p[1]]
        j == IF i = None \/ Len(p) = 1 THEN i ELSE c[<<i>>][p[2]]
    IN IF j = None THEN NoRec ELSE r[SubSeq(<<i>>, 1, Len(p) - 1)][j]]
View == ViewOf(maxIndex, content, rec)

IdleOp == [pc |-> "idle", op |-> "set", path |-> <<>>, val |-> NoVal, base |-> <<>>, i |-> None,
           before |-> <<>>, alone |-> TRUE]

ListInit ==
  /\ maxIndex = [b \in Bases |-> 0]
  /\ content = [b \in Bases |-> [k \in ListKeys |-> None]]
  /\ rec = [b \in Bases |-> [i \in Indexes |-> NoRec]]
  /\ lclient = [c \in ListClients |-> IdleOp]
  /\ serving = NoClient
  /\ overlapped = FALSE /\ dbFailed = FALSE /\ listOps = 0

\* The key an operation looks for in its present list.
KeyOf(o) == o.path[Len(o.base) + 1]
AtLeaf(o) == Len(o.path) = Len(o.base) + 1

\* Processes in the middle of a change of list b: from the lookup of an
\* entry to the last write for it.
Changing(b) == {c \in ListClients : lclient[c].pc \in {"max", "content", "raise", "record", "erase", "unrecord"}
                                      /\ lclient[c].base = b}
Quiet == ~overlapped /\ ~dbFailed
Busy == {c \in ListClients : lclient[c].pc # "idle"}

Step(c, pc) == [lclient EXCEPT ![c].pc = pc]
Rest == <<serving, overlapped, dbFailed, listOps>>

----------------------------------------------------------------------------
\* cli_dbop(): the operation begins.  A change of an outer entry goes to the
\* backend; for an inner one the key has to be formatted first.
CliDbop(c, op, path, val) ==
  /\ lclient[c].pc = "idle" /\ listOps < MaxListOps
  /\ Quiet  \* bound: nothing is claimed after a failure or an overlap
  /\ listOps' = listOps + 1
  /\ lclient' = [d \in ListClients |->
       IF d = c THEN [pc |-> IF Len(path) = 1 THEN "send" ELSE "find", op |-> op, path |-> path, val |-> val,
                      base |-> <<>>, i |-> None, before |-> View, alone |-> (Busy = {})]
       ELSE [lclient[d] EXCEPT !.alone = (lclient[d].pc = "idle")]]
  /\ UNCHANGED <<store, serving, overlapped, dbFailed>>

\* from_client_change(): the backend takes up one request at a time.
Serve(c) ==
  /\ lclient[c].pc = "send" /\ serving = NoClient
  /\ serving' = c
  /\ lclient' = Step(c, IF lclient[c].op = "del" THEN "lookup" ELSE "find")
  /\ UNCHANGED <<store, overlapped, dbFailed, listOps>>

\* db_lv_op_keyfmt() has found or made entry i of the outer list: the key now
\* names the list inside it.  The backend's operation goes on to the record.
Found(c, i, created) ==
  lclient' = IF AtLeaf(lclient[c]) \/ created
             THEN [lclient EXCEPT ![c].pc = "record", ![c].i = i]
             ELSE [lclient EXCEPT ![c].pc = "send", ![c].base = <<i>>, ![c].i = None]

\* db_lv_vec_find(): is there an A.n.<value>?
VecFind(c) ==
  /\ lclient[c].pc = "find"
  /\ LET i == content[lclient[c].base][KeyOf(lclient[c])]
     IN IF i # None THEN Found(c, i, FALSE) ELSE lclient' = Step(c, "max")
  /\ overlapped' = (overlapped \/ Changing(lclient[c].base) # {})
  /\ UNCHANGED <<store, serving, dbFailed, listOps>>

\* keyindex_max_get()
IndexMaxGet(c) ==
  /\ lclient[c].pc = "max"
  /\ lclient' = [lclient EXCEPT ![c].pc = "content", ![c].i = maxIndex[lclient[c].base]]
  /\ UNCHANGED <<store, Rest>>

\* A.n.<value> is written, then A.n with keyindex_max_set().
ContentSet(c) ==
  /\ lclient[c].pc = "content"
  /\ content' = [content EXCEPT ![lclient[c].base][KeyOf(lclient[c])] = lclient[c].i]
  /\ lclient' = Step(c, "raise")
  /\ UNCHANGED <<maxIndex, rec, Rest>>
MutantIndexMaxSet(c) ==
  /\ lclient[c].pc = "raise"
  /\ Found(c, lclient[c].i, TRUE)
  /\ UNCHANGED <<store, Rest>>
IndexMaxSet(c) ==
  /\ lclient[c].pc = "raise"
  /\ maxIndex' = [maxIndex EXCEPT ![lclient[c].base] = lclient[c].i + 1]
  /\ Found(c, lclient[c].i, TRUE)
  /\ UNCHANGED <<content, rec, Rest>>

\* The variables to write: a merge keeps what the entry has and the request
\* does not name; db_lv_set() adds the default.
NewVars(op, val, old) ==
  IF val # NoVal THEN val
  ELSE IF op = "merge" /\ old # NoRec THEN old.b
  ELSE Default

\* db_lv_vec_set() in the backend, or db_lv_spec2dbvec() in the CLI, which
\* makes the outer entry with nothing but its unique variable and defaults.
MutantRecordSet(c) ==
  /\ lclient[c].pc = "record"
  /\ LET o == lclient[c]
     IN /\ rec' = [rec EXCEPT ![o.base][o.i] = [key |-> KeyOf(o), b |-> NewVars(o.op, o.val, @)]]
        /\ IF AtLeaf(o)
           THEN serving' = NoClient /\ lclient' = [lclient EXCEPT ![c] = IdleOp]
           ELSE UNCHANGED serving /\ lclient' = [lclient EXCEPT ![c].pc = "send", ![c].base = <<o.i>>, ![c].i = None]
  /\ UNCHANGED <<maxIndex, content, overlapped, dbFailed, listOps>>
RecordSet(c) ==
  /\ lclient[c].pc = "record"
  /\ LET o == lclient[c]
     IN IF AtLeaf(o)
        THEN /\ rec' = [rec EXCEPT ![o.base][o.i] = [key |-> KeyOf(o), b |-> NewVars(o.op, o.val, @)]]
             /\ serving' = NoClient /\ lclient' = [lclient EXCEPT ![c] = IdleOp]
        ELSE /\ rec' = [rec EXCEPT ![o.base][o.i] = [key |-> KeyOf(o), b |-> Default]]
             /\ lclient' = [lclient EXCEPT ![c].pc = "send", ![c].base = <<o.i>>, ![c].i = None]
             /\ UNCHANGED serving
  /\ UNCHANGED <<maxIndex, content, overlapped, dbFailed, listOps>>

\* db_lv_vec_del(): look up A.n.<value>, delete it, delete A.i.  A.n stays,
\* and so do the lists inside the entry.
VecDel(c) ==
  /\ lclient[c].pc = "lookup"
  /\ LET i == content[lclient[c].base][KeyOf(lclient[c])]
     IN IF i = None
        THEN serving' = NoClient /\ lclient' = [lclient EXCEPT ![c] = IdleOp]
        ELSE UNCHANGED serving /\ lclient' = [lclient EXCEPT ![c].pc = "erase", ![c].i = i]
  /\ overlapped' = (overlapped \/ Changing(lclient[c].base) # {})
  /\ UNCHANGED <<store, dbFailed, listOps>>
ContentDel(c) ==
  /\ lclient[c].pc = "erase"
  /\ content' = [content EXCEPT ![lclient[c].base][KeyOf(lclient[c])] = None]
  /\ lclient' = Step(c, "unrecord")
  /\ UNCHANGED <<maxIndex, rec, Rest>>
RecordDel(c) ==
  /\ lclient[c].pc = "unrecord"
  /\ rec' = [rec EXCEPT ![lclient[c].base][lclient[c].i] = NoRec]
  /\ lclient' = [lclient EXCEPT ![c] = IdleOp]
  /\ serving' = NoClient
  /\ UNCHANGED <<maxIndex, content, overlapped, dbFailed, listOps>>

\* dpopen() or a write fails, or the process dies: the operation ends where
\* it stands and nothing is taken back.
DbFails(c) ==
  /\ lclient[c].pc # "idle"
  /\ lclient' = [lclient EXCEPT ![c] = IdleOp]
  /\ serving' = IF serving = c THEN NoClient ELSE serving
  /\ dbFailed' = TRUE
  /\ UNCHANGED <<store, overlapped, listOps>>

ListNext ==
  \E c \in ListClients :
    \/ \E p \in Paths : \/ CliDbop(c, "del", p, NoVal)
                        \/ \E op \in {"set", "merge"}, v \in Vals \cup {NoVal} : CliDbop(c, op, p, v)
    \/ Serve(c) \/ VecFind(c) \/ IndexMaxGet(c) \/ ContentSet(c) \/ IndexMaxSet(c) \/ RecordSet(c)
    \/ VecDel(c) \/ ContentDel(c) \/ RecordDel(c) \/ DbFails(c)

ListDbSpec == ListInit /\ [][ListNext]_listVars

----------------------------------------------------------------------------
(***************************************************************************)
(* "The caller must write such a key, otherwise the database will be       *)
(* corrupt" (db_lv_vec_find).  When nobody is in the middle of a list, and *)
(* as long as no two processes ever were in the same one and no access     *)
(* failed, the keys A.n.<value> and the entries A.i belong together one to *)
(* one and A.n lies above them, in the outer list and in those inside.     *)
(***************************************************************************)
ListsIndexed ==
  Quiet => \A b \in Bases : Changing(b) = {} =>
    /\ \A k \in ListKeys : content[b][k] # None =>
         content[b][k] < maxIndex[b] /\ rec[b][content[b][k]].key = k
    /\ \A i \in Indexes : rec[b][i] # NoRec => content[b][rec[b][i].key] = i

\* What an operation is to do to the view of the list.
Apply(o) ==
  LET target == o.before[o.path]
      outer == <<o.path[1]>>
      made == IF Len(o.path) = 2 /\ o.before[outer] = NoRec
              THEN [o.before EXCEPT ![outer] = [key |-> o.path[1], b |-> Default]]
              ELSE o.before
  IN IF o.op # "del"
     THEN [made EXCEPT ![o.path] = [key |-> o.path[Len(o.path)], b |-> NewVars(o.op, o.val, target)]]
     ELSE [p \in Paths |-> IF p = o.path \/ (p[1] = o.path[1] /\ Len(o.path) = 1) THEN NoRec ELSE made[p]]

(***************************************************************************)
(* An operation that ran while no other did has the effect its name says   *)
(* on the entry it names, deletes with an entry all that is inside it, and *)
(* leaves every other path as it was, whatever history of deletions and    *)
(* new entries the indexes come from.                                      *)
(***************************************************************************)
OperationsExact ==
  [][\A c \in ListClients :
       Quiet /\ lclient[c].pc # "idle" /\ lclient'[c].pc = "idle" /\ lclient[c].alone /\ ~dbFailed' =>
         ViewOf(maxIndex', content', rec') = Apply(lclient[c])]_listVars
=============================================================================
