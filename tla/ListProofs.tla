------------------------------ MODULE ListProofs ------------------------------
(***************************************************************************)
(* Proofs about the lists that the CLIs and the backend keep in the        *)
(* database: their index stays in step with their entries, and each        *)
(* operation has the effect its name says, for any number of clients,      *)
(* keys, values and operations.                                            *)
(***************************************************************************)
EXTENDS ListDb, SequenceLemmas, SequenceTheorems

------------------------------------------------------------------------------
(***************************************************************************)
(* Lists in the database.  At most one client changes a list, as long as   *)
(* nothing overlapped; what it has done so far is the only thing by which  *)
(* the keys A.n.<value> and the entries A.i may differ.  An index fits in  *)
(* the table because A.n counts operations: one that is still going to     *)
(* raise A.n has not done so yet.                                          *)
(***************************************************************************)
OpStages == {"idle", "find", "send", "lookup", "max", "content", "raise", "record", "erase", "unrecord"}
Views == [Paths -> Recs]
ListOps == [pc : OpStages, op : {"set", "merge", "del"}, path : {<<>>} \cup Paths, val : Vals \cup {NoVal},
            base : Bases, i : Indexes \cup {None}, before : {<<>>} \cup Views, alone : BOOLEAN]

ListTypes ==
  /\ maxIndex \in [Bases -> Nat]
  /\ content \in [Bases -> [ListKeys -> Indexes \cup {None}]]
  /\ rec \in [Bases -> [Indexes -> Recs]]
  /\ lclient \in [ListClients -> ListOps]
  /\ listOps \in 0..MaxListOps
  /\ \A c \in ListClients : lclient[c].pc # "idle" =>
       lclient[c].path \in Paths /\ Len(lclient[c].base) < Len(lclient[c].path)

OneChanger == \A b \in Bases : \A c, d \in Changing(b) : c = d

\* How far a change has come.
StandsAt(c) ==
  LET b == lclient[c].base
      k == KeyOf(lclient[c])
      i == lclient[c].i
  IN /\ lclient[c].pc \in {"max", "content", "unrecord"} => content[b][k] = None
     /\ lclient[c].pc \in {"content", "raise"} => i = maxIndex[b] /\ i \in Indexes
     /\ lclient[c].pc \in {"raise", "record", "erase"} => content[b][k] = i /\ i \in Indexes
     /\ lclient[c].pc = "record" => i < maxIndex[b] /\ (rec[b][i] = NoRec \/ rec[b][i].key = k)
     /\ lclient[c].pc = "unrecord" => i \in Indexes /\ rec[b][i].key = k

KeysHaveRecords(b) ==
  \A k \in ListKeys : content[b][k] # None =>
    \/ content[b][k] < maxIndex[b] /\ rec[b][content[b][k]].key = k
    \/ \E c \in Changing(b) : lclient[c].pc \in {"raise", "record"} /\ KeyOf(lclient[c]) = k

RecordsHaveKeys(b) ==
  \A i \in Indexes : rec[b][i] # NoRec =>
    \/ content[b][rec[b][i].key] = i
    \/ \E c \in Changing(b) : lclient[c].pc = "unrecord" /\ lclient[c].i = i

ChangesStand ==
  /\ OneChanger
  /\ \A c \in ListClients : StandsAt(c)
  /\ \A b \in Bases : KeysHaveRecords(b) /\ RecordsHaveKeys(b)

\* The operations that may still raise A.n of list b.
Raising(b) ==
  {c \in ListClients : /\ lclient[c].pc # "idle" /\ Len(lclient[c].path) > Len(b)
                       /\ \/ Len(lclient[c].base) < Len(b)
                          \/ /\ lclient[c].base = b
                             /\ lclient[c].pc \in {"find", "send", "max", "content", "raise"}}

IndexesFit ==
  \A b \in Bases : IsFiniteSet(Raising(b)) /\ maxIndex[b] + Cardinality(Raising(b)) <= listOps

\* The whole invariant, as long as nothing overlapped and no access failed.
ListsStand == ListTypes /\ ChangesStand /\ IndexesFit
ListInv == Quiet => ListsStand

LEMMA PathFacts ==
  ASSUME NEW p \in Paths
  PROVE  /\ p \in Seq(ListKeys)
         /\ 1 <= Len(p) /\ Len(p) <= 2
         /\ \A n \in 1..Len(p) : p[n] \in ListKeys
PROOF
<1>1. CASE \E k \in OuterKeys : p = <<k>>
  BY <1>1 DEF ListKeys
<1>2. CASE \E k \in OuterKeys, w \in InnerKeys : p = <<k, w>>
  BY <1>2 DEF ListKeys
<1> QED
  BY <1>1, <1>2 DEF Paths

LEMMA BaseFacts ==
  /\ <<>> \in Bases
  /\ \A i \in Indexes : <<i>> \in Bases
  /\ \A b \in Bases : b \in Seq(Indexes) /\ Len(b) <= 1
PROOF
<1>1. ASSUME NEW b \in Bases PROVE b \in Seq(Indexes) /\ Len(b) <= 1
  <2>1. CASE b = <<>>
    BY <2>1
  <2>2. CASE \E i \in Indexes : b = <<i>>
    BY <2>2
  <2> QED
    BY <2>1, <2>2 DEF Bases
<1> QED
  BY <1>1 DEF Bases

\* Of two levels, the one above the last is the first.
LEMMA Depths ==
  \A m, n \in Nat : m <= 1 /\ n <= 2 /\ m < n /\ n # m + 1 => m = 0 /\ n = 2
PROOF
OBVIOUS

\* The list an operation is in, and the key it looks for there.
LEMMA KeyFacts ==
  ASSUME ListTypes, NEW c \in ListClients, lclient[c].pc # "idle"
  PROVE  lclient[c].base \in Bases /\ KeyOf(lclient[c]) \in ListKeys
PROOF
<1>1. lclient[c].base \in Bases /\ lclient[c].path \in Paths /\ Len(lclient[c].base) < Len(lclient[c].path)
  BY DEF ListTypes, ListOps
<1>2. Len(lclient[c].base) + 1 \in 1..Len(lclient[c].path)
  BY <1>1, BaseFacts, PathFacts
<1> QED
  BY <1>1, <1>2, PathFacts DEF KeyOf

\* An operation goes on to another stage, list or index.
Moved(c, p, b, i) ==
  /\ lclient' \in [ListClients -> ListOps]
  /\ lclient'[c].pc = p /\ lclient'[c].base = b /\ lclient'[c].i = i
  /\ lclient'[c].path = lclient[c].path /\ lclient'[c].op = lclient[c].op /\ lclient'[c].val = lclient[c].val
  /\ lclient'[c].before = lclient[c].before /\ lclient'[c].alone = lclient[c].alone
  /\ \A d \in ListClients \ {c} : lclient'[d] = lclient[d]

LEMMA MoveFacts ==
  ASSUME ListTypes, NEW c \in ListClients, NEW p \in OpStages, NEW b \in Bases, NEW i \in Indexes \cup {None}
  PROVE  /\ lclient' = [lclient EXCEPT ![c].pc = p, ![c].base = b, ![c].i = i] => Moved(c, p, b, i)
         /\ lclient' = [lclient EXCEPT ![c].pc = p, ![c].i = i] => Moved(c, p, lclient[c].base, i)
         /\ lclient' = [lclient EXCEPT ![c].pc = p] => Moved(c, p, lclient[c].base, lclient[c].i)
PROOF
<1>1. lclient \in [ListClients -> ListOps]
  BY DEF ListTypes
<1>2. ASSUME lclient' = [lclient EXCEPT ![c].pc = p, ![c].base = b, ![c].i = i] PROVE Moved(c, p, b, i)
  BY <1>1, <1>2, ZenonT(60) DEF Moved, ListOps
<1>3. ASSUME lclient' = [lclient EXCEPT ![c].pc = p, ![c].i = i] PROVE Moved(c, p, lclient[c].base, i)
  BY <1>1, <1>3 DEF Moved, ListOps
<1>4. ASSUME lclient' = [lclient EXCEPT ![c].pc = p] PROVE Moved(c, p, lclient[c].base, lclient[c].i)
  BY <1>1, <1>4 DEF Moved, ListOps
<1> QED
  BY <1>2, <1>3, <1>4

LEMMA MoveTypes ==
  ASSUME ListTypes, NEW c \in ListClients, NEW p, NEW b, NEW i, Moved(c, p, b, i),
         lclient[c].pc # "idle", Len(b) < Len(lclient[c].path), UNCHANGED listOps,
         maxIndex' \in [Bases -> Nat], content' \in [Bases -> [ListKeys -> Indexes \cup {None}]],
         rec' \in [Bases -> [Indexes -> Recs]]
  PROVE  ListTypes'
PROOF
BY DEF ListTypes, Moved

\* An operation ends.
LEMMA EndFacts ==
  ASSUME ListTypes, NEW c \in ListClients, lclient' = [lclient EXCEPT ![c] = IdleOp]
  PROVE  /\ lclient' \in [ListClients -> ListOps]
         /\ lclient'[c].pc = "idle"
         /\ \A d \in ListClients \ {c} : lclient'[d] = lclient[d]
PROOF
<1>1. IdleOp \in ListOps /\ IdleOp.pc = "idle"
  BY BaseFacts DEF IdleOp, ListOps, OpStages
<1> QED
  BY <1>1 DEF ListTypes

LEMMA EndTypes ==
  ASSUME ListTypes, NEW c \in ListClients, lclient' = [lclient EXCEPT ![c] = IdleOp], UNCHANGED listOps,
         maxIndex' \in [Bases -> Nat], content' \in [Bases -> [ListKeys -> Indexes \cup {None}]],
         rec' \in [Bases -> [Indexes -> Recs]]
  PROVE  ListTypes' /\ \A b \in Bases : Raising(b)' \subseteq Raising(b)
PROOF
<1>1. /\ lclient' \in [ListClients -> ListOps] /\ lclient'[c].pc = "idle"
      /\ \A d \in ListClients \ {c} : lclient'[d] = lclient[d]
  BY EndFacts
<1>2. ListTypes'
  BY <1>1 DEF ListTypes
<1>3. \A b \in Bases : Raising(b)' \subseteq Raising(b)
  BY <1>1 DEF Raising
<1> QED
  BY <1>2, <1>3

\* An operation goes on to the list inside an entry.
LEMMA DescendFacts ==
  ASSUME ListTypes, NEW c \in ListClients, lclient[c].pc # "idle", ~AtLeaf(lclient[c]), NEW j \in Indexes,
         lclient' = [lclient EXCEPT ![c].pc = "send", ![c].base = <<j>>, ![c].i = None]
  PROVE  /\ <<j>> \in Bases /\ Len(<<j>>) < Len(lclient[c].path)
         /\ Moved(c, "send", <<j>>, None)
         /\ \A x \in Bases : Raising(x)' \subseteq Raising(x)
PROOF
<1> DEFINE b == lclient[c].base
<1>1. b \in Bases /\ lclient[c].path \in Paths /\ Len(b) < Len(lclient[c].path)
  BY DEF ListTypes, ListOps
<1>2. Len(b) = 0 /\ Len(lclient[c].path) = 2
  <2>1. b \in Seq(Indexes) /\ Len(b) <= 1
    BY <1>1, BaseFacts
  <2>2. lclient[c].path \in Seq(ListKeys) /\ Len(lclient[c].path) <= 2
    BY <1>1, PathFacts
  <2>3. Len(lclient[c].path) # Len(b) + 1
    BY DEF AtLeaf
  <2>4. Len(b) \in Nat /\ Len(lclient[c].path) \in Nat
    BY <2>1, <2>2
  <2> QED
    BY <1>1, <2>1, <2>2, <2>3, <2>4, Depths, Zenon
<1>3. <<j>> \in Bases /\ Len(<<j>>) = 1 /\ Len(<<j>>) < Len(lclient[c].path)
  BY <1>2, BaseFacts
<1>4. Moved(c, "send", <<j>>, None)
  BY <1>3, MoveFacts DEF OpStages
<1>5. ASSUME NEW x \in Bases, c \in Raising(x)' PROVE c \in Raising(x)
  <2>1. lclient'[c].base = <<j>> /\ ~(1 < Len(x))
    <3>1. x \in Seq(Indexes) /\ Len(x) <= 1
      BY <1>5, BaseFacts
    <3> QED
      BY <1>4, <3>1 DEF Moved
  <2>2. x = <<j>>
    BY <1>3, <1>5, <2>1 DEF Raising
  <2> QED
    BY <1>1, <1>2, <1>3, <2>2 DEF Raising
<1>6. \A x \in Bases : Raising(x)' \subseteq Raising(x)
  <2> SUFFICES ASSUME NEW x \in Bases, NEW d \in Raising(x)', d # c PROVE d \in Raising(x)
    BY <1>5
  <2> QED
    BY <1>4 DEF Raising, Moved
<1> QED
  BY <1>3, <1>4, <1>6

\* Nothing but the step of c changes what may still raise A.n.
LEMMA FitKept ==
  ASSUME ListTypes, IndexesFit, UNCHANGED listOps, maxIndex' \in [Bases -> Nat],
         \A b \in Bases : Raising(b)' \subseteq Raising(b),
         \A b \in Bases : \/ maxIndex'[b] = maxIndex[b]
                          \/ /\ maxIndex'[b] = maxIndex[b] + 1
                             /\ \E c \in Raising(b) : c \notin Raising(b)'
  PROVE  IndexesFit'
PROOF
<1> SUFFICES ASSUME NEW b \in Bases
             PROVE  IsFiniteSet(Raising(b)') /\ maxIndex'[b] + Cardinality(Raising(b)') <= listOps
  BY DEF IndexesFit
<1> DEFINE R == Raising(b)  S == Raising(b)'
<1>1. IsFiniteSet(R) /\ maxIndex[b] + Cardinality(R) <= listOps /\ S \subseteq R
  BY DEF IndexesFit
<1>2. \/ maxIndex'[b] = maxIndex[b]
      \/ maxIndex'[b] = maxIndex[b] + 1 /\ \E c \in R : c \notin S
  OBVIOUS
<1>3. maxIndex[b] \in Nat /\ maxIndex'[b] \in Nat /\ listOps \in Nat
  BY DEF ListTypes, ListAssumption
<1> HIDE DEF R, S
<1>4. IsFiniteSet(S) /\ Cardinality(S) <= Cardinality(R)
  BY <1>1, FS_Subset
<1>5. ASSUME NEW c \in R, c \notin S PROVE Cardinality(S) <= Cardinality(R) - 1
  <2>1. IsFiniteSet(R \ {c}) /\ Cardinality(R \ {c}) = Cardinality(R) - 1
    BY <1>1, FS_RemoveElement
  <2>2. S \in SUBSET (R \ {c})
    BY <1>1, <1>5
  <2> QED
    BY <2>1, <2>2, FS_Subset
<1>6. Cardinality(R) \in Nat /\ Cardinality(S) \in Nat
  BY <1>1, <1>4, FS_CardinalityType
<1>7. maxIndex'[b] + Cardinality(S) <= listOps
  BY <1>1, <1>2, <1>3, <1>4, <1>5, <1>6
<1> QED
  BY <1>4, <1>7 DEF S

ChangeStages == {"max", "content", "raise", "record", "erase", "unrecord"}

\* The step of an operation that only looks.
LEMMA LookKeeps ==
  ASSUME ListsStand, NEW c \in ListClients, NEW p \in OpStages, NEW b \in Bases, NEW i \in Indexes \cup {None},
         lclient[c].pc \in {"send", "find", "lookup", "max"}, p # "idle", Len(b) < Len(lclient[c].path),
         Moved(c, p, b, i), UNCHANGED <<store, listOps>>,
         p \in ChangeStages => b = lclient[c].base /\ \A d \in Changing(b) : d = c,
         p \in {"max", "content"} => content[b][KeyOf(lclient[c])] = None,
         p = "content" => i = maxIndex[b] /\ i \in Indexes,
         p \in {"record", "erase"} => i # None /\ content[b][KeyOf(lclient[c])] = i,
         p \notin {"raise", "unrecord"},
         \A x \in Bases : Raising(x)' \subseteq Raising(x)
  PROVE  ListsStand'
PROOF
<1>1. ListTypes'
  BY DEF ListTypes, ListsStand, Moved, store
<1>2. \A x \in Bases : \A d \in Changing(x)' : \/ d # c /\ d \in Changing(x)
                                               \/ d = c /\ x = b /\ p \in ChangeStages
  BY DEF Changing, ChangeStages, Moved
<1>3. OneChanger'
  BY <1>2 DEF OneChanger, ListsStand, ChangesStand
<1>4. ASSUME NEW d \in ListClients PROVE StandsAt(d)'
  <2>1. CASE d # c
    <3>1. lclient'[d] = lclient[d]
      BY <2>1 DEF Moved
    <3> QED
      BY <3>1 DEF ListsStand, ChangesStand, StandsAt, store
  <2>2. CASE d = c
    <3>1. lclient'[c].pc = p /\ lclient'[c].base = b /\ lclient'[c].i = i
      BY DEF Moved
    <3>2. p \in ChangeStages => KeyOf(lclient'[c]) = KeyOf(lclient[c])
      BY <3>1 DEF Moved, KeyOf
    <3>3. CASE p = "record"
      <4>1. content[b][KeyOf(lclient[c])] = i /\ i # None /\ i \in Indexes /\ KeyOf(lclient[c]) \in ListKeys
        BY <3>3, KeyFacts DEF ListsStand
      <4>2. i < maxIndex[b] /\ rec[b][i].key = KeyOf(lclient[c])
        <5>1. \A e \in Changing(b) : e = c
          BY <3>3 DEF ChangeStages
        <5> QED
          BY <3>3, <4>1, <5>1 DEF ListsStand, ChangesStand, KeysHaveRecords
      <4> QED
        BY <2>2, <3>1, <3>2, <3>3, <4>1, <4>2 DEF StandsAt, store, ChangeStages
    <3>4. CASE p # "record"
      BY <2>2, <3>1, <3>2, <3>4 DEF StandsAt, store, ChangeStages
    <3> QED
      BY <3>3, <3>4
  <2> QED
    BY <2>1, <2>2
<1>5. \A x \in Bases : \A d \in Changing(x) : lclient[d].pc \in {"raise", "record", "unrecord"} =>
        d \in Changing(x)' /\ lclient'[d] = lclient[d]
  BY DEF Changing, Moved
<1>6. \A x \in Bases : KeysHaveRecords(x)'
  BY <1>5 DEF KeysHaveRecords, ListsStand, ChangesStand, store
<1>7. \A x \in Bases : RecordsHaveKeys(x)'
  BY <1>5 DEF RecordsHaveKeys, ListsStand, ChangesStand, store
<1>8. IndexesFit'
  BY <1>1, FitKept DEF ListsStand, store, ListTypes
<1> QED
  BY <1>1, <1>3, <1>4, <1>6, <1>7, <1>8 DEF ListsStand, ChangesStand

\* Serve, and the two lookups db_lv_vec_find() and keyindex_max_get().
LEMMA ServeKeeps ==
  ASSUME ListsStand, NEW c \in ListClients, Serve(c)
  PROVE  ListsStand'
PROOF
<1> DEFINE p == IF lclient[c].op = "del" THEN "lookup" ELSE "find"
<1>1. lclient[c].pc = "send" /\ lclient[c].base \in Bases /\ lclient[c].i \in Indexes \cup {None}
      /\ Len(lclient[c].base) < Len(lclient[c].path)
  BY DEF Serve, ListsStand, ListTypes, ListOps
<1>2. p \in OpStages \ ChangeStages /\ p # "idle" /\ p \notin {"record", "erase"}
  BY DEF OpStages, ChangeStages
<1>3. lclient' = [lclient EXCEPT ![c].pc = p] /\ UNCHANGED <<store, listOps>>
  BY DEF Serve, Step
<1> HIDE DEF p
<1>4. Moved(c, p, lclient[c].base, lclient[c].i)
  BY <1>1, <1>2, <1>3, MoveFacts DEF ListsStand
<1>5. \A x \in Bases : Raising(x)' \subseteq Raising(x)
  BY <1>1, <1>4 DEF Raising, Moved
<1> QED
  BY <1>1, <1>2, <1>3, <1>4, <1>5, LookKeeps DEF ChangeStages

LEMMA VecFindKeeps ==
  ASSUME ListsStand, NEW c \in ListClients, VecFind(c), Quiet'
  PROVE  ListsStand'
PROOF
<1> DEFINE b == lclient[c].base  k == KeyOf(lclient[c])  j == content[b][k]
<1>1. lclient[c].pc = "find" /\ b \in Bases /\ lclient[c].i \in Indexes \cup {None}
      /\ Len(b) < Len(lclient[c].path) /\ k \in ListKeys /\ j \in Indexes \cup {None}
  BY KeyFacts DEF VecFind, ListsStand, ListTypes, ListOps
<1>2. Changing(b) = {} /\ UNCHANGED <<store, listOps>>
  BY DEF VecFind, Quiet
<1>3. CASE j = None
  <2>1. lclient' = [lclient EXCEPT ![c].pc = "max"]
    BY <1>3 DEF VecFind, Step
  <2>2. Moved(c, "max", b, lclient[c].i)
    BY <1>1, <2>1, MoveFacts DEF ListsStand, OpStages
  <2>3. \A x \in Bases : Raising(x)' \subseteq Raising(x)
    BY <1>1, <2>2 DEF Raising, Moved
  <2> QED
    BY <1>1, <1>2, <1>3, <2>2, <2>3, LookKeeps DEF ChangeStages, OpStages
<1>4. CASE j # None /\ AtLeaf(lclient[c])
  <2>1. lclient' = [lclient EXCEPT ![c].pc = "record", ![c].i = j]
    BY <1>4 DEF VecFind, Found
  <2>2. Moved(c, "record", b, j)
    BY <1>1, <2>1, MoveFacts DEF ListsStand, OpStages
  <2>3. \A x \in Bases : Raising(x)' \subseteq Raising(x)
    BY <1>1, <2>2 DEF Raising, Moved
  <2> QED
    BY <1>1, <1>2, <1>4, <2>2, <2>3, LookKeeps DEF ChangeStages, OpStages
<1>5. CASE j # None /\ ~AtLeaf(lclient[c])
  <2>1. lclient' = [lclient EXCEPT ![c].pc = "send", ![c].base = <<j>>, ![c].i = None]
    BY <1>5 DEF VecFind, Found
  <2>2. j \in Indexes
    BY <1>1, <1>5
  <2>3. /\ <<j>> \in Bases /\ Len(<<j>>) < Len(lclient[c].path)
        /\ Moved(c, "send", <<j>>, None)
        /\ \A x \in Bases : Raising(x)' \subseteq Raising(x)
    BY <1>1, <1>5, <2>1, <2>2, DescendFacts DEF ListsStand
  <2> QED
    BY <1>1, <1>2, <2>3, LookKeeps, ZenonT(60) DEF ChangeStages, OpStages
<1> QED
  BY <1>3, <1>4, <1>5

LEMMA IndexMaxGetKeeps ==
  ASSUME ListsStand, NEW c \in ListClients, IndexMaxGet(c)
  PROVE  ListsStand'
PROOF
<1> DEFINE b == lclient[c].base  n == maxIndex[b]
<1>1. lclient[c].pc = "max" /\ b \in Bases /\ Len(b) < Len(lclient[c].path)
      /\ n \in Nat /\ c \in Changing(b) /\ content[b][KeyOf(lclient[c])] = None
  BY DEF IndexMaxGet, ListsStand, ListTypes, ListOps, Changing, ChangesStand, StandsAt
<1>2. n \in Indexes
  <2>1. c \in Raising(b)
    BY <1>1 DEF Raising
  <2>2. IsFiniteSet(Raising(b)) /\ n + Cardinality(Raising(b)) <= listOps
    BY <1>1 DEF ListsStand, IndexesFit
  <2>3. Cardinality(Raising(b)) \in Nat /\ Cardinality(Raising(b)) # 0
    BY <2>1, <2>2, FS_CardinalityType, FS_EmptySet
  <2>4. listOps \in Nat /\ listOps <= MaxListOps
    BY ListAssumption DEF ListsStand, ListTypes
  <2> QED
    BY <1>1, <2>2, <2>3, <2>4, ListAssumption DEF Indexes
<1>3. lclient' = [lclient EXCEPT ![c].pc = "content", ![c].i = n] /\ UNCHANGED <<store, listOps>>
  BY DEF IndexMaxGet, Rest
<1>4. Moved(c, "content", b, n)
  BY <1>1, <1>2, <1>3, MoveFacts DEF ListsStand, OpStages
<1>5. \A x \in Bases : Raising(x)' \subseteq Raising(x)
  BY <1>1, <1>4 DEF Raising, Moved
<1>6. \A d \in Changing(b) : d = c
  BY <1>1 DEF ListsStand, ChangesStand, OneChanger
<1> QED
  BY <1>1, <1>2, <1>3, <1>4, <1>5, <1>6, LookKeeps DEF ChangeStages, OpStages

\* The step of the one operation that changes list b touches no other list.
LEMMA ChangeKeeps ==
  ASSUME ListsStand, NEW c \in ListClients, NEW b, b = lclient[c].base, lclient[c].pc \in ChangeStages,
         ListTypes', \A d \in ListClients \ {c} : lclient'[d] = lclient[d],
         \A x \in Bases \ {b} : maxIndex'[x] = maxIndex[x] /\ content'[x] = content[x] /\ rec'[x] = rec[x],
         lclient'[c].pc \in ChangeStages => lclient'[c].base = b,
         StandsAt(c)', KeysHaveRecords(b)', RecordsHaveKeys(b)'
  PROVE  ChangesStand'
PROOF
<1>1. b \in Bases /\ c \in Changing(b) /\ \A d \in Changing(b) : d = c
  BY DEF Changing, ChangeStages, ListsStand, ListTypes, ListOps, ChangesStand, OneChanger
<1>2. \A d \in Changing(b)' : d = c
  BY <1>1 DEF Changing
<1>3. \A x \in Bases \ {b} : Changing(x)' = Changing(x) /\ c \notin Changing(x)
  BY <1>1 DEF Changing, ChangeStages
<1>4. OneChanger'
  BY <1>2, <1>3 DEF OneChanger, ListsStand, ChangesStand
<1>5. ASSUME NEW d \in ListClients, d # c PROVE StandsAt(d)'
  <2>1. lclient'[d] = lclient[d] /\ StandsAt(d) /\ lclient[d].base \in Bases
    BY <1>5 DEF ListsStand, ListTypes, ListOps, ChangesStand
  <2>2. CASE lclient[d].pc \in ChangeStages
    <3>1. d \in Changing(lclient[d].base)
      BY <2>2 DEF Changing, ChangeStages
    <3>2. lclient[d].base # b
      BY <1>1, <1>5, <3>1
    <3> QED
      BY <2>1, <3>2 DEF StandsAt
  <2>3. CASE lclient[d].pc \notin ChangeStages
    BY <2>1, <2>3 DEF StandsAt, ChangeStages
  <2> QED
    BY <2>2, <2>3
<1>6. ASSUME NEW x \in Bases, x # b PROVE KeysHaveRecords(x)' /\ RecordsHaveKeys(x)'
  <2>1. KeysHaveRecords(x) /\ RecordsHaveKeys(x)
    BY DEF ListsStand, ChangesStand
  <2>2. Changing(x)' = Changing(x) /\ \A d \in Changing(x) : lclient'[d] = lclient[d]
    BY <1>3, <1>6 DEF Changing
  <2> QED
    BY <1>6, <2>1, <2>2 DEF KeysHaveRecords, RecordsHaveKeys
<1> QED
  BY <1>4, <1>5, <1>6 DEF ChangesStand

\* What is known of the operation that changes a list, and of the list.
LEMMA ChangerFacts ==
  ASSUME ListsStand, NEW c \in ListClients, lclient[c].pc \in ChangeStages
  PROVE  /\ lclient[c].base \in Bases /\ KeyOf(lclient[c]) \in ListKeys /\ lclient[c].i \in Indexes \cup {None}
         /\ lclient[c].path \in Paths /\ Len(lclient[c].base) < Len(lclient[c].path)
         /\ StandsAt(c) /\ KeysHaveRecords(lclient[c].base) /\ RecordsHaveKeys(lclient[c].base)
         /\ Changing(lclient[c].base) = {c}
PROOF
<1>1. lclient[c].pc # "idle"
  BY DEF ChangeStages
<1>2. lclient[c].base \in Bases /\ KeyOf(lclient[c]) \in ListKeys /\ lclient[c].i \in Indexes \cup {None}
      /\ lclient[c].path \in Paths /\ Len(lclient[c].base) < Len(lclient[c].path)
  BY <1>1, KeyFacts DEF ListsStand, ListTypes, ListOps
<1>3. c \in Changing(lclient[c].base)
  BY DEF Changing, ChangeStages
<1> QED
  BY <1>2, <1>3 DEF ListsStand, ChangesStand, OneChanger

LEMMA ContentSetKeeps ==
  ASSUME ListsStand, NEW c \in ListClients, ContentSet(c)
  PROVE  ListsStand'
PROOF
<1> DEFINE b == lclient[c].base  k == KeyOf(lclient[c])  i == lclient[c].i
<1>1. lclient[c].pc = "content" /\ lclient[c].pc \in ChangeStages
  BY DEF ContentSet, ChangeStages
<1>2. b \in Bases /\ k \in ListKeys /\ Changing(b) = {c} /\ KeysHaveRecords(b) /\ RecordsHaveKeys(b)
      /\ i = maxIndex[b] /\ i \in Indexes /\ Len(b) < Len(lclient[c].path)
  BY <1>1, ChangerFacts DEF StandsAt
<1>3. content' = [content EXCEPT ![b][k] = i] /\ UNCHANGED <<maxIndex, rec, listOps>>
  BY DEF ContentSet, Rest
<1>4. Moved(c, "raise", b, i)
  BY <1>1, <1>2, MoveFacts DEF ContentSet, Step, ListsStand, OpStages
<1>5. ListTypes'
  BY <1>1, <1>2, <1>3, <1>4 DEF ListsStand, ListTypes, Moved
<1>6. content \in [Bases -> [ListKeys -> Indexes \cup {None}]] /\ rec \in [Bases -> [Indexes -> Recs]]
  BY DEF ListsStand, ListTypes
<1>7. /\ content'[b][k] = i /\ \A x \in ListKeys \ {k} : content'[b][x] = content[b][x]
      /\ \A x \in Bases \ {b} : content'[x] = content[x]
  BY <1>2, <1>3, <1>6
<1>8. KeyOf(lclient'[c]) = k /\ lclient'[c].pc = "raise" /\ lclient'[c].base = b /\ lclient'[c].i = i
  BY <1>4 DEF Moved, KeyOf
<1>9. c \in Changing(b)'
  BY <1>8 DEF Changing
<1>10. StandsAt(c)'
  BY <1>2, <1>3, <1>7, <1>8 DEF StandsAt
<1>11. KeysHaveRecords(b)'
  BY <1>1, <1>2, <1>3, <1>7, <1>8, <1>9 DEF KeysHaveRecords
<1>12. RecordsHaveKeys(b)'
  <2> SUFFICES ASSUME NEW n \in Indexes, rec[b][n] # NoRec PROVE content'[b][rec[b][n].key] = n
    BY <1>3, <1>8 DEF RecordsHaveKeys
  <2>1. content[b][rec[b][n].key] = n
    BY <1>1, <1>2 DEF RecordsHaveKeys
  <2>2. rec[b][n].key \in ListKeys
    BY <1>2, <1>6 DEF Recs
  <2>3. content[b][k] = None
    BY <1>1, <1>2, <1>6, ChangerFacts DEF StandsAt, KeysHaveRecords
  <2> QED
    BY <1>7, <2>1, <2>2, <2>3 DEF None, Indexes
<1>13. ChangesStand'
  BY <1>1, <1>3, <1>4, <1>5, <1>7, <1>8, <1>10, <1>11, <1>12, ChangeKeeps DEF Moved
<1>14. \A x \in Bases : Raising(x)' \subseteq Raising(x)
  BY <1>1, <1>4 DEF Raising, Moved
<1> QED
  BY <1>3, <1>5, <1>13, <1>14, FitKept DEF ListsStand, ListTypes

LEMMA IndexMaxSetKeeps ==
  ASSUME ListsStand, NEW c \in ListClients, IndexMaxSet(c)
  PROVE  ListsStand'
PROOF
<1> DEFINE b == lclient[c].base  k == KeyOf(lclient[c])  i == lclient[c].i
<1>1. lclient[c].pc = "raise" /\ lclient[c].pc \in ChangeStages
  BY DEF IndexMaxSet, ChangeStages
<1>2. b \in Bases /\ k \in ListKeys /\ Changing(b) = {c} /\ KeysHaveRecords(b) /\ RecordsHaveKeys(b)
      /\ i = maxIndex[b] /\ i \in Indexes /\ content[b][k] = i /\ Len(b) < Len(lclient[c].path)
  BY <1>1, ChangerFacts DEF StandsAt
<1>3. maxIndex' = [maxIndex EXCEPT ![b] = i + 1] /\ UNCHANGED <<content, rec, listOps>>
  BY DEF IndexMaxSet, Rest
<1>4. Moved(c, "record", b, i)
  BY <1>1, <1>2, MoveFacts DEF IndexMaxSet, Found, ListsStand, OpStages
<1>5. i \in Nat
  BY <1>2 DEF Indexes
<1>6. maxIndex \in [Bases -> Nat] /\ content \in [Bases -> [ListKeys -> Indexes \cup {None}]]
      /\ rec \in [Bases -> [Indexes -> Recs]]
  BY DEF ListsStand, ListTypes
<1>7. ListTypes'
  <2>1. maxIndex' \in [Bases -> Nat]
    <3>1. i + 1 \in Nat
      BY <1>5
    <3> DEFINE n == i + 1
    <3>2. maxIndex' = [maxIndex EXCEPT ![b] = n] /\ n \in Nat
      BY <1>3, <3>1
    <3> HIDE DEF n
    <3> QED
      BY <1>2, <1>6, <3>2
  <2> QED
    BY <1>1, <1>2, <1>3, <1>4, <1>6, <2>1, MoveTypes DEF ListsStand
<1>8. maxIndex'[b] = i + 1 /\ \A x \in Bases \ {b} : maxIndex'[x] = maxIndex[x]
  BY <1>2, <1>3, <1>6
<1>9. KeyOf(lclient'[c]) = k /\ lclient'[c].pc = "record" /\ lclient'[c].base = b /\ lclient'[c].i = i
  BY <1>4 DEF Moved, KeyOf
<1>10. c \in Changing(b)'
  BY <1>9 DEF Changing
<1>11. rec[b][i] = NoRec \/ rec[b][i].key = k
  <2> SUFFICES ASSUME rec[b][i] # NoRec PROVE rec[b][i].key = k
    OBVIOUS
  <2>1. content[b][rec[b][i].key] = i
    BY <1>1, <1>2 DEF RecordsHaveKeys
  <2>2. rec[b][i].key \in ListKeys /\ i # None
    BY <1>2, <1>6, <1>5 DEF Recs, None
  <2>3. ~(i < maxIndex[b])
    BY <1>2, <1>5
  <2> QED
    BY <1>1, <1>2, <2>1, <2>2, <2>3 DEF KeysHaveRecords
<1>12. StandsAt(c)'
  <2>1. i < i + 1
    BY <1>5
  <2> QED
    BY <1>2, <1>3, <1>8, <1>9, <1>11, <2>1 DEF StandsAt
<1>13. KeysHaveRecords(b)'
  <2> SUFFICES ASSUME NEW x \in ListKeys, content[b][x] # None
               PROVE  \/ content[b][x] < maxIndex'[b] /\ rec[b][content[b][x]].key = x
                      \/ x = k
    BY <1>3, <1>9, <1>10 DEF KeysHaveRecords
  <2> SUFFICES ASSUME x # k PROVE content[b][x] < maxIndex'[b] /\ rec[b][content[b][x]].key = x
    OBVIOUS
  <2>1. content[b][x] < maxIndex[b] /\ rec[b][content[b][x]].key = x
    BY <1>2 DEF KeysHaveRecords
  <2>2. content[b][x] \in Nat
    BY <1>2, <1>6 DEF Indexes
  <2> QED
    BY <1>2, <1>5, <1>8, <2>1, <2>2
<1>14. RecordsHaveKeys(b)'
  BY <1>1, <1>2, <1>3, <1>9 DEF RecordsHaveKeys
<1>15. ChangesStand'
  BY <1>1, <1>3, <1>4, <1>7, <1>8, <1>9, <1>12, <1>13, <1>14, ChangeKeeps DEF Moved
<1>16. \A x \in Bases : Raising(x)' \subseteq Raising(x)
  BY <1>1, <1>4 DEF Raising, Moved
<1>17. c \in Raising(b) /\ c \notin Raising(b)'
  <2>1. c \in Raising(b)
    BY <1>1, <1>2 DEF Raising
  <2>2. b \in Seq(Indexes)
    BY <1>2, BaseFacts
  <2>3. ~(Len(b) < Len(b))
    BY <2>2
  <2> QED
    BY <1>9, <2>1, <2>3 DEF Raising
<1>18. \A x \in Bases :
         \/ maxIndex'[x] = maxIndex[x]
         \/ maxIndex'[x] = maxIndex[x] + 1 /\ \E d \in Raising(x) : d \notin Raising(x)'
  BY <1>2, <1>8, <1>9, <1>17
<1>19. IndexesFit'
  BY <1>3, <1>7, <1>16, <1>18, FitKept DEF ListsStand, ListTypes
<1> QED
  BY <1>7, <1>15, <1>19 DEF ListsStand

\* A new record is one that is there.
LEMMA NewVarsFacts ==
  ASSUME NEW op, NEW val \in Vals \cup {NoVal}, NEW old \in Recs, NEW k \in ListKeys
  PROVE  LET r == [key |-> k, b |-> NewVars(op, val, old)]
             s == [key |-> k, b |-> Default]
         IN r \in Recs /\ r # NoRec /\ s \in Recs /\ s # NoRec
PROOF
<1>1. NewVars(op, val, old) \in Vals \cup {Default}
  BY DEF NewVars, Recs
<1>2. ASSUME NEW v \in Vals \cup {Default}
      PROVE  [key |-> k, b |-> v] \in Recs /\ [key |-> k, b |-> v] # NoRec
  <2>1. [key |-> k, b |-> v] \in Recs
    BY DEF Recs
  <2>2. [key |-> k, b |-> v].b # NoRec.b
    BY ListAssumption DEF NoRec
  <2> QED
    BY <2>1, <2>2
<1> QED
  BY <1>1, <1>2

LEMMA RecordSetKeeps ==
  ASSUME ListsStand, NEW c \in ListClients, RecordSet(c)
  PROVE  ListsStand'
PROOF
<1>0. PICK b, k, i : b = lclient[c].base /\ k = KeyOf(lclient[c]) /\ i = lclient[c].i
  OBVIOUS
<1>1. lclient[c].pc = "record" /\ lclient[c].pc \in ChangeStages /\ lclient[c].pc # "idle"
  BY DEF RecordSet, ChangeStages
<1>2. b \in Bases /\ k \in ListKeys /\ Changing(b) = {c} /\ KeysHaveRecords(b) /\ RecordsHaveKeys(b)
      /\ i < maxIndex[b] /\ (rec[b][i] = NoRec \/ rec[b][i].key = k) /\ i \in Indexes /\ content[b][k] = i
  BY <1>0, <1>1, ChangerFacts DEF StandsAt
<1>3. maxIndex \in [Bases -> Nat] /\ content \in [Bases -> [ListKeys -> Indexes \cup {None}]]
      /\ rec \in [Bases -> [Indexes -> Recs]] /\ lclient[c].val \in Vals \cup {NoVal}
  BY DEF ListsStand, ListTypes, ListOps
<1>4. UNCHANGED <<maxIndex, content, listOps>>
  BY DEF RecordSet
<1>5. PICK r \in Recs : r.key = k /\ r # NoRec /\ rec' = [rec EXCEPT ![b][i] = r]
  <2> DEFINE r1 == [key |-> k, b |-> NewVars(lclient[c].op, lclient[c].val, rec[b][i])]
             r2 == [key |-> k, b |-> Default]
  <2>1. r1 \in Recs /\ r1 # NoRec /\ r2 \in Recs /\ r2 # NoRec
    BY <1>2, <1>3, NewVarsFacts
  <2>2. rec' = [rec EXCEPT ![b][i] = r1] \/ rec' = [rec EXCEPT ![b][i] = r2]
    BY <1>0, <1>2, <1>3 DEF RecordSet
  <2>3. r1.key = k /\ r2.key = k
    OBVIOUS
  <2> HIDE DEF r1, r2
  <2> QED
    BY <2>1, <2>2, <2>3
<1>6. /\ rec' \in [Bases -> [Indexes -> Recs]] /\ rec'[b][i] = r
      /\ \A n \in Indexes \ {i} : rec'[b][n] = rec[b][n]
      /\ \A x \in Bases \ {b} : rec'[x] = rec[x]
  BY <1>2, <1>3, <1>5
<1>7. /\ ListTypes' /\ lclient'[c].pc \in OpStages \ ChangeStages
      /\ \A d \in ListClients \ {c} : lclient'[d] = lclient[d]
      /\ \A x \in Bases : Raising(x)' \subseteq Raising(x)
  <2>1. CASE AtLeaf(lclient[c])
    <3>1. lclient' = [lclient EXCEPT ![c] = IdleOp]
      BY <2>1 DEF RecordSet
    <3>2. lclient'[c].pc = "idle" /\ \A d \in ListClients \ {c} : lclient'[d] = lclient[d]
      BY <3>1, EndFacts DEF ListsStand
    <3> QED
      BY <1>3, <1>4, <1>6, <3>1, <3>2, EndTypes DEF ListsStand, OpStages, ChangeStages
  <2>2. CASE ~AtLeaf(lclient[c])
    <3>1. lclient' = [lclient EXCEPT ![c].pc = "send", ![c].base = <<i>>, ![c].i = None]
      BY <1>0, <2>2 DEF RecordSet
    <3>2. /\ <<i>> \in Bases /\ Len(<<i>>) < Len(lclient[c].path)
          /\ Moved(c, "send", <<i>>, None)
          /\ \A x \in Bases : Raising(x)' \subseteq Raising(x)
      BY <1>1, <1>2, <2>2, <3>1, DescendFacts DEF ListsStand
    <3>3. ListTypes'
      BY <1>1, <1>3, <1>4, <1>6, <3>2, MoveTypes DEF ListsStand
    <3> QED
      BY <3>2, <3>3 DEF Moved, OpStages, ChangeStages
  <2> QED
    BY <2>1, <2>2
<1>8. StandsAt(c)'
  BY <1>7 DEF StandsAt, ChangeStages
<1>9. KeysHaveRecords(b)'
  <2> SUFFICES ASSUME NEW x \in ListKeys, content[b][x] # None
               PROVE  content[b][x] < maxIndex[b] /\ rec'[b][content[b][x]].key = x
    BY <1>4 DEF KeysHaveRecords
  <2>1. CASE x = k
    BY <1>2, <1>5, <1>6, <2>1
  <2>2. CASE x # k
    <3>1. content[b][x] < maxIndex[b] /\ rec[b][content[b][x]].key = x
      BY <1>0, <1>2, <2>2 DEF KeysHaveRecords
    <3>2. rec[b][i].key # x
      BY <1>2, <2>2, ListAssumption DEF NoRec, ListKeys
    <3>3. content[b][x] \in Indexes \ {i}
      BY <1>2, <1>3, <3>1, <3>2
    <3> QED
      BY <1>6, <3>1, <3>3
  <2> QED
    BY <2>1, <2>2
<1>10. RecordsHaveKeys(b)'
  <2> SUFFICES ASSUME NEW n \in Indexes, rec'[b][n] # NoRec
               PROVE  content[b][rec'[b][n].key] = n
    BY <1>4 DEF RecordsHaveKeys
  <2>1. CASE n = i
    BY <1>2, <1>5, <1>6, <2>1
  <2>2. CASE n # i
    BY <1>1, <1>2, <1>6, <2>2 DEF RecordsHaveKeys
  <2> QED
    BY <2>1, <2>2
<1>11. ChangesStand'
  BY <1>1, <1>4, <1>6, <1>7, <1>8, <1>9, <1>10, <1>0, ChangeKeeps
<1>12. IndexesFit'
  BY <1>4, <1>7, FitKept DEF ListsStand, ListTypes
<1> QED
  BY <1>7, <1>11, <1>12 DEF ListsStand

LEMMA VecDelKeeps ==
  ASSUME ListsStand, NEW c \in ListClients, VecDel(c), Quiet'
  PROVE  ListsStand'
PROOF
<1>0. PICK b, k, j : b = lclient[c].base /\ k = KeyOf(lclient[c]) /\ j = content[b][k]
  OBVIOUS
<1>1. lclient[c].pc = "lookup" /\ b \in Bases /\ Len(b) < Len(lclient[c].path)
      /\ k \in ListKeys /\ j \in Indexes \cup {None}
  BY <1>0, KeyFacts DEF VecDel, ListsStand, ListTypes, ListOps
<1>2. Changing(b) = {} /\ UNCHANGED <<store, listOps>>
  BY <1>0 DEF VecDel, Quiet
<1>3. CASE j = None
  <2>1. lclient' = [lclient EXCEPT ![c] = IdleOp]
    BY <1>0, <1>3 DEF VecDel
  <2>2. lclient'[c].pc = "idle" /\ \A d \in ListClients \ {c} : lclient'[d] = lclient[d]
    BY <2>1, EndFacts DEF ListsStand
  <2>3. ListTypes' /\ \A x \in Bases : Raising(x)' \subseteq Raising(x)
    BY <1>2, <2>1, EndTypes DEF ListsStand, ListTypes, store
  <2>4. \A x \in Bases : Changing(x)' = Changing(x)
    BY <1>1, <2>2 DEF Changing
  <2>5. \A x \in Bases : \A d \in Changing(x) : lclient'[d] = lclient[d]
    BY <1>1, <2>2 DEF Changing
  <2>6. \A d \in ListClients : StandsAt(d)'
    BY <1>2, <2>2 DEF ListsStand, ChangesStand, StandsAt, store
  <2>7. ChangesStand'
    BY <1>2, <2>4, <2>5, <2>6 DEF ListsStand, ChangesStand, OneChanger, KeysHaveRecords, RecordsHaveKeys, store
  <2>8. IndexesFit'
    BY <1>2, <2>3, FitKept DEF ListsStand, ListTypes, store
  <2> QED
    BY <2>3, <2>7, <2>8 DEF ListsStand
<1>4. CASE j # None
  <2>1. lclient' = [lclient EXCEPT ![c].pc = "erase", ![c].i = j]
    BY <1>0, <1>4 DEF VecDel
  <2>2. Moved(c, "erase", b, j)
    BY <1>0, <1>1, <2>1, MoveFacts DEF ListsStand, OpStages
  <2>3. \A x \in Bases : Raising(x)' \subseteq Raising(x)
    BY <1>0, <1>1, <2>2 DEF Raising, Moved
  <2> QED
    BY <1>0, <1>1, <1>2, <1>4, <2>2, <2>3, LookKeeps DEF ChangeStages, OpStages
<1> QED
  BY <1>3, <1>4

LEMMA ContentDelKeeps ==
  ASSUME ListsStand, NEW c \in ListClients, ContentDel(c)
  PROVE  ListsStand'
PROOF
<1>0. PICK b, k, i : b = lclient[c].base /\ k = KeyOf(lclient[c]) /\ i = lclient[c].i
  OBVIOUS
<1>1. lclient[c].pc = "erase" /\ lclient[c].pc \in ChangeStages
  BY DEF ContentDel, ChangeStages
<1>2. b \in Bases /\ k \in ListKeys /\ Changing(b) = {c} /\ KeysHaveRecords(b) /\ RecordsHaveKeys(b)
      /\ i \in Indexes /\ content[b][k] = i /\ Len(b) < Len(lclient[c].path)
  BY <1>0, <1>1, ChangerFacts DEF StandsAt
<1>3. content' = [content EXCEPT ![b][k] = None] /\ UNCHANGED <<maxIndex, rec, listOps>>
  BY <1>0 DEF ContentDel, Rest
<1>4. Moved(c, "unrecord", b, i)
  BY <1>0, <1>1, <1>2, MoveFacts DEF ContentDel, Step, ListsStand, OpStages
<1>5. /\ maxIndex \in [Bases -> Nat] /\ content \in [Bases -> [ListKeys -> Indexes \cup {None}]]
      /\ rec \in [Bases -> [Indexes -> Recs]] /\ i # None
  BY <1>2 DEF ListsStand, ListTypes, None, Indexes
<1>6. /\ content' \in [Bases -> [ListKeys -> Indexes \cup {None}]] /\ content'[b][k] = None
      /\ \A x \in ListKeys \ {k} : content'[b][x] = content[b][x]
      /\ \A x \in Bases \ {b} : content'[x] = content[x]
  BY <1>2, <1>3, <1>5
<1>7. ListTypes'
  BY <1>1, <1>2, <1>3, <1>4, <1>5, <1>6, MoveTypes DEF ListsStand
<1>8. KeyOf(lclient'[c]) = k /\ lclient'[c].pc = "unrecord" /\ lclient'[c].base = b /\ lclient'[c].i = i
  BY <1>0, <1>4 DEF Moved, KeyOf
<1>9. c \in Changing(b)'
  BY <1>8 DEF Changing
<1>10. rec[b][i].key = k
  BY <1>1, <1>2, <1>5 DEF KeysHaveRecords
<1>11. StandsAt(c)'
  BY <1>2, <1>3, <1>6, <1>8, <1>10 DEF StandsAt
<1>12. KeysHaveRecords(b)'
  BY <1>1, <1>2, <1>3, <1>6 DEF KeysHaveRecords
<1>13. RecordsHaveKeys(b)'
  <2> SUFFICES ASSUME NEW n \in Indexes, rec[b][n] # NoRec, n # i PROVE content'[b][rec[b][n].key] = n
    BY <1>3, <1>8, <1>9 DEF RecordsHaveKeys
  <2>1. content[b][rec[b][n].key] = n
    BY <1>1, <1>2 DEF RecordsHaveKeys
  <2>2. rec[b][n].key \in ListKeys /\ rec[b][n].key # k
    BY <1>2, <1>5, <2>1 DEF Recs
  <2> QED
    BY <1>6, <2>1, <2>2
<1>14. ChangesStand'
  BY <1>0, <1>1, <1>3, <1>4, <1>6, <1>7, <1>8, <1>11, <1>12, <1>13, ChangeKeeps DEF Moved
<1>15. \A x \in Bases : Raising(x)' \subseteq Raising(x)
  BY <1>0, <1>1, <1>4 DEF Raising, Moved
<1>16. IndexesFit'
  BY <1>3, <1>7, <1>15, FitKept DEF ListsStand, ListTypes
<1> QED
  BY <1>7, <1>14, <1>16 DEF ListsStand

LEMMA RecordDelKeeps ==
  ASSUME ListsStand, NEW c \in ListClients, RecordDel(c)
  PROVE  ListsStand'
PROOF
<1>0. PICK b, k, i : b = lclient[c].base /\ k = KeyOf(lclient[c]) /\ i = lclient[c].i
  OBVIOUS
<1>1. lclient[c].pc = "unrecord" /\ lclient[c].pc \in ChangeStages
  BY DEF RecordDel, ChangeStages
<1>2. b \in Bases /\ k \in ListKeys /\ Changing(b) = {c} /\ KeysHaveRecords(b) /\ RecordsHaveKeys(b)
      /\ i \in Indexes /\ content[b][k] = None /\ rec[b][i].key = k
  BY <1>0, <1>1, ChangerFacts DEF StandsAt
<1>3. rec' = [rec EXCEPT ![b][i] = NoRec] /\ UNCHANGED <<maxIndex, content, listOps>>
  BY <1>0 DEF RecordDel
<1>4. /\ maxIndex \in [Bases -> Nat] /\ content \in [Bases -> [ListKeys -> Indexes \cup {None}]]
      /\ rec \in [Bases -> [Indexes -> Recs]]
  BY DEF ListsStand, ListTypes
<1>5. /\ rec' \in [Bases -> [Indexes -> Recs]] /\ rec'[b][i] = NoRec
      /\ \A n \in Indexes \ {i} : rec'[b][n] = rec[b][n]
      /\ \A x \in Bases \ {b} : rec'[x] = rec[x]
  <2>1. NoRec \in Recs
    BY DEF Recs
  <2> QED
    BY <1>2, <1>3, <1>4, <2>1
<1>6. lclient' = [lclient EXCEPT ![c] = IdleOp]
  BY DEF RecordDel
<1>7. lclient'[c].pc = "idle" /\ \A d \in ListClients \ {c} : lclient'[d] = lclient[d]
  BY <1>6, EndFacts DEF ListsStand
<1>8. ListTypes' /\ \A x \in Bases : Raising(x)' \subseteq Raising(x)
  BY <1>3, <1>4, <1>5, <1>6, EndTypes DEF ListsStand
<1>9. StandsAt(c)'
  BY <1>7 DEF StandsAt
<1>10. KeysHaveRecords(b)'
  <2> SUFFICES ASSUME NEW x \in ListKeys, content[b][x] # None
               PROVE  content[b][x] < maxIndex[b] /\ rec'[b][content[b][x]].key = x
    BY <1>3 DEF KeysHaveRecords
  <2>1. content[b][x] < maxIndex[b] /\ rec[b][content[b][x]].key = x
    BY <1>1, <1>2 DEF KeysHaveRecords
  <2>2. content[b][x] \in Indexes \ {i}
    BY <1>2, <1>4, <2>1
  <2> QED
    BY <1>5, <2>1, <2>2
<1>11. RecordsHaveKeys(b)'
  <2> SUFFICES ASSUME NEW n \in Indexes, rec'[b][n] # NoRec PROVE content[b][rec'[b][n].key] = n
    BY <1>3 DEF RecordsHaveKeys
  <2>1. n # i /\ rec'[b][n] = rec[b][n]
    BY <1>5
  <2> QED
    BY <1>0, <1>2, <2>1 DEF RecordsHaveKeys
<1>12. ChangesStand'
  BY <1>0, <1>1, <1>3, <1>5, <1>7, <1>8, <1>9, <1>10, <1>11, ChangeKeeps DEF ChangeStages
<1>13. IndexesFit'
  BY <1>3, <1>8, FitKept DEF ListsStand, ListTypes
<1> QED
  BY <1>8, <1>12, <1>13 DEF ListsStand

LEMMA ViewType ==
  ASSUME ListTypes
  PROVE  View \in Views
PROOF
<1> SUFFICES ASSUME NEW p \in Paths PROVE View[p] \in Recs
  BY DEF View, ViewOf, Views
<1>0. PICK i : i = content[<<>>][p[1]]
  OBVIOUS
<1>1. PICK j : j = IF i = None \/ Len(p) = 1 THEN i ELSE content[<<i>>][p[2]]
  OBVIOUS
<1>2. View[p] = IF j = None THEN NoRec ELSE rec[SubSeq(<<i>>, 1, Len(p) - 1)][j]
  BY <1>0, <1>1 DEF View, ViewOf
<1>3. NoRec \in Recs
  BY DEF Recs
<1>4. content \in [Bases -> [ListKeys -> Indexes \cup {None}]] /\ rec \in [Bases -> [Indexes -> Recs]]
  BY DEF ListTypes
<1>5. CASE \E k \in OuterKeys : p = <<k>>
  <2>1. Len(p) = 1 /\ p[1] \in ListKeys
    BY <1>5 DEF ListKeys
  <2>2. i \in Indexes \cup {None} /\ j = i
    BY <1>0, <1>1, <1>4, <2>1, BaseFacts
  <2>3. SubSeq(<<i>>, 1, Len(p) - 1) = <<>>
    BY <2>1
  <2> QED
    BY <1>2, <1>3, <1>4, <2>2, <2>3, BaseFacts
<1>6. CASE \E k \in OuterKeys, w \in InnerKeys : p = <<k, w>>
  <2>1. Len(p) = 2 /\ p[1] \in ListKeys /\ p[2] \in ListKeys
    BY <1>6 DEF ListKeys
  <2>2. i \in Indexes \cup {None}
    BY <1>0, <1>4, <2>1, BaseFacts
  <2>3. CASE i = None
    BY <1>1, <1>2, <1>3, <2>3
  <2>4. CASE i # None
    <3>1. i \in Indexes /\ <<i>> \in Bases
      BY <2>2, <2>4, BaseFacts
    <3>2. j \in Indexes \cup {None}
      BY <1>1, <1>4, <2>1, <2>4, <3>1
    <3>3. SubSeq(<<i>>, 1, Len(p) - 1) = <<i>>
      <4>0. <<i>> \in Seq(Indexes) /\ Len(<<i>>) = 1
        BY <3>1
      <4>1. PICK s \in Seq(Indexes) : s = <<i>> /\ Len(s) = 1
        BY <4>0, Zenon
      <4>2. SubSeq(s, 1, Len(s)) = s
        BY SubSeqFull
      <4>3. Len(p) - 1 = Len(s)
        BY <2>1, <4>1
      <4> QED
        BY <4>1, <4>2, <4>3
    <3> QED
      BY <1>2, <1>3, <1>4, <3>1, <3>2, <3>3
  <2> QED
    BY <2>3, <2>4
<1> QED
  BY <1>5, <1>6 DEF Paths

LEMMA CliDbopKeeps ==
  ASSUME ListsStand, NEW c \in ListClients, NEW op \in {"set", "merge", "del"}, NEW path \in Paths,
         NEW val \in Vals \cup {NoVal}, CliDbop(c, op, path, val)
  PROVE  ListsStand'
PROOF
<1>1. /\ lclient[c].pc = "idle" /\ listOps < MaxListOps /\ listOps' = listOps + 1
      /\ UNCHANGED store
  BY DEF CliDbop
<1>2. PICK p : p = IF Len(path) = 1 THEN "send" ELSE "find"
  OBVIOUS
<1>3. lclient' = [d \in ListClients |->
        IF d = c THEN [pc |-> p, op |-> op, path |-> path, val |-> val, base |-> <<>>, i |-> None,
                       before |-> View, alone |-> (Busy = {})]
        ELSE [lclient[d] EXCEPT !.alone = (lclient[d].pc = "idle")]]
  BY <1>2 DEF CliDbop
<1>4. lclient \in [ListClients -> ListOps]
  BY DEF ListsStand, ListTypes
<1>5. /\ lclient'[c] \in ListOps /\ lclient'[c].pc = p /\ lclient'[c].path = path /\ lclient'[c].base = <<>>
  <2>1. lclient'[c] = [pc |-> p, op |-> op, path |-> path, val |-> val, base |-> <<>>, i |-> None,
                       before |-> View, alone |-> (Busy = {})]
    BY <1>3
  <2>2. View \in Views /\ p \in OpStages /\ <<>> \in Bases /\ (Busy = {}) \in BOOLEAN
    BY <1>2, ViewType, BaseFacts DEF ListsStand, OpStages
  <2> QED
    BY <2>1, <2>2 DEF ListOps
<1>6. ASSUME NEW d \in ListClients, d # c
      PROVE  /\ lclient'[d] \in ListOps /\ lclient'[d].pc = lclient[d].pc /\ lclient'[d].path = lclient[d].path
             /\ lclient'[d].base = lclient[d].base /\ lclient'[d].i = lclient[d].i
  <2>1. lclient'[d] = [lclient[d] EXCEPT !.alone = (lclient[d].pc = "idle")]
    BY <1>3, <1>6
  <2>2. lclient[d] \in ListOps /\ (lclient[d].pc = "idle") \in BOOLEAN
    BY <1>4
  <2> QED
    BY <2>1, <2>2 DEF ListOps
<1>7. p \notin ChangeStages /\ p # "idle"
  BY <1>2 DEF ChangeStages
<1>8. 0 < Len(path)
  <2>1. path \in Seq(ListKeys) /\ 1 <= Len(path)
    BY PathFacts
  <2> QED
    BY <2>1
<1>9. listOps \in Nat /\ listOps' \in Nat /\ listOps' \in 0..MaxListOps
  BY <1>1, ListAssumption DEF ListsStand, ListTypes
<1>10. lclient' \in [ListClients -> ListOps]
  BY <1>3, <1>5, <1>6
<1>11. ListTypes'
  <2>1. \A d \in ListClients : lclient'[d].pc # "idle" =>
          lclient'[d].path \in Paths /\ Len(lclient'[d].base) < Len(lclient'[d].path)
    BY <1>5, <1>6, <1>8 DEF ListsStand, ListTypes
  <2> QED
    BY <1>1, <1>9, <1>10, <2>1 DEF ListsStand, ListTypes, store
<1>12. \A b \in Bases : Changing(b)' = Changing(b)
  BY <1>1, <1>5, <1>6, <1>7 DEF Changing, ChangeStages
<1>13. \A d \in ListClients : StandsAt(d)'
  <2>1. StandsAt(c)'
    BY <1>5, <1>7 DEF StandsAt, ChangeStages
  <2>2. ASSUME NEW d \in ListClients, d # c PROVE StandsAt(d)'
    BY <1>1, <1>6, <2>2 DEF StandsAt, KeyOf, store, ListsStand, ChangesStand
  <2> QED
    BY <2>1, <2>2
<1>14. ChangesStand'
  <2>1. ASSUME NEW b \in Bases, NEW d \in Changing(b)
        PROVE  /\ lclient'[d].pc = lclient[d].pc /\ lclient'[d].i = lclient[d].i
               /\ KeyOf(lclient'[d]) = KeyOf(lclient[d])
    <3>1. d \in ListClients /\ d # c
      BY <1>1, <2>1 DEF Changing
    <3> QED
      BY <1>6, <3>1 DEF KeyOf
  <2>2. OneChanger'
    BY <1>12 DEF OneChanger, ListsStand, ChangesStand
  <2>3. ASSUME NEW b \in Bases PROVE KeysHaveRecords(b)' /\ RecordsHaveKeys(b)'
    BY <1>1, <1>12, <2>1 DEF KeysHaveRecords, RecordsHaveKeys, ListsStand, ChangesStand, store
  <2> QED
    BY <1>13, <2>2, <2>3 DEF ChangesStand
<1>15. IndexesFit'
  <2> SUFFICES ASSUME NEW b \in Bases
               PROVE  IsFiniteSet(Raising(b)') /\ maxIndex[b] + Cardinality(Raising(b)') <= listOps'
    BY <1>1 DEF IndexesFit, store
  <2> DEFINE R == Raising(b)  S == Raising(b)'
  <2>1. S \subseteq R \cup {c}
    BY <1>6 DEF Raising
  <2>2. IsFiniteSet(R) /\ maxIndex[b] + Cardinality(R) <= listOps /\ maxIndex[b] \in Nat
    BY DEF ListsStand, IndexesFit, ListTypes
  <2> HIDE DEF R, S
  <2>3. IsFiniteSet(R \cup {c}) /\ Cardinality(R \cup {c}) <= Cardinality(R) + 1 /\ Cardinality(R) \in Nat
    <3>1. Cardinality(R) \in Nat
      BY <2>2, FS_CardinalityType
    <3>2. /\ IsFiniteSet(R \cup {c})
          /\ Cardinality(R \cup {c}) = IF c \in R THEN Cardinality(R) ELSE Cardinality(R) + 1
      BY <2>2, FS_AddElement
    <3> QED
      BY <3>1, <3>2
  <2>4. IsFiniteSet(S) /\ Cardinality(S) <= Cardinality(R \cup {c})
    BY <2>1, <2>3, FS_Subset
  <2>5. Cardinality(S) \in Nat /\ Cardinality(R \cup {c}) \in Nat
    BY <2>3, <2>4, FS_CardinalityType
  <2>6. maxIndex[b] + Cardinality(S) <= listOps'
    BY <1>1, <1>9, <2>2, <2>3, <2>4, <2>5
  <2> QED
    BY <2>4, <2>6 DEF S
<1> QED
  BY <1>11, <1>14, <1>15 DEF ListsStand

LEMMA ListStart == ListInit => ListsStand
PROOF
<1> SUFFICES ASSUME ListInit PROVE ListsStand
  OBVIOUS
<1>1. IdleOp \in ListOps /\ IdleOp.pc = "idle"
  BY BaseFacts DEF IdleOp, ListOps, OpStages
<1>2. NoRec \in Recs
  BY DEF Recs
<1>3. \A c \in ListClients : lclient[c].pc = "idle"
  BY <1>1 DEF ListInit
<1>4. ListTypes
  <2>1. 0 \in 0..MaxListOps
    BY ListAssumption
  <2> QED
    BY <1>1, <1>2, <1>3, <2>1 DEF ListInit, ListTypes
<1>5. ChangesStand
  BY <1>3 DEF ListInit, ChangesStand, OneChanger, Changing, StandsAt, KeysHaveRecords, RecordsHaveKeys
<1>6. IndexesFit
  <2>1. \A b \in Bases : Raising(b) = {}
    BY <1>3 DEF Raising
  <2>2. \A b \in Bases : maxIndex[b] = 0 /\ listOps = 0
    BY DEF ListInit
  <2> QED
    BY <2>1, <2>2, FS_EmptySet DEF IndexesFit
<1> QED
  BY <1>4, <1>5, <1>6 DEF ListsStand

\* The invariant gives the property.
LEMMA StandsIndexed == ListInv => ListsIndexed
PROOF
<1> SUFFICES ASSUME ListsStand, NEW b \in Bases, Changing(b) = {}
             PROVE  /\ \A k \in ListKeys : content[b][k] # None =>
                         content[b][k] < maxIndex[b] /\ rec[b][content[b][k]].key = k
                    /\ \A i \in Indexes : rec[b][i] # NoRec => content[b][rec[b][i].key] = i
  BY DEF ListInv, ListsIndexed
<1> QED
  BY DEF ListsStand, ChangesStand, KeysHaveRecords, RecordsHaveKeys

\* Nothing makes a failure or an overlap undone.
LEMMA QuietBefore ==
  ASSUME [ListNext]_listVars, Quiet'
  PROVE  Quiet
PROOF
<1>1. CASE UNCHANGED listVars
  BY <1>1 DEF listVars, Quiet
<1>2. CASE ListNext
  <2>1. PICK c \in ListClients :
          \/ \E p \in Paths : \/ CliDbop(c, "del", p, NoVal)
                              \/ \E op \in {"set", "merge"}, v \in Vals \cup {NoVal} : CliDbop(c, op, p, v)
          \/ Serve(c) \/ VecFind(c) \/ IndexMaxGet(c) \/ ContentSet(c) \/ IndexMaxSet(c) \/ RecordSet(c)
          \/ VecDel(c) \/ ContentDel(c) \/ RecordDel(c) \/ DbFails(c)
    BY <1>2 DEF ListNext
  <2>2. CASE VecFind(c) \/ VecDel(c)
    <3>1. (overlapped => overlapped') /\ dbFailed' = dbFailed
      BY <2>2, Zenon DEF VecFind, VecDel
    <3> QED
      BY <3>1, Zenon DEF Quiet
  <2>3. CASE Serve(c) \/ IndexMaxGet(c) \/ ContentSet(c) \/ IndexMaxSet(c) \/ RecordSet(c) \/ ContentDel(c) \/ RecordDel(c)
    <3>1. overlapped' = overlapped /\ dbFailed' = dbFailed
      BY <2>3 DEF Serve, IndexMaxGet, ContentSet, IndexMaxSet, RecordSet, ContentDel, RecordDel, Rest
    <3> QED
      BY <3>1, Zenon DEF Quiet
  <2>4. CASE \E p \in Paths : \/ CliDbop(c, "del", p, NoVal)
                              \/ \E op \in {"set", "merge"}, v \in Vals \cup {NoVal} : CliDbop(c, op, p, v)
    BY <2>4 DEF CliDbop
  <2>5. CASE DbFails(c)
    BY <2>5 DEF DbFails, Quiet
  <2> QED
    BY <2>1, <2>2, <2>3, <2>4, <2>5
<1> QED
  BY <1>1, <1>2

\* A step that leaves nothing overlapped and no access failed keeps the
\* invariant.
LEMMA ListStep == ListInv /\ [ListNext]_listVars => ListInv'
PROOF
<1> SUFFICES ASSUME ListInv, [ListNext]_listVars, Quiet' PROVE ListsStand'
  BY DEF ListInv
<1>1. CASE UNCHANGED listVars
  <2>1. ListsStand
    BY <1>1 DEF listVars, Quiet, ListInv
  <2>2. ListTypes' /\ IndexesFit'
    BY <1>1, <2>1 DEF listVars, store, ListsStand, ListTypes, IndexesFit, Raising
  <2>3. ChangesStand'
    BY <1>1, <2>1 DEF listVars, store, ListsStand, ChangesStand, OneChanger, Changing, StandsAt, KeysHaveRecords,
       RecordsHaveKeys
  <2> QED
    BY <2>2, <2>3 DEF ListsStand
<1>2. CASE ListNext
  <2>1. PICK c \in ListClients :
          \/ \E p \in Paths : \/ CliDbop(c, "del", p, NoVal)
                              \/ \E op \in {"set", "merge"}, v \in Vals \cup {NoVal} : CliDbop(c, op, p, v)
          \/ Serve(c) \/ VecFind(c) \/ IndexMaxGet(c) \/ ContentSet(c) \/ IndexMaxSet(c) \/ RecordSet(c)
          \/ VecDel(c) \/ ContentDel(c) \/ RecordDel(c) \/ DbFails(c)
    BY <1>2 DEF ListNext
  <2>2. Quiet
    BY QuietBefore
  <2>3. ListsStand
    BY <2>2 DEF ListInv
  <2>4. CASE \E p \in Paths : \/ CliDbop(c, "del", p, NoVal)
                              \/ \E op \in {"set", "merge"}, v \in Vals \cup {NoVal} : CliDbop(c, op, p, v)
    BY <2>3, <2>4, CliDbopKeeps
  <2>5. CASE Serve(c)
    BY <2>3, <2>5, ServeKeeps
  <2>6. CASE VecFind(c)
    BY <2>3, <2>6, VecFindKeeps
  <2>7. CASE IndexMaxGet(c)
    BY <2>3, <2>7, IndexMaxGetKeeps
  <2>8. CASE ContentSet(c)
    BY <2>3, <2>8, ContentSetKeeps
  <2>9. CASE IndexMaxSet(c)
    BY <2>3, <2>9, IndexMaxSetKeeps
  <2>10. CASE RecordSet(c)
    BY <2>3, <2>10, RecordSetKeeps
  <2>11. CASE VecDel(c)
    BY <2>3, <2>11, VecDelKeeps
  <2>12. CASE ContentDel(c)
    BY <2>3, <2>12, ContentDelKeeps
  <2>13. CASE RecordDel(c)
    BY <2>3, <2>13, RecordDelKeeps
  <2>14. CASE DbFails(c)
    BY <2>14 DEF DbFails, Quiet
  <2> QED
    BY <2>1, <2>4, <2>5, <2>6, <2>7, <2>8, <2>9, <2>10, <2>11, <2>12, <2>13, <2>14
<1> QED
  BY <1>1, <1>2

\* However many CLIs change a list, in whatever order: as long as no two of
\* them were in the same list and no access failed, the keys A.n.<value> and
\* the entries A.i of every list that nobody is in the middle of belong
\* together one to one, and A.n lies above them.
THEOREM ListsStayIndexed == ListDbSpec => []ListsIndexed
PROOF
<1>1. ListInit => ListInv
  BY ListStart DEF ListInv
<1> QED
  BY <1>1, ListStep, StandsIndexed, PTL DEF ListDbSpec

------------------------------------------------------------------------------
(***************************************************************************)
(* What one operation does to the list, when no other runs.  Until its     *)
(* last but one write the view of the list is the one it began with, but   *)
(* for the outer entry that it has made: a new entry is not seen before    *)
(* its record is written, and it is empty because an index that is not     *)
(* below A.n has never been used.                                          *)
(***************************************************************************)

Contents == [Bases -> [ListKeys -> Indexes \cup {None}]]
Records == [Bases -> [Indexes -> Recs]]

\* What the view says of an outer and of an inner path.
OuterOf(cc, r, k) == IF cc[<<>>][k] = None THEN NoRec ELSE r[<<>>][cc[<<>>][k]]
InnerOf(cc, r, k, w) ==
  LET y == cc[<<>>][k]
  IN IF y = None \/ cc[<<y>>][w] = None THEN NoRec ELSE r[<<y>>][cc[<<y>>][w]]

LEMMA OuterView ==
  ASSUME NEW m, NEW cc \in Contents, NEW r \in Records, NEW k \in OuterKeys
  PROVE  ViewOf(m, cc, r)[<<k>>] = OuterOf(cc, r, k) /\ OuterOf(cc, r, k) \in Recs
PROOF
<1>1. PICK i : i = cc[<<>>][k]
  OBVIOUS
<1>2. i \in Indexes \cup {None}
  BY <1>1, BaseFacts DEF ListKeys, Contents
<1>3. PICK p : p = <<k>>
  OBVIOUS
<1>4. p \in Paths /\ Len(p) = 1 /\ p[1] = k /\ SubSeq(<<i>>, 1, Len(p) - 1) = <<>>
  BY <1>3 DEF Paths
<1>5. ViewOf(m, cc, r)[p] = IF i = None THEN NoRec ELSE r[<<>>][i]
  BY <1>1, <1>4 DEF ViewOf
<1>6. OuterOf(cc, r, k) = IF i = None THEN NoRec ELSE r[<<>>][i]
  BY <1>1 DEF OuterOf
<1>7. OuterOf(cc, r, k) \in Recs
  BY <1>2, <1>6, BaseFacts DEF Records, Recs
<1> QED
  BY <1>3, <1>5, <1>6, <1>7, Zenon

LEMMA InnerView ==
  ASSUME NEW m, NEW cc \in Contents, NEW r \in Records, NEW k \in OuterKeys, NEW w \in InnerKeys
  PROVE  ViewOf(m, cc, r)[<<k, w>>] = InnerOf(cc, r, k, w) /\ InnerOf(cc, r, k, w) \in Recs
PROOF
<1>1. PICK i : i = cc[<<>>][k]
  OBVIOUS
<1>2. PICK j : j = IF i = None THEN None ELSE cc[<<i>>][w]
  OBVIOUS
<1>3. PICK p : p = <<k, w>>
  OBVIOUS
<1>4. i \in Indexes \cup {None}
  BY <1>1, BaseFacts DEF ListKeys, Contents
<1>5. i # None => <<i>> \in Bases
  BY <1>4, BaseFacts
<1>6. j \in Indexes \cup {None}
  BY <1>2, <1>5 DEF ListKeys, Contents
<1>7. p \in Paths /\ Len(p) = 2 /\ p[1] = k /\ p[2] = w
  BY <1>3 DEF Paths
<1>8. SubSeq(<<i>>, 1, Len(p) - 1) = <<i>>
  <2>1. PICK s \in Seq(Indexes \cup {None}) : s = <<i>> /\ Len(s) = 1
    <3>1. <<i>> \in Seq(Indexes \cup {None}) /\ Len(<<i>>) = 1
      BY <1>4
    <3> QED
      BY <3>1, Zenon
  <2>2. SubSeq(s, 1, Len(s)) = s
    BY SubSeqFull
  <2>3. Len(p) - 1 = Len(s)
    BY <1>7, <2>1
  <2> QED
    BY <2>1, <2>2, <2>3
<1>9. ViewOf(m, cc, r)[p] = IF j = None THEN NoRec ELSE r[<<i>>][j]
  <2>1. j = IF i = None \/ Len(p) = 1 THEN i ELSE cc[<<i>>][p[2]]
    BY <1>2, <1>7
  <2>2. ViewOf(m, cc, r)[p] = IF j = None THEN NoRec ELSE r[SubSeq(<<i>>, 1, Len(p) - 1)][j]
    BY <1>1, <1>7, <2>1 DEF ViewOf
  <2> QED
    BY <1>8, <2>2
<1>10. InnerOf(cc, r, k, w) = IF j = None THEN NoRec ELSE r[<<i>>][j]
  BY <1>1, <1>2 DEF InnerOf
<1>11. InnerOf(cc, r, k, w) \in Recs
  BY <1>2, <1>5, <1>6, <1>10 DEF Records, Recs
<1> QED
  BY <1>3, <1>9, <1>10, <1>11, Zenon

LEMMA ViewKind ==
  ASSUME NEW m, NEW cc \in Contents, NEW r \in Records
  PROVE  ViewOf(m, cc, r) \in Views
PROOF
<1>0. PICK v : v = ViewOf(m, cc, r)
  OBVIOUS
<1>1. ASSUME NEW p \in Paths PROVE v[p] \in Recs
  <2>1. ASSUME NEW k \in OuterKeys, p = <<k>> PROVE v[p] \in Recs
    BY <1>0, <2>1, OuterView, Zenon
  <2>2. ASSUME NEW k \in OuterKeys, NEW w \in InnerKeys, p = <<k, w>> PROVE v[p] \in Recs
    BY <1>0, <2>2, InnerView, Zenon
  <2> QED
    BY <2>1, <2>2 DEF Paths
<1>2. v = [p \in Paths |-> v[p]]
  BY <1>0 DEF ViewOf
<1> QED
  BY <1>0, <1>1, <1>2 DEF Views

LEMMA PutFacts ==
  ASSUME NEW v \in Views, NEW p \in Paths, NEW x \in Recs
  PROVE  /\ [v EXCEPT ![p] = x] \in Views
         /\ \A q \in Paths : [v EXCEPT ![p] = x][q] = IF q = p THEN x ELSE v[q]
PROOF
BY DEF Views

\* What the database says, path by path.
Says(cc, r, v) ==
  /\ \A k \in OuterKeys : OuterOf(cc, r, k) = v[<<k>>]
  /\ \A k \in OuterKeys, w \in InnerKeys : InnerOf(cc, r, k, w) = v[<<k, w>>]

LEMMA ViewSays ==
  ASSUME NEW m, NEW cc \in Contents, NEW r \in Records
  PROVE  ViewOf(m, cc, r) \in Views /\ Says(cc, r, ViewOf(m, cc, r))
PROOF
BY ViewKind, OuterView, InnerView, Zenon DEF Says

LEMMA SaysView ==
  ASSUME NEW m, NEW cc \in Contents, NEW r \in Records, NEW v \in Views, Says(cc, r, v)
  PROVE  ViewOf(m, cc, r) = v
PROOF
<1>0. PICK u \in Views : u = ViewOf(m, cc, r)
  BY ViewKind, Zenon
<1>1. \A k \in OuterKeys : u[<<k>>] = v[<<k>>]
  BY <1>0, OuterView, Zenon DEF Says
<1>2. \A k \in OuterKeys, w \in InnerKeys : u[<<k, w>>] = v[<<k, w>>]
  BY <1>0, InnerView, Zenon DEF Says
<1>3. ASSUME NEW p \in Paths PROVE u[p] = v[p]
  <2>1. ASSUME NEW k \in OuterKeys, p = <<k>> PROVE u[p] = v[p]
    BY <1>1, <2>1, Zenon
  <2>2. ASSUME NEW k \in OuterKeys, NEW w \in InnerKeys, p = <<k, w>> PROVE u[p] = v[p]
    BY <1>2, <2>2, Zenon
  <2> QED
    BY <2>1, <2>2 DEF Paths
<1>4. u = v
  BY <1>3 DEF Views
<1> QED
  BY <1>0, <1>4

LEMMA PathsAre == /\ \A k \in OuterKeys : <<k>> \in Paths
                  /\ \A k \in OuterKeys, w \in InnerKeys : <<k, w>> \in Paths
PROOF
BY DEF Paths

LEMMA PutSays ==
  ASSUME NEW cc, NEW s, NEW v \in Views, NEW p \in Paths, NEW x \in Recs,
         \A k \in OuterKeys : OuterOf(cc, s, k) = IF <<k>> = p THEN x ELSE v[<<k>>],
         \A k \in OuterKeys, w \in InnerKeys : InnerOf(cc, s, k, w) = IF <<k, w>> = p THEN x ELSE v[<<k, w>>]
  PROVE  [v EXCEPT ![p] = x] \in Views /\ Says(cc, s, [v EXCEPT ![p] = x])
PROOF
<1>1. PICK z : z = [v EXCEPT ![p] = x]
  OBVIOUS
<1>2. z \in Views /\ \A q \in Paths : z[q] = IF q = p THEN x ELSE v[q]
  BY <1>1 DEF Views
<1>3. \A k \in OuterKeys : OuterOf(cc, s, k) = z[<<k>>]
  BY <1>2, PathsAre
<1>4. \A k \in OuterKeys, w \in InnerKeys : InnerOf(cc, s, k, w) = z[<<k, w>>]
  BY <1>2, PathsAre
<1> QED
  BY <1>1, <1>2, <1>3, <1>4 DEF Says

\* Where an operation is: in the outer list for an outer entry, in the outer
\* list on its way to an inner one, or in the inner list.
AtOuter(c) == \E k \in OuterKeys : /\ lclient[c].path = <<k>> /\ lclient[c].base = <<>>
                                   /\ KeyOf(lclient[c]) = k /\ AtLeaf(lclient[c])
OnTheWay(c) == \E k \in OuterKeys, w \in InnerKeys :
                 /\ lclient[c].path = <<k, w>> /\ lclient[c].base = <<>>
                 /\ KeyOf(lclient[c]) = k /\ ~AtLeaf(lclient[c])
AtInner(c) == \E k \in OuterKeys, w \in InnerKeys, j \in Indexes :
                /\ lclient[c].path = <<k, w>> /\ lclient[c].base = <<j>>
                /\ KeyOf(lclient[c]) = w /\ AtLeaf(lclient[c])
LEMMA Places ==
  ASSUME ListTypes, NEW c \in ListClients, lclient[c].pc # "idle"
  PROVE  AtOuter(c) \/ OnTheWay(c) \/ AtInner(c)
PROOF
<1>1. PICK p, b : p = lclient[c].path /\ b = lclient[c].base
  OBVIOUS
<1>2. p \in Paths /\ b \in Bases /\ Len(b) < Len(p)
  BY <1>1 DEF ListTypes, ListOps
<1>3. KeyOf(lclient[c]) = p[Len(b) + 1] /\ (AtLeaf(lclient[c]) <=> Len(p) = Len(b) + 1)
  BY <1>1 DEF KeyOf, AtLeaf
<1>4. CASE \E k \in OuterKeys : p = <<k>>
  <2>1. PICK k \in OuterKeys : p = <<k>>
    BY <1>4
  <2>2. Len(p) = 1 /\ p[1] = k
    BY <2>1
  <2>3. b = <<>>
    <3>1. \A j \in Indexes : Len(<<j>>) = 1
      OBVIOUS
    <3> QED
      BY <1>2, <2>2, <3>1 DEF Bases
  <2>4. Len(b) = 0
    BY <2>3
  <2> QED
    BY <1>1, <1>3, <2>1, <2>2, <2>3, <2>4 DEF AtOuter
<1>5. CASE \E k \in OuterKeys, w \in InnerKeys : p = <<k, w>>
  <2>1. PICK k \in OuterKeys, w \in InnerKeys : p = <<k, w>>
    BY <1>5
  <2>2. Len(p) = 2 /\ p[1] = k /\ p[2] = w
    BY <2>1
  <2>3. CASE b = <<>>
    <3>1. Len(b) = 0
      BY <2>3
    <3> QED
      BY <1>1, <1>3, <2>1, <2>2, <2>3, <3>1 DEF OnTheWay
  <2>4. CASE \E j \in Indexes : b = <<j>>
    <3>1. PICK j \in Indexes : b = <<j>>
      BY <2>4
    <3>2. Len(b) = 1
      BY <3>1
    <3> QED
      BY <1>1, <1>3, <2>1, <2>2, <3>1, <3>2 DEF AtInner
  <2> QED
    BY <1>2, <2>3, <2>4 DEF Bases
<1> QED
  BY <1>2, <1>4, <1>5 DEF Paths

\* No two keys of a list share an index, unless a new entry is being made.
LEMMA Owned ==
  ASSUME ListsStand, NEW b \in Bases,
         \A c \in Changing(b) : lclient[c].pc \in {"record", "erase", "unrecord"},
         NEW k \in ListKeys, NEW l \in ListKeys, content[b][k] # None, content[b][l] = content[b][k]
  PROVE  k = l
PROOF
<1>1. KeysHaveRecords(b) /\ OneChanger /\ \A c \in ListClients : StandsAt(c)
  BY DEF ListsStand, ChangesStand
<1>2. ASSUME NEW x \in ListKeys, NEW y \in ListKeys, content[b][x] # None, content[b][y] = content[b][x],
             rec[b][content[b][x]].key = x
      PROVE  y = x
  <2>1. CASE rec[b][content[b][y]].key = y
    BY <1>2, <2>1
  <2>2. CASE \E c \in Changing(b) : lclient[c].pc \in {"raise", "record"} /\ KeyOf(lclient[c]) = y
    <3>1. PICK c \in Changing(b) : lclient[c].pc = "record" /\ KeyOf(lclient[c]) = y
      BY <2>2
    <3>2. c \in ListClients /\ lclient[c].base = b
      BY <3>1 DEF Changing
    <3>3. content[b][y] = lclient[c].i /\ (rec[b][lclient[c].i] = NoRec \/ rec[b][lclient[c].i].key = y)
      BY <1>1, <3>1, <3>2 DEF StandsAt
    <3>4. NoRec.key # x
      BY ListAssumption DEF NoRec, ListKeys
    <3> QED
      BY <1>2, <3>3, <3>4
  <2> QED
    BY <1>1, <1>2, <2>1, <2>2 DEF KeysHaveRecords
<1>3. CASE rec[b][content[b][k]].key = k
  BY <1>2, <1>3
<1>4. CASE rec[b][content[b][l]].key = l
  BY <1>2, <1>4
<1>5. CASE \E c, d \in Changing(b) : KeyOf(lclient[c]) = k /\ KeyOf(lclient[d]) = l
  BY <1>1, <1>5 DEF OneChanger
<1> QED
  BY <1>1, <1>3, <1>4, <1>5 DEF KeysHaveRecords

\* A key that is written for an entry without variables, and without
\* entries inside, is not seen.
LEMMA OuterContentUnseen ==
  ASSUME NEW cc \in Contents, NEW r, NEW v, Says(cc, r, v), NEW k \in OuterKeys, NEW i \in Indexes,
         cc[<<>>][k] = None, r[<<>>][i] = NoRec, \A w \in ListKeys : cc[<<i>>][w] = None
  PROVE  Says([cc EXCEPT ![<<>>][k] = i], r, v)
PROOF
<1>1. PICK dd : dd = [cc EXCEPT ![<<>>][k] = i]
  OBVIOUS
<1>2. k \in ListKeys /\ InnerKeys \subseteq ListKeys /\ OuterKeys \subseteq ListKeys
  BY DEF ListKeys
<1>3. dd \in Contents /\ dd[<<>>][k] = i /\ \A l \in ListKeys \ {k} : dd[<<>>][l] = cc[<<>>][l]
  BY <1>1, <1>2, BaseFacts DEF Contents
<1>4. \A x \in Indexes : dd[<<x>>] = cc[<<x>>]
  BY <1>1, BaseFacts DEF Contents
<1>5. \A l \in OuterKeys : OuterOf(dd, r, l) = OuterOf(cc, r, l)
  BY <1>2, <1>3 DEF OuterOf
<1>6. ASSUME NEW l \in OuterKeys, NEW w \in InnerKeys PROVE InnerOf(dd, r, l, w) = InnerOf(cc, r, l, w)
  <2>1. CASE l = k
    <3>1. dd[<<i>>][w] = None
      BY <1>2, <1>4
    <3> QED
      BY <1>3, <2>1, <3>1 DEF InnerOf
  <2>2. CASE l # k
    <3>1. PICK y : y = cc[<<>>][l]
      OBVIOUS
    <3>2. y \in Indexes \cup {None} /\ dd[<<>>][l] = y
      BY <1>2, <1>3, <2>2, <3>1, BaseFacts DEF Contents
    <3>3. y = None \/ dd[<<y>>] = cc[<<y>>]
      BY <1>4, <3>2
    <3> QED
      BY <3>1, <3>2, <3>3 DEF InnerOf
  <2> QED
    BY <2>1, <2>2
<1>7. Says(dd, r, v)
  BY <1>5, <1>6, Zenon DEF Says
<1> QED
  BY <1>1, <1>7

LEMMA InnerContentUnseen ==
  ASSUME NEW cc \in Contents, NEW r, NEW v, Says(cc, r, v), NEW j \in Indexes, NEW w \in InnerKeys,
         NEW i \in Indexes, cc[<<j>>][w] = None, r[<<j>>][i] = NoRec
  PROVE  Says([cc EXCEPT ![<<j>>][w] = i], r, v)
PROOF
<1>1. PICK dd : dd = [cc EXCEPT ![<<j>>][w] = i]
  OBVIOUS
<1>2. InnerKeys \subseteq ListKeys /\ OuterKeys \subseteq ListKeys /\ <<j>> \in Bases
  BY BaseFacts DEF ListKeys
<1>3. dd \in Contents /\ dd[<<j>>][w] = i /\ \A l \in ListKeys \ {w} : dd[<<j>>][l] = cc[<<j>>][l]
  BY <1>1, <1>2, BaseFacts DEF Contents
<1>4. dd[<<>>] = cc[<<>>] /\ \A x \in Indexes : x # j => dd[<<x>>] = cc[<<x>>]
  BY <1>1, BaseFacts DEF Contents
<1>5. \A l \in OuterKeys : OuterOf(dd, r, l) = OuterOf(cc, r, l)
  BY <1>4 DEF OuterOf
<1>6. ASSUME NEW l \in OuterKeys, NEW z \in InnerKeys PROVE InnerOf(dd, r, l, z) = InnerOf(cc, r, l, z)
  <2>1. PICK y : y = cc[<<>>][l]
    OBVIOUS
  <2>2. y \in Indexes \cup {None} /\ dd[<<>>][l] = y
    BY <1>2, <1>4, <2>1, BaseFacts DEF Contents
  <2>3. CASE y = j /\ z = w
    BY <1>3, <2>1, <2>2, <2>3 DEF InnerOf
  <2>4. CASE ~(y = j /\ z = w)
    <3>1. y = None \/ dd[<<y>>][z] = cc[<<y>>][z]
      BY <1>2, <1>3, <1>4, <2>2, <2>4
    <3> QED
      BY <2>1, <2>2, <3>1 DEF InnerOf
  <2> QED
    BY <2>3, <2>4
<1>7. Says(dd, r, v)
  BY <1>5, <1>6, Zenon DEF Says
<1> QED
  BY <1>1, <1>7

\* Index i of list b is the entry of key k, and of no other.
Owns(cc, b, k, i) == cc[b][k] = i /\ \A l \in ListKeys : cc[b][l] = i => l = k

\* The variables of an entry are seen at its path and nowhere else.
LEMMA OuterRecordSeen ==
  ASSUME NEW cc \in Contents, NEW r \in Records, NEW v \in Views, Says(cc, r, v),
         NEW k \in OuterKeys, NEW i \in Indexes, NEW x \in Recs,
         Owns(cc, <<>>, k, i)
  PROVE  LET u == [v EXCEPT ![<<k>>] = x]
         IN u \in Views /\ Says(cc, [r EXCEPT ![<<>>][i] = x], u)
PROOF
<1>1. PICK s : s = [r EXCEPT ![<<>>][i] = x]
  OBVIOUS
<1>2. PICK p \in Paths : p = <<k>>
  BY PathsAre, Zenon
<1>3. s \in Records /\ s[<<>>][i] = x /\ \A y \in Indexes \ {i} : s[<<>>][y] = r[<<>>][y]
  BY <1>1, BaseFacts DEF Records
<1>4. \A y \in Indexes : s[<<y>>] = r[<<y>>]
  BY <1>1, BaseFacts DEF Records
<1>5. OuterKeys \subseteq ListKeys /\ i # None
  BY DEF ListKeys, Indexes, None
<1>6. ASSUME NEW l \in OuterKeys PROVE OuterOf(cc, s, l) = IF <<l>> = p THEN x ELSE v[<<l>>]
  <2>1. PICK y : y = cc[<<>>][l]
    OBVIOUS
  <2>2. y \in Indexes \cup {None} /\ (y = i <=> l = k)
    BY <1>5, <2>1, BaseFacts DEF Contents, Owns
  <2>3. <<l>> = p <=> l = k
    BY <1>2
  <2>4. v[<<l>>] = OuterOf(cc, r, l)
    BY Zenon DEF Says
  <2> QED
    BY <1>3, <1>5, <2>1, <2>2, <2>3, <2>4 DEF OuterOf
<1>7. ASSUME NEW l \in OuterKeys, NEW w \in InnerKeys
      PROVE  InnerOf(cc, s, l, w) = IF <<l, w>> = p THEN x ELSE v[<<l, w>>]
  <2>1. PICK y : y = cc[<<>>][l]
    OBVIOUS
  <2>2. y \in Indexes \cup {None} /\ <<l, w>> # p
    BY <1>2, <1>5, <2>1, BaseFacts DEF Contents
  <2>3. v[<<l, w>>] = InnerOf(cc, r, l, w)
    BY Zenon DEF Says
  <2> QED
    BY <1>4, <2>1, <2>2, <2>3 DEF InnerOf
<1>8. [v EXCEPT ![p] = x] \in Views /\ Says(cc, s, [v EXCEPT ![p] = x])
  BY <1>6, <1>7, PutSays
<1> QED
  BY <1>1, <1>2, <1>8

LEMMA InnerRecordSeen ==
  ASSUME NEW cc \in Contents, NEW r \in Records, NEW v \in Views, Says(cc, r, v),
         NEW k \in OuterKeys, NEW w \in InnerKeys, NEW j \in Indexes, NEW i \in Indexes, NEW x \in Recs,
         Owns(cc, <<>>, k, j), Owns(cc, <<j>>, w, i)
  PROVE  LET u == [v EXCEPT ![<<k, w>>] = x]
         IN u \in Views /\ Says(cc, [r EXCEPT ![<<j>>][i] = x], u)
PROOF
<1>1. PICK s : s = [r EXCEPT ![<<j>>][i] = x]
  OBVIOUS
<1>2. PICK p \in Paths : p = <<k, w>>
  BY PathsAre, Zenon
<1>3. /\ InnerKeys \subseteq ListKeys /\ OuterKeys \subseteq ListKeys /\ <<j>> \in Bases
      /\ j # None /\ i # None
  BY BaseFacts DEF ListKeys, Indexes, None
<1>4. s \in Records /\ s[<<j>>][i] = x /\ \A y \in Indexes \ {i} : s[<<j>>][y] = r[<<j>>][y]
  BY <1>1, <1>3 DEF Records
<1>5. s[<<>>] = r[<<>>] /\ \A y \in Indexes \ {j} : s[<<y>>] = r[<<y>>]
  BY <1>1, BaseFacts DEF Records
<1>6. ASSUME NEW l \in OuterKeys PROVE OuterOf(cc, s, l) = IF <<l>> = p THEN x ELSE v[<<l>>]
  <2>1. <<l>> # p
    BY <1>2
  <2>2. v[<<l>>] = OuterOf(cc, r, l)
    BY Zenon DEF Says
  <2> QED
    BY <1>5, <2>1, <2>2 DEF OuterOf
<1>7. ASSUME NEW l \in OuterKeys, NEW h \in InnerKeys
      PROVE  InnerOf(cc, s, l, h) = IF <<l, h>> = p THEN x ELSE v[<<l, h>>]
  <2>1. PICK y : y = cc[<<>>][l]
    OBVIOUS
  <2>2. PICK d : d = cc[<<y>>][h]
    OBVIOUS
  <2>3. y \in Indexes \cup {None}
    BY <1>3, <2>1, BaseFacts DEF Contents
  <2>4. y = None \/ d \in Indexes \cup {None}
    BY <1>3, <2>2, <2>3, BaseFacts DEF Contents
  <2>5. <<l, h>> = p <=> l = k /\ h = w
    BY <1>2
  <2>6. y = j /\ d = i <=> l = k /\ h = w
    BY <1>3, <2>1, <2>2 DEF Owns
  <2>7. InnerOf(cc, s, l, h) = IF y = None \/ d = None THEN NoRec ELSE s[<<y>>][d]
    BY <2>1, <2>2 DEF InnerOf
  <2>8. v[<<l, h>>] = IF y = None \/ d = None THEN NoRec ELSE r[<<y>>][d]
    <3>1. v[<<l, h>>] = InnerOf(cc, r, l, h)
      BY Zenon DEF Says
    <3> QED
      BY <2>1, <2>2, <3>1 DEF InnerOf
  <2>9. CASE y = j /\ d = i
    BY <1>3, <1>4, <2>5, <2>6, <2>7, <2>9
  <2>10. CASE ~(y = j /\ d = i)
    <3>1. y # None /\ d # None => s[<<y>>][d] = r[<<y>>][d]
      BY <1>4, <1>5, <2>3, <2>4, <2>10
    <3> QED
      BY <2>5, <2>6, <2>7, <2>8, <2>10, <3>1
  <2> QED
    BY <2>9, <2>10
<1>8. [v EXCEPT ![p] = x] \in Views /\ Says(cc, s, [v EXCEPT ![p] = x])
  BY <1>6, <1>7, PutSays
<1> QED
  BY <1>1, <1>2, <1>8

\* With its key an entry goes, and with an outer entry what is inside it.
LEMMA OuterErased ==
  ASSUME NEW cc \in Contents, NEW r, NEW v \in Views, Says(cc, r, v), NEW k \in OuterKeys
  PROVE  LET u == [p \in Paths |-> IF p[1] = k THEN NoRec ELSE v[p]]
         IN u \in Views /\ Says([cc EXCEPT ![<<>>][k] = None], r, u)
PROOF
<1>1. PICK dd : dd = [cc EXCEPT ![<<>>][k] = None]
  OBVIOUS
<1>2. k \in ListKeys /\ InnerKeys \subseteq ListKeys /\ OuterKeys \subseteq ListKeys
  BY DEF ListKeys
<1>3. dd[<<>>][k] = None /\ \A l \in ListKeys \ {k} : dd[<<>>][l] = cc[<<>>][l]
  BY <1>1, <1>2, BaseFacts DEF Contents
<1>4. \A x \in Indexes : dd[<<x>>] = cc[<<x>>]
  BY <1>1, BaseFacts DEF Contents
<1>5. PICK u : u = [p \in Paths |-> IF p[1] = k THEN NoRec ELSE v[p]]
  OBVIOUS
<1>6. u \in Views
  BY <1>5 DEF Views, Recs
<1>7. ASSUME NEW l \in OuterKeys PROVE OuterOf(dd, r, l) = u[<<l>>]
  <2>1. u[<<l>>] = IF l = k THEN NoRec ELSE v[<<l>>]
    <3>1. PICK p \in Paths : p = <<l>>
      BY PathsAre, Zenon
    <3>2. p[1] = l
      BY <3>1
    <3>3. u[p] = IF p[1] = k THEN NoRec ELSE v[p]
      BY <1>5
    <3> QED
      BY <3>1, <3>2, <3>3, Zenon
  <2>2. v[<<l>>] = OuterOf(cc, r, l)
    BY Zenon DEF Says
  <2> QED
    BY <1>2, <1>3, <2>1, <2>2 DEF OuterOf
<1>8. ASSUME NEW l \in OuterKeys, NEW w \in InnerKeys PROVE InnerOf(dd, r, l, w) = u[<<l, w>>]
  <2>1. u[<<l, w>>] = IF l = k THEN NoRec ELSE v[<<l, w>>]
    <3>1. PICK p \in Paths : p = <<l, w>>
      BY PathsAre, Zenon
    <3>2. p[1] = l
      BY <3>1
    <3>3. u[p] = IF p[1] = k THEN NoRec ELSE v[p]
      BY <1>5
    <3> QED
      BY <3>1, <3>2, <3>3, Zenon
  <2>2. v[<<l, w>>] = InnerOf(cc, r, l, w)
    BY Zenon DEF Says
  <2>3. CASE l = k
    BY <1>3, <2>1, <2>3 DEF InnerOf
  <2>4. CASE l # k
    <3>1. PICK y : y = cc[<<>>][l]
      OBVIOUS
    <3>2. y \in Indexes \cup {None} /\ dd[<<>>][l] = y
      BY <1>2, <1>3, <2>4, <3>1, BaseFacts DEF Contents
    <3>3. y = None \/ dd[<<y>>] = cc[<<y>>]
      BY <1>4, <3>2
    <3> QED
      BY <2>1, <2>2, <2>4, <3>1, <3>2, <3>3 DEF InnerOf
  <2> QED
    BY <2>3, <2>4
<1>9. Says(dd, r, u)
  BY <1>7, <1>8, Zenon DEF Says
<1> QED
  BY <1>1, <1>5, <1>6, <1>9

LEMMA InnerErased ==
  ASSUME NEW cc \in Contents, NEW r, NEW v \in Views, Says(cc, r, v),
         NEW k \in OuterKeys, NEW w \in InnerKeys, NEW j \in Indexes,
         Owns(cc, <<>>, k, j)
  PROVE  LET u == [v EXCEPT ![<<k, w>>] = NoRec]
         IN u \in Views /\ Says([cc EXCEPT ![<<j>>][w] = None], r, u)
PROOF
<1>1. PICK dd : dd = [cc EXCEPT ![<<j>>][w] = None]
  OBVIOUS
<1>2. PICK p \in Paths : p = <<k, w>>
  BY PathsAre, Zenon
<1>3. InnerKeys \subseteq ListKeys /\ OuterKeys \subseteq ListKeys /\ <<j>> \in Bases /\ j # None
  BY BaseFacts DEF ListKeys, Indexes, None
<1>4. dd[<<j>>][w] = None /\ \A l \in ListKeys \ {w} : dd[<<j>>][l] = cc[<<j>>][l]
  BY <1>1, <1>3 DEF Contents
<1>5. dd[<<>>] = cc[<<>>] /\ \A y \in Indexes \ {j} : dd[<<y>>] = cc[<<y>>]
  BY <1>1, BaseFacts DEF Contents
<1>6. ASSUME NEW l \in OuterKeys PROVE OuterOf(dd, r, l) = IF <<l>> = p THEN NoRec ELSE v[<<l>>]
  <2>1. <<l>> # p
    BY <1>2
  <2>2. v[<<l>>] = OuterOf(cc, r, l)
    BY Zenon DEF Says
  <2> QED
    BY <1>5, <2>1, <2>2 DEF OuterOf
<1>7. ASSUME NEW l \in OuterKeys, NEW h \in InnerKeys
      PROVE  InnerOf(dd, r, l, h) = IF <<l, h>> = p THEN NoRec ELSE v[<<l, h>>]
  <2>1. PICK y : y = cc[<<>>][l]
    OBVIOUS
  <2>2. y \in Indexes \cup {None} /\ dd[<<>>][l] = y
    BY <1>3, <1>5, <2>1, BaseFacts DEF Contents
  <2>3. <<l, h>> = p <=> l = k /\ h = w
    BY <1>2
  <2>4. y = j /\ h = w <=> l = k /\ h = w
    BY <1>3, <2>1 DEF Owns
  <2>5. v[<<l, h>>] = InnerOf(cc, r, l, h)
    BY Zenon DEF Says
  <2>6. CASE y = j /\ h = w
    BY <1>4, <2>2, <2>3, <2>4, <2>6 DEF InnerOf
  <2>7. CASE ~(y = j /\ h = w)
    <3>1. y = None \/ dd[<<y>>][h] = cc[<<y>>][h]
      BY <1>3, <1>4, <1>5, <2>2, <2>7
    <3> QED
      BY <2>1, <2>2, <2>3, <2>4, <2>5, <2>7, <3>1 DEF InnerOf
  <2> QED
    BY <2>6, <2>7
<1>8. [v EXCEPT ![p] = NoRec] \in Views /\ Says(dd, r, [v EXCEPT ![p] = NoRec])
  <2>1. NoRec \in Recs
    BY DEF Recs
  <2> QED
    BY <1>6, <1>7, <2>1, PutSays
<1> QED
  BY <1>1, <1>2, <1>8

\* Variables that no key names are not seen.
LEMMA RecordUnseen ==
  ASSUME NEW cc \in Contents, NEW r \in Records, NEW v, Says(cc, r, v), NEW b \in Bases, NEW i \in Indexes,
         \A k \in ListKeys : cc[b][k] # i
  PROVE  Says(cc, [r EXCEPT ![b][i] = NoRec], v)
PROOF
<1>1. PICK s : s = [r EXCEPT ![b][i] = NoRec]
  OBVIOUS
<1>2. \A x \in Bases, y \in Indexes : ~(x = b /\ y = i) => s[x][y] = r[x][y]
  BY <1>1 DEF Records
<1>3. InnerKeys \subseteq ListKeys /\ OuterKeys \subseteq ListKeys
  BY DEF ListKeys
<1>4. ASSUME NEW l \in OuterKeys PROVE OuterOf(cc, s, l) = OuterOf(cc, r, l)
  <2>1. PICK y : y = cc[<<>>][l]
    OBVIOUS
  <2>2. y \in Indexes \cup {None} /\ ~(<<>> = b /\ y = i)
    BY <1>3, <2>1, BaseFacts DEF Contents
  <2>3. y = None \/ s[<<>>][y] = r[<<>>][y]
    BY <1>2, <2>2, BaseFacts
  <2> QED
    BY <2>1, <2>3 DEF OuterOf
<1>5. ASSUME NEW l \in OuterKeys, NEW w \in InnerKeys PROVE InnerOf(cc, s, l, w) = InnerOf(cc, r, l, w)
  <2>1. PICK y : y = cc[<<>>][l]
    OBVIOUS
  <2>2. PICK d : d = cc[<<y>>][w]
    OBVIOUS
  <2>3. y \in Indexes \cup {None}
    BY <1>3, <2>1, BaseFacts DEF Contents
  <2>4. y = None \/ d = None \/ s[<<y>>][d] = r[<<y>>][d]
    <3> SUFFICES ASSUME y # None, d # None PROVE s[<<y>>][d] = r[<<y>>][d]
      OBVIOUS
    <3>1. y \in Indexes /\ <<y>> \in Bases
      BY <2>3, BaseFacts
    <3>2. d \in Indexes /\ ~(<<y>> = b /\ d = i)
      BY <1>3, <2>2, <3>1 DEF Contents
    <3> QED
      BY <1>2, <3>1, <3>2
  <2> QED
    BY <2>1, <2>2, <2>4 DEF InnerOf
<1>6. Says(cc, s, v)
  BY <1>4, <1>5, Zenon DEF Says
<1> QED
  BY <1>1, <1>6

\* No entry is inside an index that has not been given to an entry.
Fresh == \A i \in Indexes : ~(i < maxIndex[<<>>]) => \A w \in ListKeys : content[<<i>>][w] = None
BasesUsed == \A c \in Busy : Len(lclient[c].base) = 1 => lclient[c].base[1] < maxIndex[<<>>]

\* The view with the outer entry, after a deletion, and as it is due.
Made(o) ==
  IF Len(o.path) = 2 /\ o.before[<<o.path[1]>>] = NoRec
  THEN [o.before EXCEPT ![<<o.path[1]>>] = [key |-> o.path[1], b |-> Default]]
  ELSE o.before
Without(o, v) == [p \in Paths |-> IF p = o.path \/ (p[1] = o.path[1] /\ Len(o.path) = 1) THEN NoRec ELSE v[p]]
Due(o) == IF Len(o.base) = 1 \/ Len(o.path) = 1 THEN Made(o) ELSE o.before

\* What is known of an operation that runs alone.
Doing(c) ==
  LET o == lclient[c]
  IN /\ o.before \in Views
     /\ o.pc \in {"lookup", "erase", "unrecord"} => o.op = "del"
     /\ o.pc \in {"find", "max", "content", "raise", "record"} /\ AtLeaf(o) => o.op # "del"
     /\ o.pc \in {"send", "lookup", "erase", "unrecord"} => AtLeaf(o)
     /\ o.pc = "raise" \/ (o.pc = "record" /\ ~AtLeaf(o)) => rec[o.base][o.i] = NoRec
     /\ Len(o.base) = 1 => content[<<>>][o.path[1]] = o.base[1]
     /\ View = IF o.pc = "unrecord" THEN Without(o, Due(o)) ELSE Due(o)
AloneExact == \A c \in Busy : lclient[c].alone => Busy = {c} /\ Doing(c)
ExactInv == Fresh /\ BasesUsed /\ AloneExact

\* The last step of an operation that runs alone.
Done(c) == lclient[c].alone /\ lclient'[c].pc = "idle" => View' = Apply(lclient[c])

LEMMA ApplyIs ==
  ASSUME NEW c \in ListClients
  PROVE  LET o == lclient[c]
             x == [key |-> o.path[Len(o.path)], b |-> NewVars(o.op, o.val, o.before[o.path])]
         IN Apply(o) = IF o.op # "del" THEN [Made(o) EXCEPT ![o.path] = x] ELSE Without(o, Made(o))
PROOF
BY DEF Apply, Made, Without

LEMMA BaseIndex == \A b \in Bases : Len(b) = 1 => b[1] \in Nat
PROOF
<1> SUFFICES ASSUME NEW b \in Bases, Len(b) = 1 PROVE b[1] \in Nat
  OBVIOUS
<1>1. CASE b = <<>>
  BY <1>1
<1>2. CASE \E i \in Indexes : b = <<i>>
  BY <1>2 DEF Indexes
<1> QED
  BY <1>1, <1>2 DEF Bases

\* The step of one operation leaves the others what they are.
LEMMA OthersKept ==
  ASSUME ListTypes, ListTypes', ExactInv, NEW c \in ListClients, lclient[c].pc # "idle",
         \A d \in ListClients \ {c} : lclient'[d] = lclient[d],
         Fresh', maxIndex[<<>>] <= maxIndex'[<<>>],
         lclient'[c].pc # "idle" =>
           /\ lclient'[c].alone = lclient[c].alone
           /\ Len(lclient'[c].base) = 1 => lclient'[c].base[1] < maxIndex'[<<>>],
         lclient[c].alone /\ lclient'[c].pc # "idle" => Doing(c)'
  PROVE  ExactInv'
PROOF
<1>1. c \in Busy /\ Busy' \ {c} = Busy \ {c} /\ (c \in Busy' <=> lclient'[c].pc # "idle") /\ Busy' \subseteq ListClients
  BY DEF Busy
<1>2. BasesUsed'
  <2> SUFFICES ASSUME NEW d \in Busy', Len(lclient'[d].base) = 1 PROVE lclient'[d].base[1] < maxIndex'[<<>>]
    BY DEF BasesUsed
  <2>1. CASE d = c
    BY <1>1, <2>1
  <2>2. CASE d # c
    <3>1. d \in Busy /\ lclient'[d] = lclient[d]
      BY <1>1, <2>2
    <3>2. lclient[d].base[1] < maxIndex[<<>>] /\ Len(lclient[d].base) = 1
      BY <3>1 DEF ExactInv, BasesUsed
    <3>3. lclient[d].base[1] \in Nat
      <4>1. lclient[d].base \in Bases
        BY <1>1 DEF ListTypes, ListOps
      <4> QED
        BY <3>2, <4>1, BaseIndex
    <3>4. maxIndex[<<>>] \in Nat /\ maxIndex'[<<>>] \in Nat
      BY BaseFacts DEF ListTypes
    <3> QED
      BY <3>1, <3>2, <3>3, <3>4
  <2> QED
    BY <2>1, <2>2
<1>3. AloneExact'
  <2> SUFFICES ASSUME NEW d \in Busy', lclient'[d].alone PROVE Busy' = {d} /\ Doing(d)'
    BY DEF AloneExact
  <2>1. d = c
    <3> SUFFICES ASSUME d # c PROVE FALSE
      OBVIOUS
    <3>1. d \in Busy /\ lclient[d].alone
      BY <1>1
    <3> QED
      BY <1>1, <3>1 DEF ExactInv, AloneExact
  <2>2. lclient[c].alone /\ lclient'[c].pc # "idle"
    BY <1>1, <2>1, Zenon
  <2>3. Busy = {c}
    BY <1>1, <2>2 DEF ExactInv, AloneExact
  <2> QED
    BY <1>1, <2>1, <2>2, <2>3
<1> QED
  BY <1>2, <1>3 DEF ExactInv

\* A step that stays in its list, and one that goes down to the inner list.
LEMMA MovesOn ==
  ASSUME ListTypes, ListTypes', ExactInv, NEW c \in ListClients, lclient[c].pc \notin {"idle", "unrecord"},
         NEW p \in OpStages, NEW i, p # "idle", Moved(c, p, lclient[c].base, i),
         Fresh', maxIndex[<<>>] <= maxIndex'[<<>>],
         lclient[c].alone =>
           /\ p \in {"lookup", "erase", "unrecord"} => lclient[c].op = "del"
           /\ p \in {"find", "max", "content", "raise", "record"} /\ AtLeaf(lclient[c]) => lclient[c].op # "del"
           /\ p \in {"send", "lookup", "erase", "unrecord"} => AtLeaf(lclient[c])
           /\ p = "raise" \/ (p = "record" /\ ~AtLeaf(lclient[c])) => rec'[lclient[c].base][i] = NoRec
           /\ Len(lclient[c].base) = 1 => content'[<<>>][lclient[c].path[1]] = lclient[c].base[1]
           /\ View' = IF p = "unrecord" THEN Without(lclient[c], Due(lclient[c])) ELSE Due(lclient[c])
  PROVE  ExactInv'
PROOF
<1>1. PICK o, q : o = lclient[c] /\ q = lclient'[c]
  OBVIOUS
<1>2. /\ q.pc = p /\ q.base = o.base /\ q.i = i /\ q.path = o.path /\ q.op = o.op /\ q.val = o.val
      /\ q.before = o.before /\ q.alone = o.alone
      /\ \A d \in ListClients \ {c} : lclient'[d] = lclient[d]
  BY <1>1 DEF Moved
<1>3. AtLeaf(q) = AtLeaf(o) /\ Due(q) = Due(o) /\ Without(q, Due(q)) = Without(o, Due(o))
  BY <1>2 DEF AtLeaf, Due, Made, Without
<1>4. lclient[c].alone => Doing(c)'
  <2> SUFFICES ASSUME lclient[c].alone PROVE Doing(c)'
    OBVIOUS
  <2>1. o.before \in Views
    BY <1>1 DEF ExactInv, AloneExact, Doing, Busy
  <2> QED
    BY <1>1, <1>2, <1>3, <2>1 DEF Doing
<1>5. Len(q.base) = 1 => q.base[1] < maxIndex'[<<>>]
  <2> SUFFICES ASSUME Len(o.base) = 1 PROVE o.base[1] < maxIndex'[<<>>]
    BY <1>2
  <2>1. o.base[1] < maxIndex[<<>>]
    BY <1>1 DEF ExactInv, BasesUsed, Busy
  <2>2. o.base[1] \in Nat
    <3>1. o.base \in Bases
      BY <1>1 DEF ListTypes, ListOps
    <3> QED
      BY <3>1, BaseIndex
  <2>3. maxIndex[<<>>] \in Nat /\ maxIndex'[<<>>] \in Nat
    BY BaseFacts DEF ListTypes
  <2> QED
    BY <2>1, <2>2, <2>3
<1> QED
  BY <1>1, <1>2, <1>4, <1>5, OthersKept

LEMMA GoesDown ==
  ASSUME ListTypes, ListTypes', ExactInv, NEW c \in ListClients, lclient[c].pc # "idle",
         OnTheWay(c), NEW j \in Indexes, Moved(c, "send", <<j>>, None),
         Fresh', maxIndex[<<>>] <= maxIndex'[<<>>], j < maxIndex'[<<>>],
         content'[<<>>][lclient[c].path[1]] = j, lclient[c].alone => View' = Made(lclient[c])
  PROVE  ExactInv'
PROOF
<1>1. PICK o, q : o = lclient[c] /\ q = lclient'[c]
  OBVIOUS
<1>2. /\ q.pc = "send" /\ q.base = <<j>> /\ q.path = o.path /\ q.op = o.op /\ q.val = o.val
      /\ q.before = o.before /\ q.alone = o.alone
      /\ \A d \in ListClients \ {c} : lclient'[d] = lclient[d]
  BY <1>1 DEF Moved
<1>3. Len(q.base) = 1 /\ q.base[1] = j /\ Len(q.path) = 2
  BY <1>1, <1>2 DEF OnTheWay
<1>4. AtLeaf(q) /\ Due(q) = Made(o)
  BY <1>2, <1>3 DEF AtLeaf, Due, Made
<1>5. lclient[c].alone => Doing(c)'
  <2> SUFFICES ASSUME lclient[c].alone PROVE Doing(c)'
    OBVIOUS
  <2>1. o.before \in Views
    BY <1>1 DEF ExactInv, AloneExact, Doing, Busy
  <2> QED
    BY <1>1, <1>2, <1>3, <1>4, <2>1 DEF Doing
<1> QED
  BY <1>1, <1>2, <1>3, <1>5, OthersKept

\* Where the lists below an index that is not in use stay as they are.
LEMMA FreshKept ==
  ASSUME ListTypes, ListTypes', Fresh, maxIndex[<<>>] <= maxIndex'[<<>>],
         \A i \in Indexes : ~(i < maxIndex'[<<>>]) => content'[<<i>>] = content[<<i>>]
  PROVE  Fresh'
PROOF
<1>1. maxIndex[<<>>] \in Nat /\ maxIndex'[<<>>] \in Nat
  BY BaseFacts DEF ListTypes
<1> QED
  BY <1>1 DEF Fresh, Indexes

\* What the types give the lemmas on the view.
LEMMA StoreTypes ==
  ASSUME ListTypes
  PROVE  content \in Contents /\ rec \in Records /\ View \in Views /\ Says(content, rec, View)
PROOF
<1>1. content \in Contents /\ rec \in Records
  BY DEF ListTypes, Contents, Records
<1> QED
  BY <1>1, ViewSays DEF View

LEMMA NextView ==
  ASSUME ListTypes', NEW v \in Views, Says(content', rec', v)
  PROVE  View' = v
PROOF
<1>1. content' \in Contents /\ rec' \in Records
  BY DEF ListTypes, Contents, Records
<1> QED
  BY <1>1, SaysView DEF View

LEMMA AloneFacts ==
  ASSUME ListTypes, ExactInv, NEW c \in ListClients, lclient[c].pc # "idle", lclient[c].alone
  PROVE  Doing(c) /\ \A b \in Bases : Changing(b) \subseteq {c}
PROOF
<1>1. Busy = {c} /\ Doing(c)
  BY DEF ExactInv, AloneExact, Busy
<1> QED
  BY <1>1 DEF Busy, Changing

LEMMA ServeExact ==
  ASSUME ListsStand, ListTypes', ExactInv, NEW c \in ListClients, Serve(c)
  PROVE  ExactInv'
PROOF
<1>1. PICK p : p = IF lclient[c].op = "del" THEN "lookup" ELSE "find"
  OBVIOUS
<1>2. ListTypes /\ lclient[c].pc = "send" /\ lclient[c].base \in Bases /\ lclient[c].i \in Indexes \cup {None}
  BY DEF Serve, ListsStand, ListTypes, ListOps
<1>3. p \in OpStages /\ p \in {"lookup", "find"} /\ (p = "lookup" <=> lclient[c].op = "del")
  BY <1>1 DEF OpStages
<1>4. lclient' = [lclient EXCEPT ![c].pc = p] /\ UNCHANGED store
  BY <1>1 DEF Serve, Step
<1>5. Moved(c, p, lclient[c].base, lclient[c].i)
  BY <1>2, <1>3, <1>4, MoveFacts
<1>6. View' = View /\ Fresh' /\ maxIndex' = maxIndex /\ content' = content /\ rec' = rec
  BY <1>4 DEF store, View, Fresh, ExactInv
<1>7. maxIndex[<<>>] <= maxIndex'[<<>>]
  BY <1>2, <1>6, BaseFacts DEF ListTypes
<1>8. ASSUME lclient[c].alone
      PROVE  /\ AtLeaf(lclient[c]) /\ View = Due(lclient[c])
             /\ Len(lclient[c].base) = 1 => content[<<>>][lclient[c].path[1]] = lclient[c].base[1]
  BY <1>2, <1>8, AloneFacts DEF Doing
<1> QED
  BY <1>2, <1>3, <1>5, <1>6, <1>7, <1>8, MovesOn

LEMMA VecFindExact ==
  ASSUME ListsStand, ListTypes', ExactInv, NEW c \in ListClients, VecFind(c), Quiet'
  PROVE  ExactInv'
PROOF
<1>0. PICK b, k, j : b = lclient[c].base /\ k = KeyOf(lclient[c]) /\ j = content[b][k]
  OBVIOUS
<1>1. ListTypes /\ lclient[c].pc = "find" /\ b \in Bases /\ lclient[c].i \in Indexes \cup {None}
      /\ k \in ListKeys /\ j \in Indexes \cup {None}
  BY <1>0, KeyFacts DEF VecFind, ListsStand, ListTypes, ListOps
<1>2. Changing(b) = {} /\ UNCHANGED store
  BY <1>0 DEF VecFind, Quiet
<1>3. View' = View /\ Fresh' /\ maxIndex' = maxIndex /\ content' = content /\ rec' = rec
  BY <1>2 DEF store, View, Fresh, ExactInv
<1>4. maxIndex[<<>>] <= maxIndex'[<<>>]
  BY <1>1, <1>3, BaseFacts DEF ListTypes
<1>5. ASSUME lclient[c].alone
      PROVE  /\ View = Due(lclient[c]) /\ (AtLeaf(lclient[c]) => lclient[c].op # "del")
             /\ Len(b) = 1 => content[<<>>][lclient[c].path[1]] = b[1]
  BY <1>0, <1>1, <1>5, AloneFacts DEF Doing
<1>6. CASE j = None
  <2>1. lclient' = [lclient EXCEPT ![c].pc = "max"]
    BY <1>0, <1>6 DEF VecFind, Step
  <2>2. Moved(c, "max", b, lclient[c].i)
    BY <1>0, <1>1, <2>1, MoveFacts DEF OpStages
  <2> QED
    BY <1>0, <1>1, <1>3, <1>4, <1>5, <2>2, MovesOn DEF OpStages
<1>7. CASE j # None /\ AtLeaf(lclient[c])
  <2>1. lclient' = [lclient EXCEPT ![c].pc = "record", ![c].i = j]
    BY <1>0, <1>7 DEF VecFind, Found
  <2>2. Moved(c, "record", b, j)
    BY <1>0, <1>1, <2>1, MoveFacts DEF OpStages
  <2> QED
    BY <1>0, <1>1, <1>3, <1>4, <1>5, <1>7, <2>2, MovesOn DEF OpStages
<1>8. CASE j # None /\ ~AtLeaf(lclient[c])
  <2>1. lclient' = [lclient EXCEPT ![c].pc = "send", ![c].base = <<j>>, ![c].i = None]
    BY <1>0, <1>8 DEF VecFind, Found
  <2>2. j \in Indexes /\ OnTheWay(c)
    BY <1>1, <1>8, Places DEF AtOuter, AtInner
  <2>3. Moved(c, "send", <<j>>, None)
    BY <1>1, <1>8, <2>1, <2>2, DescendFacts
  <2>4. PICK kk \in OuterKeys, w \in InnerKeys : lclient[c].path = <<kk, w>> /\ b = <<>> /\ k = kk
    BY <1>0, <2>2 DEF OnTheWay
  <2>5. j < maxIndex[<<>>] /\ rec[<<>>][j].key = k
    BY <1>0, <1>1, <1>2, <1>8, <2>4 DEF ListsStand, ChangesStand, KeysHaveRecords
  <2>6. ASSUME lclient[c].alone PROVE View' = Made(lclient[c])
    <3>1. View = lclient[c].before
      <4>1. Len(b) = 0 /\ Len(lclient[c].path) = 2
        BY <2>4
      <4> QED
        BY <1>0, <1>5, <2>6, <4>1 DEF Due
    <3>2. View[<<kk>>] = OuterOf(content, rec, kk)
      BY <1>1, StoreTypes, Zenon DEF Says
    <3>3. OuterOf(content, rec, kk) = rec[<<>>][j]
      BY <1>0, <1>8, <2>4 DEF OuterOf
    <3>4. NoRec.key # k
      BY <1>1, ListAssumption DEF NoRec, ListKeys
    <3>5. lclient[c].path[1] = kk
      BY <2>4
    <3> QED
      BY <1>3, <2>5, <3>1, <3>2, <3>3, <3>4, <3>5 DEF Made
  <2>7. content'[<<>>][lclient[c].path[1]] = j
    BY <1>0, <1>3, <2>4
  <2> QED
    BY <1>1, <1>3, <1>4, <2>2, <2>3, <2>5, <2>6, <2>7, GoesDown
<1> QED
  BY <1>1, <1>6, <1>7, <1>8

LEMMA IndexMaxGetExact ==
  ASSUME ListsStand, ListTypes', ExactInv, NEW c \in ListClients, IndexMaxGet(c)
  PROVE  ExactInv'
PROOF
<1>0. PICK b, n : b = lclient[c].base /\ n = maxIndex[b]
  OBVIOUS
<1>1. ListTypes /\ lclient[c].pc = "max" /\ b \in Bases
  BY <1>0 DEF IndexMaxGet, ListsStand, ListTypes, ListOps
<1>2. lclient' = [lclient EXCEPT ![c].pc = "content", ![c].i = n] /\ UNCHANGED store
  BY <1>0 DEF IndexMaxGet
<1>3. n \in Indexes \cup {None}
  <2>1. lclient'[c].i = n
    BY <1>1, <1>2 DEF ListTypes, ListOps
  <2> QED
    BY <2>1 DEF ListTypes, ListOps
<1>4. Moved(c, "content", b, n)
  BY <1>0, <1>1, <1>2, <1>3, MoveFacts DEF OpStages
<1>5. View' = View /\ Fresh' /\ maxIndex' = maxIndex /\ content' = content /\ rec' = rec
  BY <1>2 DEF store, View, Fresh, ExactInv
<1>6. maxIndex[<<>>] <= maxIndex'[<<>>]
  BY <1>1, <1>5, BaseFacts DEF ListTypes
<1>7. ASSUME lclient[c].alone
      PROVE  /\ View = Due(lclient[c]) /\ (AtLeaf(lclient[c]) => lclient[c].op # "del")
             /\ Len(b) = 1 => content[<<>>][lclient[c].path[1]] = b[1]
  BY <1>0, <1>1, <1>7, AloneFacts DEF Doing
<1> QED
  BY <1>0, <1>1, <1>4, <1>5, <1>6, <1>7, MovesOn DEF OpStages

LEMMA ContentSetExact ==
  ASSUME ListsStand, ListTypes', ExactInv, NEW c \in ListClients, ContentSet(c)
  PROVE  ExactInv'
PROOF
<1>0. PICK b, k, i : b = lclient[c].base /\ k = KeyOf(lclient[c]) /\ i = lclient[c].i
  OBVIOUS
<1>1. ListTypes /\ lclient[c].pc = "content" /\ lclient[c].pc \in ChangeStages
  BY DEF ContentSet, ChangeStages, ListsStand
<1>2. b \in Bases /\ k \in ListKeys /\ Changing(b) = {c} /\ KeysHaveRecords(b) /\ RecordsHaveKeys(b)
      /\ i = maxIndex[b] /\ i \in Indexes /\ content[b][k] = None
  BY <1>0, <1>1, ChangerFacts DEF StandsAt
<1>3. content' = [content EXCEPT ![b][k] = i] /\ UNCHANGED <<maxIndex, rec>>
  BY <1>0 DEF ContentSet
<1>4. Moved(c, "raise", b, i)
  BY <1>0, <1>1, <1>2, MoveFacts DEF ContentSet, Step, OpStages
<1>5. rec[b][i] = NoRec
  <2> SUFFICES ASSUME rec[b][i] # NoRec PROVE FALSE
    OBVIOUS
  <2>1. content[b][rec[b][i].key] = i
    BY <1>1, <1>2 DEF RecordsHaveKeys
  <2>2. rec[b][i].key \in ListKeys
    BY <1>1, <1>2 DEF ListTypes, Recs
  <2>3. i \in Nat /\ i # None /\ ~(i < maxIndex[b])
    BY <1>2 DEF None, Indexes
  <2> QED
    BY <1>1, <1>2, <2>1, <2>2, <2>3 DEF KeysHaveRecords
<1>6. AtOuter(c) \/ OnTheWay(c) \/ AtInner(c)
  BY <1>1, Places
<1>7. content \in Contents /\ rec \in Records /\ View \in Views /\ Says(content, rec, View)
  BY <1>1, StoreTypes
<1>8. maxIndex[<<>>] <= maxIndex'[<<>>] /\ maxIndex[<<>>] \in Nat
  BY <1>1, <1>3, BaseFacts DEF ListTypes
<1>9. (View' = View /\ Fresh') /\ (Len(b) = 1 => content'[<<>>] = content[<<>>])
  <2>1. CASE b = <<>>
    <3>1. \A x \in Indexes : content'[<<x>>] = content[<<x>>]
      BY <1>1, <1>3, <2>1, BaseFacts DEF ListTypes
    <3>2. Fresh'
      BY <1>1, <1>8, <3>1, FreshKept DEF ExactInv
    <3>3. \A w \in ListKeys : content[<<i>>][w] = None
      <4>1. ~(i < maxIndex[<<>>])
        BY <1>2, <1>8, <2>1
      <4> QED
        BY <1>2, <4>1 DEF ExactInv, Fresh
    <3>4. k \in OuterKeys
      BY <1>0, <1>6, <2>1 DEF AtOuter, OnTheWay, AtInner
    <3>5. Says(content', rec', View)
      BY <1>2, <1>3, <1>5, <1>7, <2>1, <3>3, <3>4, OuterContentUnseen
    <3>6. Len(b) # 1
      BY <2>1
    <3> QED
      BY <1>7, <3>2, <3>5, <3>6, NextView
  <2>2. CASE b # <<>>
    <3>1. PICK j \in Indexes : b = <<j>>
      BY <1>2, <2>2 DEF Bases
    <3>2. k \in InnerKeys
      BY <1>0, <1>6, <2>2 DEF AtOuter, OnTheWay, AtInner
    <3>3. Says(content', rec', View)
      BY <1>2, <1>3, <1>5, <1>7, <3>1, <3>2, InnerContentUnseen
    <3>4. j < maxIndex[<<>>]
      <4>1. Len(b) = 1 /\ b[1] = j /\ c \in Busy
        BY <1>1, <3>1 DEF Busy
      <4> QED
        BY <1>0, <4>1 DEF ExactInv, BasesUsed
    <3>5. content'[<<>>] = content[<<>>] /\ \A x \in Indexes \ {j} : content'[<<x>>] = content[<<x>>]
      BY <1>1, <1>3, <3>1, BaseFacts DEF ListTypes
    <3>6. Fresh'
      BY <1>1, <1>3, <1>8, <3>4, <3>5, FreshKept DEF ExactInv
    <3> QED
      BY <1>7, <3>3, <3>5, <3>6, NextView
  <2> QED
    BY <2>1, <2>2
<1>10. ASSUME lclient[c].alone
       PROVE  /\ View = Due(lclient[c]) /\ (AtLeaf(lclient[c]) => lclient[c].op # "del")
              /\ Len(b) = 1 => content[<<>>][lclient[c].path[1]] = b[1]
  BY <1>0, <1>1, <1>10, AloneFacts DEF Doing
<1> QED
  BY <1>0, <1>1, <1>3, <1>4, <1>5, <1>8, <1>9, <1>10, MovesOn DEF OpStages

LEMMA IndexMaxSetExact ==
  ASSUME ListsStand, ListTypes', ExactInv, NEW c \in ListClients, IndexMaxSet(c)
  PROVE  ExactInv'
PROOF
<1>0. PICK b, i : b = lclient[c].base /\ i = lclient[c].i
  OBVIOUS
<1>1. ListTypes /\ lclient[c].pc = "raise" /\ lclient[c].pc \in ChangeStages
  BY DEF IndexMaxSet, ChangeStages, ListsStand
<1>2. b \in Bases /\ i = maxIndex[b] /\ i \in Indexes
  BY <1>0, <1>1, ChangerFacts DEF StandsAt
<1>3. maxIndex' = [maxIndex EXCEPT ![b] = i + 1] /\ UNCHANGED <<content, rec>>
  BY <1>0 DEF IndexMaxSet
<1>4. Moved(c, "record", b, i)
  BY <1>0, <1>1, <1>2, MoveFacts DEF IndexMaxSet, Found, OpStages
<1>5. maxIndex[<<>>] <= maxIndex'[<<>>]
  <2>1. i + 1 \in Nat /\ i \in Nat
    BY <1>2 DEF Indexes
  <2>2. maxIndex'[b] = i + 1 /\ \A x \in Bases \ {b} : maxIndex'[x] = maxIndex[x]
    BY <1>1, <1>2, <1>3 DEF ListTypes
  <2>3. maxIndex[<<>>] \in Nat
    BY <1>1, BaseFacts DEF ListTypes
  <2> QED
    BY <1>2, <2>1, <2>2, <2>3, BaseFacts
<1>6. Fresh'
  BY <1>1, <1>3, <1>5, FreshKept DEF ExactInv
<1>7. View' = View
  BY <1>1, <1>3, StoreTypes, NextView
<1>8. ASSUME lclient[c].alone
      PROVE  /\ View = Due(lclient[c]) /\ rec[b][i] = NoRec /\ (AtLeaf(lclient[c]) => lclient[c].op # "del")
             /\ Len(b) = 1 => content[<<>>][lclient[c].path[1]] = b[1]
  BY <1>0, <1>1, <1>8, AloneFacts DEF Doing
<1> QED
  BY <1>0, <1>1, <1>3, <1>4, <1>5, <1>6, <1>7, <1>8, MovesOn DEF OpStages

\* The last step of an operation, for the others.
LEMMA EndsExact ==
  ASSUME ListTypes, ListTypes', ExactInv, NEW c \in ListClients, lclient[c].pc # "idle",
         lclient' = [lclient EXCEPT ![c] = IdleOp], UNCHANGED <<maxIndex, content>>
  PROVE  ExactInv'
PROOF
<1>1. lclient'[c].pc = "idle" /\ \A d \in ListClients \ {c} : lclient'[d] = lclient[d]
  BY EndFacts
<1>2. maxIndex[<<>>] <= maxIndex'[<<>>]
  BY BaseFacts DEF ListTypes
<1>3. Fresh'
  BY DEF ExactInv, Fresh
<1> QED
  BY <1>1, <1>2, <1>3, OthersKept

\* What is due where the operation is.
LEMMA DueAtLeaf ==
  ASSUME NEW c \in ListClients, AtOuter(c) \/ AtInner(c)
  PROVE  Due(lclient[c]) = Made(lclient[c])
PROOF
<1>1. ASSUME NEW j PROVE Len(<<j>>) = 1
  OBVIOUS
<1> QED
  BY <1>1 DEF AtOuter, AtInner, Due

LEMMA MadeAt ==
  ASSUME NEW o, o.before \in Views, NEW k \in OuterKeys
  PROVE  /\ o.path = <<k>> => Made(o) = o.before
         /\ \A w \in InnerKeys : o.path = <<k, w>> => Made(o)[<<k, w>>] = o.before[<<k, w>>]
PROOF
<1>1. ASSUME o.path = <<k>> PROVE Made(o) = o.before
  <2>1. Len(o.path) = 1
    BY <1>1
  <2> QED
    BY <2>1 DEF Made
<1>2. ASSUME NEW w \in InnerKeys, o.path = <<k, w>> PROVE Made(o)[<<k, w>>] = o.before[<<k, w>>]
  <2>1. o.path[1] = k /\ <<k, w>> \in Paths /\ <<k, w>> # <<k>>
    BY <1>2, PathsAre
  <2> QED
    BY <2>1 DEF Made, Views
<1> QED
  BY <1>1, <1>2

LEMMA WithoutIs ==
  ASSUME NEW o, NEW v \in Views, NEW k \in OuterKeys
  PROVE  /\ o.path = <<k>> => Without(o, v) = [p \in Paths |-> IF p[1] = k THEN NoRec ELSE v[p]]
         /\ \A w \in InnerKeys : o.path = <<k, w>> => Without(o, v) = [v EXCEPT ![<<k, w>>] = NoRec]
PROOF
<1>1. ASSUME o.path = <<k>> PROVE Without(o, v) = [p \in Paths |-> IF p[1] = k THEN NoRec ELSE v[p]]
  <2>1. Len(o.path) = 1 /\ o.path[1] = k
    BY <1>1
  <2>2. \A p \in Paths : p = o.path \/ (p[1] = o.path[1] /\ Len(o.path) = 1) <=> p[1] = k
    BY <2>1
  <2> QED
    BY <2>2 DEF Without
<1>2. ASSUME NEW w \in InnerKeys, o.path = <<k, w>> PROVE Without(o, v) = [v EXCEPT ![<<k, w>>] = NoRec]
  <2>1. Len(o.path) = 2 /\ o.path \in Paths
    BY <1>2, PathsAre
  <2>2. Without(o, v) = [p \in Paths |-> IF p = o.path THEN NoRec ELSE v[p]]
    BY <2>1 DEF Without
  <2>3. [v EXCEPT ![o.path] = NoRec] = [p \in Paths |-> IF p = o.path THEN NoRec ELSE v[p]]
    BY <2>1 DEF Views
  <2> QED
    BY <1>2, <2>2, <2>3
<1> QED
  BY <1>1, <1>2

\* When nobody changes the outer list, its indexes are its keys' own.
LEMMA OuterOwned ==
  ASSUME ListsStand, ExactInv, NEW c \in ListClients, lclient[c].pc # "idle", lclient[c].alone,
         lclient[c].base # <<>> \/ lclient[c].pc \in {"lookup", "record", "erase", "unrecord"},
         NEW k \in ListKeys, content[<<>>][k] # None
  PROVE  \A l \in ListKeys : content[<<>>][l] = content[<<>>][k] => l = k
PROOF
<1>1. \A d \in Changing(<<>>) : lclient[d].pc \in {"record", "erase", "unrecord"}
  BY AloneFacts, BaseFacts DEF ListsStand, Changing
<1> QED
  BY <1>1, Owned, BaseFacts

\* A removal, when it is the only operation: with the key goes the entry.
LEMMA ErasedSays ==
  ASSUME ListsStand, ExactInv, NEW c \in ListClients, lclient[c].pc \in {"lookup", "erase"}, lclient[c].alone
  PROVE  LET u == Without(lclient[c], Due(lclient[c]))
         IN /\ u \in Views /\ u = Without(lclient[c], Made(lclient[c]))
            /\ Says([content EXCEPT ![lclient[c].base][KeyOf(lclient[c])] = None], rec, u)
PROOF
<1>1. ListTypes /\ lclient[c].pc # "idle"
  BY DEF ListsStand
<1>2. Doing(c) /\ AtLeaf(lclient[c]) /\ View = Due(lclient[c])
  BY <1>1, AloneFacts DEF Doing
<1>3. AtOuter(c) \/ AtInner(c)
  BY <1>1, <1>2, Places DEF OnTheWay
<1>4. content \in Contents /\ View \in Views /\ Says(content, rec, View)
  BY <1>1, StoreTypes
<1>5. Due(lclient[c]) = Made(lclient[c])
  BY <1>3, DueAtLeaf
<1>6. CASE AtOuter(c)
  <2>1. PICK k \in OuterKeys : lclient[c].path = <<k>> /\ lclient[c].base = <<>> /\ KeyOf(lclient[c]) = k
    BY <1>6 DEF AtOuter
  <2>2. Without(lclient[c], View) = [p \in Paths |-> IF p[1] = k THEN NoRec ELSE View[p]]
    BY <1>4, <2>1, WithoutIs
  <2> QED
    BY <1>2, <1>4, <1>5, <2>1, <2>2, OuterErased
<1>7. CASE AtInner(c)
  <2>1. PICK k \in OuterKeys, w \in InnerKeys, j \in Indexes :
          lclient[c].path = <<k, w>> /\ lclient[c].base = <<j>> /\ KeyOf(lclient[c]) = w
    BY <1>7 DEF AtInner
  <2>2. Without(lclient[c], View) = [View EXCEPT ![<<k, w>>] = NoRec]
    BY <1>4, <2>1, WithoutIs
  <2>3. content[<<>>][k] = j
    <3>1. Len(lclient[c].base) = 1 /\ lclient[c].base[1] = j /\ lclient[c].path[1] = k
      BY <2>1
    <3> QED
      BY <1>2, <3>1 DEF Doing
  <2>4. \A l \in ListKeys : content[<<>>][l] = j => l = k
    <3>1. k \in ListKeys /\ j # None /\ <<j>> # <<>>
      BY DEF ListKeys, None, Indexes
    <3> QED
      BY <1>1, <2>1, <2>3, <3>1, OuterOwned
  <2>5. Owns(content, <<>>, k, j)
    BY <2>3, <2>4 DEF Owns
  <2> QED
    BY <1>2, <1>4, <1>5, <2>1, <2>2, <2>5, InnerErased
<1> QED
  BY <1>3, <1>6, <1>7

LEMMA VecDelDone ==
  ASSUME ListsStand, ListTypes', ExactInv, NEW c \in ListClients, VecDel(c)
  PROVE  ExactInv' /\ Done(c)
PROOF
<1>0. PICK b, k, j : b = lclient[c].base /\ k = KeyOf(lclient[c]) /\ j = content[b][k]
  OBVIOUS
<1>1. ListTypes /\ lclient[c].pc = "lookup" /\ b \in Bases /\ k \in ListKeys /\ j \in Indexes \cup {None}
  BY <1>0, KeyFacts DEF VecDel, ListsStand, ListTypes, ListOps
<1>2. UNCHANGED store
  BY DEF VecDel
<1>3. View' = View /\ Fresh' /\ maxIndex' = maxIndex /\ content' = content /\ rec' = rec
  BY <1>2 DEF store, View, Fresh, ExactInv
<1>4. maxIndex[<<>>] <= maxIndex'[<<>>]
  BY <1>1, <1>3, BaseFacts DEF ListTypes
<1>5. CASE j = None
  <2>1. lclient' = [lclient EXCEPT ![c] = IdleOp]
    BY <1>0, <1>5 DEF VecDel
  <2>2. ASSUME lclient[c].alone PROVE View' = Apply(lclient[c])
    <3>1. PICK u : u = Without(lclient[c], Due(lclient[c]))
      OBVIOUS
    <3>2. u \in Views /\ u = Without(lclient[c], Made(lclient[c]))
          /\ Says([content EXCEPT ![b][k] = None], rec, u)
      BY <1>0, <1>1, <2>2, <3>1, ErasedSays
    <3>3. [content EXCEPT ![b][k] = None] = content
      BY <1>0, <1>1, <1>5 DEF ListTypes
    <3>4. View' = u
      BY <1>3, <3>2, <3>3, NextView
    <3>5. lclient[c].op = "del"
      BY <1>1, <2>2, AloneFacts DEF Doing
    <3> QED
      BY <3>2, <3>4, <3>5, ApplyIs
  <2> QED
    BY <1>1, <1>3, <2>1, <2>2, EndsExact DEF Done
<1>6. CASE j # None
  <2>1. lclient' = [lclient EXCEPT ![c].pc = "erase", ![c].i = j]
    BY <1>0, <1>6 DEF VecDel
  <2>2. Moved(c, "erase", b, j)
    BY <1>0, <1>1, <2>1, MoveFacts DEF OpStages
  <2>3. ASSUME lclient[c].alone
        PROVE  /\ View = Due(lclient[c]) /\ lclient[c].op = "del" /\ AtLeaf(lclient[c])
               /\ Len(b) = 1 => content[<<>>][lclient[c].path[1]] = b[1]
    BY <1>0, <1>1, <2>3, AloneFacts DEF Doing
  <2>4. ExactInv'
    BY <1>0, <1>1, <1>3, <1>4, <2>2, <2>3, MovesOn DEF OpStages
  <2> QED
    BY <2>2, <2>4 DEF Done, Moved
<1> QED
  BY <1>5, <1>6

LEMMA ContentDelExact ==
  ASSUME ListsStand, ListTypes', ExactInv, NEW c \in ListClients, ContentDel(c)
  PROVE  ExactInv'
PROOF
<1>0. PICK b, k, i : b = lclient[c].base /\ k = KeyOf(lclient[c]) /\ i = lclient[c].i
  OBVIOUS
<1>1. ListTypes /\ lclient[c].pc = "erase" /\ b \in Bases /\ k \in ListKeys /\ i \in Indexes \cup {None}
  BY <1>0, KeyFacts DEF ContentDel, ListsStand, ListTypes, ListOps
<1>2. content' = [content EXCEPT ![b][k] = None] /\ UNCHANGED <<maxIndex, rec>>
  BY <1>0 DEF ContentDel
<1>3. Moved(c, "unrecord", b, i)
  BY <1>0, <1>1, MoveFacts DEF ContentDel, Step, OpStages
<1>4. maxIndex[<<>>] <= maxIndex'[<<>>]
  BY <1>1, <1>2, BaseFacts DEF ListTypes
<1>5. Fresh' /\ (Len(b) = 1 => content'[<<>>] = content[<<>>])
  <2>1. CASE b = <<>>
    <3>1. \A x \in Indexes : content'[<<x>>] = content[<<x>>]
      BY <1>1, <1>2, <2>1, BaseFacts DEF ListTypes
    <3> QED
      BY <1>1, <1>4, <2>1, <3>1, FreshKept DEF ExactInv
  <2>2. CASE b # <<>>
    <3>1. PICK j \in Indexes : b = <<j>>
      BY <1>1, <2>2 DEF Bases
    <3>2. j < maxIndex[<<>>]
      <4>1. Len(b) = 1 /\ b[1] = j /\ c \in Busy
        BY <1>1, <3>1 DEF Busy
      <4> QED
        BY <1>0, <4>1 DEF ExactInv, BasesUsed
    <3>3. content'[<<>>] = content[<<>>] /\ \A x \in Indexes \ {j} : content'[<<x>>] = content[<<x>>]
      BY <1>1, <1>2, <3>1, BaseFacts DEF ListTypes
    <3> QED
      BY <1>1, <1>2, <1>4, <3>2, <3>3, FreshKept DEF ExactInv
  <2> QED
    BY <2>1, <2>2
<1>6. ASSUME lclient[c].alone
      PROVE  /\ lclient[c].op = "del" /\ AtLeaf(lclient[c])
             /\ Len(b) = 1 => content[<<>>][lclient[c].path[1]] = b[1]
             /\ View' = Without(lclient[c], Due(lclient[c]))
  <2>1. Doing(c)
    BY <1>1, <1>6, AloneFacts
  <2>2. View' = Without(lclient[c], Due(lclient[c]))
    <3>1. PICK u : u = Without(lclient[c], Due(lclient[c]))
      OBVIOUS
    <3>2. u \in Views /\ Says(content', rec', u)
      BY <1>0, <1>1, <1>2, <1>6, <3>1, ErasedSays
    <3> QED
      BY <3>1, <3>2, NextView
  <2> QED
    BY <1>0, <1>1, <2>1, <2>2 DEF Doing
<1> QED
  BY <1>0, <1>1, <1>3, <1>4, <1>5, <1>6, MovesOn DEF OpStages

LEMMA RecordDelDone ==
  ASSUME ListsStand, ListTypes', ExactInv, NEW c \in ListClients, RecordDel(c)
  PROVE  ExactInv' /\ Done(c)
PROOF
<1>0. PICK b, k, i : b = lclient[c].base /\ k = KeyOf(lclient[c]) /\ i = lclient[c].i
  OBVIOUS
<1>1. ListTypes /\ lclient[c].pc = "unrecord" /\ lclient[c].pc \in ChangeStages
  BY DEF RecordDel, ChangeStages, ListsStand
<1>2. b \in Bases /\ Changing(b) = {c} /\ KeysHaveRecords(b)
      /\ i \in Indexes /\ content[b][k] = None /\ rec[b][i].key = k
  BY <1>0, <1>1, ChangerFacts DEF StandsAt
<1>3. rec' = [rec EXCEPT ![b][i] = NoRec] /\ UNCHANGED <<maxIndex, content>>
      /\ lclient' = [lclient EXCEPT ![c] = IdleOp]
  BY <1>0 DEF RecordDel
<1>4. \A l \in ListKeys : content[b][l] # i
  <2> SUFFICES ASSUME NEW l \in ListKeys, content[b][l] = i PROVE FALSE
    OBVIOUS
  <2>1. i # None
    BY <1>2 DEF Indexes, None
  <2>2. rec[b][i].key = l
    BY <1>1, <1>2, <2>1 DEF KeysHaveRecords
  <2> QED
    BY <1>2, <2>1, <2>2
<1>5. View' = View
  BY <1>1, <1>2, <1>3, <1>4, StoreTypes, RecordUnseen, NextView
<1>6. Done(c)
  <2> SUFFICES ASSUME lclient[c].alone PROVE View = Apply(lclient[c])
    BY <1>5 DEF Done
  <2>1. Doing(c)
    BY <1>1, AloneFacts
  <2>2. AtOuter(c) \/ AtInner(c)
    BY <1>1, <2>1, Places DEF OnTheWay, Doing
  <2> QED
    BY <1>1, <2>1, <2>2, DueAtLeaf, ApplyIs DEF Doing
<1> QED
  BY <1>1, <1>3, <1>6, EndsExact

LEMMA RecordSetDone ==
  ASSUME ListsStand, ListTypes', ExactInv, NEW c \in ListClients, RecordSet(c)
  PROVE  ExactInv' /\ Done(c)
PROOF
<1>0. PICK b, k, i : b = lclient[c].base /\ k = KeyOf(lclient[c]) /\ i = lclient[c].i
  OBVIOUS
<1>1. ListTypes /\ lclient[c].pc = "record" /\ lclient[c].pc \in ChangeStages /\ lclient[c].pc # "idle"
  BY DEF RecordSet, ChangeStages, ListsStand
<1>2. b \in Bases /\ k \in ListKeys /\ Changing(b) = {c} /\ i \in Indexes /\ content[b][k] = i /\ i # None
      /\ i < maxIndex[b]
  <2>1. b \in Bases /\ k \in ListKeys /\ Changing(b) = {c} /\ StandsAt(c)
    BY <1>0, <1>1, ChangerFacts
  <2>2. i \in Indexes /\ content[b][k] = i /\ i < maxIndex[b]
    BY <1>0, <1>1, <2>1 DEF StandsAt
  <2> QED
    BY <2>1, <2>2 DEF None, Indexes
<1>3. UNCHANGED <<maxIndex, content>>
  BY DEF RecordSet
<1>4. content \in Contents /\ rec \in Records /\ View \in Views /\ Says(content, rec, View)
  BY <1>1, StoreTypes
<1>5. Owns(content, b, k, i)
  BY <1>1, <1>2, Owned DEF Owns
<1>6. AtOuter(c) \/ OnTheWay(c) \/ AtInner(c)
  BY <1>1, Places
<1>7. lclient[c].val \in Vals \cup {NoVal} /\ rec[b][i] \in Recs
  BY <1>1, <1>2, <1>4 DEF ListTypes, ListOps, Records
<1>8. CASE AtLeaf(lclient[c])
  <2>1. lclient' = [lclient EXCEPT ![c] = IdleOp]
    BY <1>8 DEF RecordSet
  <2>2. PICK x : x = [key |-> k, b |-> NewVars(lclient[c].op, lclient[c].val, rec[b][i])]
    OBVIOUS
  <2>3. x \in Recs
    BY <1>2, <1>7, <2>2, NewVarsFacts
  <2>4. rec' = [rec EXCEPT ![b][i] = x]
    BY <1>0, <1>2, <1>4, <1>8, <2>2 DEF RecordSet, Records
  <2>5. AtOuter(c) \/ AtInner(c)
    BY <1>6, <1>8 DEF OnTheWay
  <2>6. ASSUME lclient[c].alone PROVE View' = Apply(lclient[c])
    <3>1. Doing(c) /\ lclient[c].op # "del" /\ View = Made(lclient[c]) /\ lclient[c].before \in Views
      BY <1>1, <1>8, <2>5, <2>6, AloneFacts, DueAtLeaf DEF Doing
    <3>2. PICK p : p = lclient[c].path
      OBVIOUS
    <3>3. Apply(lclient[c]) =
            [View EXCEPT ![p] = [key |-> p[Len(p)], b |-> NewVars(lclient[c].op, lclient[c].val, lclient[c].before[p])]]
      BY <3>1, <3>2, ApplyIs
    <3>4. CASE AtOuter(c)
      <4>1. k \in OuterKeys /\ p = <<k>> /\ b = <<>>
        BY <1>0, <3>2, <3>4 DEF AtOuter
      <4>2. Made(lclient[c]) = lclient[c].before
        BY <3>1, <3>2, <4>1, MadeAt
      <4>3. lclient[c].before[p] = rec[b][i]
        <5>1. View[<<k>>] = OuterOf(content, rec, k)
          BY <1>4, <4>1, Zenon DEF Says
        <5> QED
          BY <1>2, <3>1, <4>1, <4>2, <5>1 DEF OuterOf
      <4>4. p[Len(p)] = k
        BY <4>1
      <4>5. Apply(lclient[c]) = [View EXCEPT ![<<k>>] = x]
        BY <2>2, <3>3, <4>1, <4>3, <4>4
      <4>6. PICK u : u = [View EXCEPT ![<<k>>] = x]
        OBVIOUS
      <4>7. u \in Views /\ Says(content', rec', u)
        BY <1>2, <1>3, <1>4, <1>5, <2>3, <2>4, <4>1, <4>6, OuterRecordSeen
      <4> QED
        BY <4>5, <4>6, <4>7, NextView
    <3>5. CASE AtInner(c)
      <4>1. PICK l \in OuterKeys, j \in Indexes : p = <<l, k>> /\ b = <<j>> /\ k \in InnerKeys
        BY <1>0, <3>2, <3>5 DEF AtInner
      <4>2. Made(lclient[c])[<<l, k>>] = lclient[c].before[<<l, k>>]
        BY <3>1, <3>2, <4>1, MadeAt
      <4>3. content[<<>>][l] = j
        <5>1. Len(b) = 1 /\ b[1] = j /\ p[1] = l
          BY <4>1
        <5> QED
          BY <1>0, <3>1, <3>2, <5>1 DEF Doing
      <4>4. l \in ListKeys /\ j # None
        BY DEF ListKeys, None, Indexes
      <4>5. Owns(content, <<>>, l, j)
        BY <1>1, <2>6, <4>3, <4>4, OuterOwned DEF Owns
      <4>6. lclient[c].before[p] = rec[b][i]
        <5>1. View[<<l, k>>] = InnerOf(content, rec, l, k)
          BY <1>4, <4>1, Zenon DEF Says
        <5>2. InnerOf(content, rec, l, k) = rec[<<j>>][i]
          BY <1>2, <4>1, <4>3, <4>4 DEF InnerOf
        <5> QED
          BY <3>1, <4>1, <4>2, <5>1, <5>2
      <4>7. p[Len(p)] = k
        BY <4>1
      <4>8. Apply(lclient[c]) = [View EXCEPT ![<<l, k>>] = x]
        BY <2>2, <3>3, <4>1, <4>6, <4>7
      <4>9. PICK u : u = [View EXCEPT ![<<l, k>>] = x]
        OBVIOUS
      <4>10. u \in Views /\ Says(content', rec', u)
        <5>1. u \in Views /\ Says(content, [rec EXCEPT ![<<j>>][i] = x], u)
          BY <1>2, <1>4, <1>5, <2>3, <4>1, <4>5, <4>9, InnerRecordSeen
        <5>2. rec' = [rec EXCEPT ![<<j>>][i] = x] /\ content' = content
          BY <1>3, <2>4, <4>1
        <5> QED
          BY <5>1, <5>2
      <4> QED
        BY <4>8, <4>9, <4>10, NextView
    <3> QED
      BY <2>5, <3>4, <3>5
  <2>7. ExactInv'
    BY <1>1, <1>3, <2>1, EndsExact
  <2> QED
    BY <2>6, <2>7 DEF Done
<1>9. CASE ~AtLeaf(lclient[c])
  <2>1. lclient' = [lclient EXCEPT ![c].pc = "send", ![c].base = <<i>>, ![c].i = None]
    BY <1>0, <1>9 DEF RecordSet
  <2>2. OnTheWay(c)
    BY <1>6, <1>9 DEF AtOuter, AtInner
  <2>3. Moved(c, "send", <<i>>, None)
    BY <1>1, <1>2, <1>9, <2>1, DescendFacts
  <2>4. k \in OuterKeys /\ b = <<>> /\ Len(lclient[c].path) = 2 /\ lclient[c].path[1] = k
    BY <1>0, <2>2 DEF OnTheWay
  <2>5. PICK x : x = [key |-> k, b |-> Default]
    OBVIOUS
  <2>6. x \in Recs /\ rec' = [rec EXCEPT ![b][i] = x]
    BY <1>0, <1>2, <1>9, <2>5 DEF RecordSet, Recs
  <2>7. ASSUME lclient[c].alone PROVE View' = Made(lclient[c])
    <3>1. Doing(c) /\ View = lclient[c].before
      <4>1. Doing(c)
        BY <1>1, <2>7, AloneFacts
      <4>2. View = Due(lclient[c])
        BY <1>1, <4>1 DEF Doing
      <4>3. Len(b) = 0
        BY <2>4
      <4>4. Due(lclient[c]) = lclient[c].before
        BY <1>0, <2>4, <4>3 DEF Due
      <4> QED
        BY <4>1, <4>2, <4>4
    <3>2. rec[b][i] = NoRec
      BY <1>0, <1>1, <1>9, <3>1 DEF Doing
    <3>3. View[<<k>>] = NoRec
      <4>1. View[<<k>>] = OuterOf(content, rec, k)
        BY <1>4, <2>4, Zenon DEF Says
      <4> QED
        BY <1>2, <2>4, <3>2, <4>1 DEF OuterOf
    <3>4. Made(lclient[c]) = [View EXCEPT ![<<k>>] = x]
      BY <2>4, <2>5, <3>1, <3>3 DEF Made
    <3>5. PICK u : u = [View EXCEPT ![<<k>>] = x]
      OBVIOUS
    <3>6. u \in Views /\ Says(content', rec', u)
      BY <1>2, <1>3, <1>4, <1>5, <2>4, <2>6, <3>5, OuterRecordSeen
    <3> QED
      BY <3>4, <3>5, <3>6, NextView
  <2>8. maxIndex[<<>>] <= maxIndex'[<<>>]
    BY <1>1, <1>3, BaseFacts DEF ListTypes
  <2>9. Fresh'
    BY <1>3 DEF ExactInv, Fresh
  <2>10. ExactInv'
    BY <1>1, <1>2, <1>3, <2>2, <2>3, <2>4, <2>7, <2>8, <2>9, GoesDown
  <2> QED
    BY <2>3, <2>10 DEF Done, Moved
<1> QED
  BY <1>8, <1>9

LEMMA CliDbopExact ==
  ASSUME ListsStand, ListTypes', ExactInv, NEW c \in ListClients, NEW op \in {"set", "merge", "del"},
         NEW path \in Paths, NEW val \in Vals \cup {NoVal}, CliDbop(c, op, path, val)
  PROVE  ExactInv'
PROOF
<1>1. ListTypes /\ lclient[c].pc = "idle" /\ UNCHANGED store
  BY DEF CliDbop, ListsStand
<1>2. PICK p : p = IF Len(path) = 1 THEN "send" ELSE "find"
  OBVIOUS
<1>3. lclient' = [d \in ListClients |->
        IF d = c THEN [pc |-> p, op |-> op, path |-> path, val |-> val, base |-> <<>>, i |-> None,
                       before |-> View, alone |-> (Busy = {})]
        ELSE [lclient[d] EXCEPT !.alone = (lclient[d].pc = "idle")]]
  BY <1>2 DEF CliDbop
<1>4. lclient'[c] = [pc |-> p, op |-> op, path |-> path, val |-> val, base |-> <<>>, i |-> None,
                     before |-> View, alone |-> (Busy = {})]
  BY <1>3
<1>5. View' = View /\ Fresh' /\ maxIndex' = maxIndex
  BY <1>1 DEF store, View, Fresh, ExactInv
<1>6. ASSUME NEW d \in ListClients, d # c
      PROVE  /\ lclient'[d].pc = lclient[d].pc /\ lclient'[d].base = lclient[d].base
             /\ lclient'[d].alone = (lclient[d].pc = "idle")
  <2>1. lclient'[d] = [lclient[d] EXCEPT !.alone = (lclient[d].pc = "idle")]
    BY <1>3, <1>6
  <2>2. lclient[d] \in ListOps
    BY <1>1 DEF ListTypes
  <2> QED
    BY <2>1, <2>2 DEF ListOps
<1>7. p \in {"send", "find"} /\ Busy' = Busy \cup {c}
  BY <1>1, <1>2, <1>4, <1>6 DEF Busy
<1>8. BasesUsed'
  <2> SUFFICES ASSUME NEW d \in Busy', Len(lclient'[d].base) = 1 PROVE lclient'[d].base[1] < maxIndex[<<>>]
    BY <1>5 DEF BasesUsed
  <2>1. d # c
    <3> SUFFICES ASSUME d = c PROVE FALSE
      OBVIOUS
    <3>1. lclient'[d].base = <<>>
      BY <1>4
    <3> QED
      BY <3>1
  <2>2. d \in Busy /\ d \in ListClients
    BY <1>7, <2>1 DEF Busy
  <2> QED
    BY <1>6, <2>1, <2>2 DEF ExactInv, BasesUsed
<1>9. AloneExact'
  <2> SUFFICES ASSUME NEW d \in Busy', lclient'[d].alone PROVE Busy' = {d} /\ Doing(d)'
    BY DEF AloneExact
  <2>1. d = c
    <3> SUFFICES ASSUME d # c PROVE FALSE
      OBVIOUS
    <3>1. d \in ListClients /\ lclient[d].pc # "idle"
      BY <1>7 DEF Busy
    <3> QED
      BY <1>6, <3>1
  <2>2. Busy = {}
    <3>1. lclient'[c].alone = (Busy = {})
      BY <1>4
    <3> QED
      BY <2>1, <3>1, Zenon
  <2>3. Doing(c)'
    <3>1. PICK q : q = lclient'[c]
      OBVIOUS
    <3>2. /\ q.pc = p /\ q.op = op /\ q.path = path /\ q.base = <<>> /\ q.before = View
          /\ Len(q.base) = 0
      BY <1>4, <3>1
    <3>3. View \in Views
      BY <1>1, StoreTypes
    <3>4. AtLeaf(q) <=> Len(path) = 1
      BY <3>2 DEF AtLeaf
    <3>5. Due(q) = View
      <4>1. CASE Len(path) = 1
        BY <3>2, <4>1 DEF Due, Made
      <4>2. CASE Len(path) # 1
        BY <3>2, <4>2 DEF Due
      <4> QED
        BY <4>1, <4>2
    <3> QED
      BY <1>2, <1>5, <3>1, <3>2, <3>3, <3>4, <3>5 DEF Doing
  <2> QED
    BY <1>7, <2>1, <2>2, <2>3
<1> QED
  BY <1>5, <1>8, <1>9 DEF ExactInv

LEMMA ExactStart == ListInit => ExactInv
PROOF
<1> SUFFICES ASSUME ListInit PROVE ExactInv
  OBVIOUS
<1>1. Busy = {}
  BY DEF ListInit, Busy, IdleOp
<1>2. Fresh
  BY BaseFacts DEF ListInit, Fresh
<1> QED
  BY <1>1, <1>2 DEF ExactInv, BasesUsed, AloneExact

\* A step that leaves nothing overlapped and no access failed.
LEMMA ExactStep ==
  ASSUME ListsStand, ListsStand', ExactInv, [ListNext]_listVars, Quiet'
  PROVE  ExactInv'
PROOF
<1>0. ListTypes'
  BY DEF ListsStand
<1>1. CASE UNCHANGED listVars
  <2>1. View' = View /\ Busy' = Busy /\ lclient' = lclient /\ maxIndex' = maxIndex /\ content' = content /\ rec' = rec
    BY <1>1 DEF listVars, store, View, Busy
  <2> QED
    BY <2>1 DEF ExactInv, Fresh, BasesUsed, AloneExact, Doing
<1>2. CASE ListNext
  <2>1. PICK c \in ListClients :
          \/ \E p \in Paths : \/ CliDbop(c, "del", p, NoVal)
                              \/ \E op \in {"set", "merge"}, v \in Vals \cup {NoVal} : CliDbop(c, op, p, v)
          \/ Serve(c) \/ VecFind(c) \/ IndexMaxGet(c) \/ ContentSet(c) \/ IndexMaxSet(c) \/ RecordSet(c)
          \/ VecDel(c) \/ ContentDel(c) \/ RecordDel(c) \/ DbFails(c)
    BY <1>2 DEF ListNext
  <2>2. CASE \E p \in Paths : \/ CliDbop(c, "del", p, NoVal)
                              \/ \E op \in {"set", "merge"}, v \in Vals \cup {NoVal} : CliDbop(c, op, p, v)
    BY <1>0, <2>2, CliDbopExact
  <2>3. CASE Serve(c)
    BY <1>0, <2>3, ServeExact
  <2>4. CASE VecFind(c)
    BY <1>0, <2>4, VecFindExact
  <2>5. CASE IndexMaxGet(c)
    BY <1>0, <2>5, IndexMaxGetExact
  <2>6. CASE ContentSet(c)
    BY <1>0, <2>6, ContentSetExact
  <2>7. CASE IndexMaxSet(c)
    BY <1>0, <2>7, IndexMaxSetExact
  <2>8. CASE RecordSet(c)
    BY <1>0, <2>8, RecordSetDone
  <2>9. CASE VecDel(c)
    BY <1>0, <2>9, VecDelDone
  <2>10. CASE ContentDel(c)
    BY <1>0, <2>10, ContentDelExact
  <2>11. CASE RecordDel(c)
    BY <1>0, <2>11, RecordDelDone
  <2>12. CASE DbFails(c)
    BY <2>12 DEF DbFails, Quiet
  <2> QED
    BY <2>1, <2>2, <2>3, <2>4, <2>5, <2>6, <2>7, <2>8, <2>9, <2>10, <2>11, <2>12
<1> QED
  BY <1>1, <1>2

\* The steps an operation ends with are its own.
LEMMA LastSteps ==
  ASSUME ListTypes, NEW c \in ListClients, lclient[c].pc # "idle", lclient'[c].pc = "idle", ListNext
  PROVE  RecordSet(c) \/ VecDel(c) \/ RecordDel(c) \/ DbFails(c)
PROOF
<1>1. PICK d \in ListClients :
        \/ \E p \in Paths : \/ CliDbop(d, "del", p, NoVal)
                            \/ \E op \in {"set", "merge"}, v \in Vals \cup {NoVal} : CliDbop(d, op, p, v)
        \/ Serve(d) \/ VecFind(d) \/ IndexMaxGet(d) \/ ContentSet(d) \/ IndexMaxSet(d) \/ RecordSet(d)
        \/ VecDel(d) \/ ContentDel(d) \/ RecordDel(d) \/ DbFails(d)
  BY DEF ListNext
<1>2. lclient \in [ListClients -> ListOps]
  BY DEF ListTypes
<1>3. ASSUME NEW p \in Paths, NEW op, NEW v, CliDbop(d, op, p, v) PROVE FALSE
  <2>1. c # d
    BY <1>3 DEF CliDbop
  <2>2. lclient'[c] = [lclient[c] EXCEPT !.alone = (lclient[c].pc = "idle")]
    BY <1>3, <2>1 DEF CliDbop
  <2>3. lclient'[c].pc = lclient[c].pc
    BY <1>2, <2>2 DEF ListOps
  <2> QED
    BY <2>3
<1>4. ASSUME NEW q \in ListOps, lclient' = [lclient EXCEPT ![d] = q], q.pc # "idle" PROVE FALSE
  BY <1>2, <1>4
<1>5. ASSUME NEW p, p # "idle", lclient' = [lclient EXCEPT ![d].pc = p] PROVE FALSE
  BY <1>2, <1>5 DEF ListOps
<1>6. ASSUME NEW p, NEW i, p # "idle", lclient' = [lclient EXCEPT ![d].pc = p, ![d].i = i] PROVE FALSE
  BY <1>2, <1>6 DEF ListOps
<1>7. ASSUME NEW p, NEW b, NEW i, p # "idle", lclient' = [lclient EXCEPT ![d].pc = p, ![d].base = b, ![d].i = i]
      PROVE  FALSE
  BY <1>2, <1>7, ZenonT(60) DEF ListOps
<1>8. ASSUME lclient' = [lclient EXCEPT ![d] = IdleOp] PROVE d = c
  BY <1>2, <1>8
<1>9. ASSUME NEW i, NEW made, Found(d, i, made) PROVE FALSE
  BY <1>6, <1>7, <1>9 DEF Found
<1>10. ~Serve(d) /\ ~IndexMaxGet(d) /\ ~ContentSet(d) /\ ~ContentDel(d)
  BY <1>5, <1>6 DEF Serve, IndexMaxGet, ContentSet, ContentDel, Step
<1>11. ~VecFind(d) /\ ~IndexMaxSet(d)
  BY <1>5, <1>9 DEF VecFind, IndexMaxSet, Step
<1>12. RecordSet(d) \/ VecDel(d) \/ RecordDel(d) \/ DbFails(d) => d = c
  <2>1. RecordSet(d) => d = c
    <3>1. CASE AtLeaf(lclient[d])
      BY <1>8, <3>1 DEF RecordSet
    <3>2. CASE ~AtLeaf(lclient[d])
      <4>1. RecordSet(d) => lclient' = [lclient EXCEPT ![d].pc = "send", ![d].base = <<lclient[d].i>>, ![d].i = None]
        BY <3>2 DEF RecordSet
      <4> SUFFICES ASSUME RecordSet(d) PROVE FALSE
        OBVIOUS
      <4>2. PICK p, b, i : p = "send" /\ b = <<lclient[d].i>> /\ i = None
        OBVIOUS
      <4>3. lclient' = [lclient EXCEPT ![d].pc = p, ![d].base = b, ![d].i = i] /\ p # "idle"
        BY <4>1, <4>2
      <4> QED
        BY <1>7, <4>3
    <3> QED
      BY <3>1, <3>2
  <2>2. VecDel(d) => d = c
    BY <1>6, <1>8 DEF VecDel
  <2>3. RecordDel(d) \/ DbFails(d) => d = c
    BY <1>8 DEF RecordDel, DbFails
  <2> QED
    BY <2>1, <2>2, <2>3
<1> QED
  BY <1>1, <1>3, <1>10, <1>11, <1>12

LEMMA OperationDone ==
  ASSUME ListsStand, ExactInv, Quiet, [ListNext]_listVars, NEW c \in ListClients,
         lclient[c].pc # "idle", lclient'[c].pc = "idle", lclient[c].alone, ~dbFailed'
  PROVE  View' = Apply(lclient[c])
PROOF
<1>1. ListTypes
  BY DEF ListsStand
<1>2. ListNext
  BY DEF listVars
<1>3. RecordSet(c) \/ VecDel(c) \/ RecordDel(c)
  BY <1>1, <1>2, LastSteps DEF DbFails
<1>4. CASE RecordSet(c)
  BY <1>4, RecordSetKeeps, RecordSetDone DEF ListsStand, Done
<1>5. CASE RecordDel(c)
  BY <1>5, RecordDelKeeps, RecordDelDone DEF ListsStand, Done
<1>6. CASE VecDel(c)
  <2>1. lclient[c].base \in Bases /\ c \notin Changing(lclient[c].base)
    BY <1>1, <1>6 DEF VecDel, ListTypes, ListOps, Changing
  <2>2. Changing(lclient[c].base) = {}
    BY <1>1, <2>1, AloneFacts
  <2>3. overlapped' = (overlapped \/ Changing(lclient[c].base) # {})
    BY <1>6 DEF VecDel
  <2>4. Quiet'
    BY <2>2, <2>3, Zenon DEF Quiet
  <2> QED
    BY <1>6, <2>4, VecDelKeeps, VecDelDone DEF ListsStand, Done
<1> QED
  BY <1>3, <1>4, <1>5, <1>6

\* For any number of CLIs, keys, values and operations: an operation that
\* runs alone sets, merges or deletes the entry it names, with all that is
\* inside a deleted one, and changes no other path of the list.
THEOREM OperationsDoWhatTheySay == ListDbSpec => OperationsExact
PROOF
<1> DEFINE Inv == ListInv /\ (Quiet => ExactInv)
<1>1. ListInit => Inv
  BY ListStart, ExactStart DEF ListInv
<1>2. Inv /\ [ListNext]_listVars => Inv'
  <2> SUFFICES ASSUME Inv, [ListNext]_listVars PROVE Inv'
    OBVIOUS
  <2>1. ListInv'
    BY ListStep
  <2>2. ASSUME Quiet' PROVE ExactInv'
    <3>1. Quiet
      BY <2>2, QuietBefore
    <3> QED
      BY <2>1, <2>2, <3>1, ExactStep DEF ListInv
  <2> QED
    BY <2>1, <2>2
<1>3. Inv /\ [ListNext]_listVars =>
        [\A c \in ListClients :
           Quiet /\ lclient[c].pc # "idle" /\ lclient'[c].pc = "idle" /\ lclient[c].alone /\ ~dbFailed' =>
             ViewOf(maxIndex', content', rec') = Apply(lclient[c])]_listVars
  BY OperationDone DEF ListInv, View
<1> QED
  BY <1>1, <1>2, <1>3, PTL DEF ListDbSpec, OperationsExact

==============================================================================
