---------------------------- MODULE SequenceLemmas ----------------------------
(***************************************************************************)
(* Facts about the numbers and sequences of the models that their proofs   *)
(* share: the least element of a set of numbers, induction over a set, and *)
(* the list operations of clicon_event.c and config_handle.c, which take   *)
(* the first entry that matches out of a list.                             *)
(***************************************************************************)
EXTENDS Integers, Sequences, FiniteSets, SequencesExt, FunctionTheorems, FiniteSetTheorems,
        WellFoundedInduction, TLAPS

\* A set of numbers that is not empty has a least element.
LEMMA LeastNat ==
  ASSUME NEW T, T \subseteq Nat, T # {}
  PROVE  \E n \in T : \A m \in T : n <= m
PROOF
<1>1. IsWellFoundedOn(OpToRel(<, Nat), Nat)
  BY NatLessThanWellFounded
<1>2. PICK n \in T : \A m \in T : ~(<<m, n>> \in OpToRel(<, Nat))
  BY <1>1, WFMin
<1>3. \A m \in T : ~(m < n)
  BY <1>2 DEF OpToRel
<1>4. \A m \in T : n <= m
  BY <1>3
<1> QED
  BY <1>4

\* Induction, for the set of the numbers that have a property.
LEMMA SetInduction ==
  ASSUME NEW T, 0 \in T, \A n \in Nat : n \in T => n + 1 \in T
  PROVE  Nat \subseteq T
PROOF
<1> SUFFICES ASSUME ~(Nat \subseteq T) PROVE FALSE
  OBVIOUS
<1> DEFINE B == Nat \ T
<1>1. PICK n \in B : \A m \in B : n <= m
  <2>1. B # {} /\ B \subseteq Nat
    OBVIOUS
  <2> HIDE DEF B
  <2> QED
    BY <2>1, LeastNat
<1>2. n # 0 /\ n - 1 \in Nat
  OBVIOUS
<1>3. n - 1 \in T
  BY <1>1, <1>2
<1> QED
  BY <1>2, <1>3

\* RemoveFirst of an entry that is in the list once.
LEMMA RemovePlace ==
  ASSUME NEW S, NEW s \in Seq(S), IsInjective(s), NEW i \in 1..Len(s)
  PROVE  LET r == RemoveFirst(s, s[i])
         IN /\ r \in Seq(S)
            /\ Len(r) = Len(s) - 1
            /\ \A j \in 1..Len(r) : r[j] = IF j < i THEN s[j] ELSE s[j + 1]
PROOF
<1>1. {j \in 1..Len(s) : s[j] = s[i]} = {i}
  BY DEF IsInjective
<1>2. (CHOOSE m \in {i} : \A y \in {i} : m <= y) = i
  OBVIOUS
<1>3. Min({i}) = i
  BY <1>2 DEF Min
<1>4. SelectInSeq(s, LAMBDA v : v = s[i]) = i
  BY <1>1, <1>3 DEF SelectInSeq
<1> DEFINE a == SubSeq(s, 1, i - 1)  b == SubSeq(s, i + 1, Len(s))
<1>5. \E j \in 1..Len(s) : s[j] = s[i]
  OBVIOUS
<1>6. RemoveFirst(s, s[i]) = a \o b
  BY <1>4, <1>5 DEF RemoveFirst, RemoveFirst, RemoveAt
<1>7. a \in Seq(S) /\ Len(a) = i - 1 /\ \A j \in 1..(i - 1) : a[j] = s[j]
  OBVIOUS
<1>8. b \in Seq(S) /\ Len(b) = Len(s) - i /\ \A j \in 1..(Len(s) - i) : b[j] = s[i + j]
  OBVIOUS
<1> HIDE DEF a, b
<1>9. /\ a \o b \in Seq(S) /\ Len(a \o b) = Len(s) - 1
      /\ \A j \in 1..(Len(s) - 1) : (a \o b)[j] = IF j < i THEN a[j] ELSE b[j - (i - 1)]
  <2>1. Len(a) = i - 1 /\ Len(b) = Len(s) - i /\ a \in Seq(S) /\ b \in Seq(S)
    BY <1>7, <1>8
  <2>2. a \o b \in Seq(S) /\ Len(a \o b) = Len(a) + Len(b)
    BY <2>1
  <2>3. \A j \in 1..(Len(a) + Len(b)) :
          (a \o b)[j] = IF j <= Len(a) THEN a[j] ELSE b[j - Len(a)]
    BY <2>1
  <2> QED
    BY <2>1, <2>2, <2>3
<1>10. \A j \in 1..(Len(s) - 1) : ~(j < i) => b[j - (i - 1)] = s[j + 1]
  BY <1>8
<1> QED
  BY <1>6, <1>7, <1>9, <1>10

\* The list without an entry that is in it, and the list without another.
LEMMA RemoveProperties ==
  ASSUME NEW S, NEW s \in Seq(S), IsInjective(s), NEW x
  PROVE  LET r == RemoveFirst(s, x)
         IN /\ r \in Seq(S) /\ IsInjective(r)
            /\ Range(r) = Range(s) \ {x}
            /\ Len(r) = IF x \in Range(s) THEN Len(s) - 1 ELSE Len(s)
            /\ x \notin Range(s) => r = s
PROOF
<1>1. CASE x \notin Range(s)
  <2>1. RemoveFirst(s, x) = s
    BY <1>1 DEF RemoveFirst, Range
  <2> QED
    BY <1>1, <2>1
<1>2. CASE x \in Range(s)
  <2>1. PICK i \in 1..Len(s) : s[i] = x
    BY <1>2 DEF Range
  <2> DEFINE r == RemoveFirst(s, x)
  <2>2. /\ r \in Seq(S) /\ Len(r) = Len(s) - 1
        /\ \A j \in 1..Len(r) : r[j] = IF j < i THEN s[j] ELSE s[j + 1]
    BY <2>1, RemovePlace
  <2> HIDE DEF r
  <2>3. IsInjective(r)
    <3> SUFFICES ASSUME NEW j \in 1..Len(r), NEW k \in 1..Len(r), r[j] = r[k] PROVE j = k
      BY <2>2 DEF IsInjective
    <3>1. CASE j < i /\ k < i
      BY <3>1, <2>2 DEF IsInjective
    <3>2. CASE j < i /\ ~(k < i)
      <4>1. s[j] = s[k + 1] /\ k + 1 \in 1..Len(s) /\ j \in 1..Len(s)
        BY <3>2, <2>2
      <4> QED
        BY <4>1, <3>2 DEF IsInjective
    <3>3. CASE ~(j < i) /\ k < i
      <4>1. s[j + 1] = s[k] /\ j + 1 \in 1..Len(s) /\ k \in 1..Len(s)
        BY <3>3, <2>2
      <4> QED
        BY <4>1, <3>3 DEF IsInjective
    <3>4. CASE ~(j < i) /\ ~(k < i)
      <4>1. s[j + 1] = s[k + 1] /\ j + 1 \in 1..Len(s) /\ k + 1 \in 1..Len(s)
        BY <3>4, <2>2
      <4> QED
        BY <4>1 DEF IsInjective
    <3> QED
      BY <3>1, <3>2, <3>3, <3>4
  <2>4. Range(r) \subseteq Range(s) \ {x}
    BY <2>1, <2>2, SMTT(30) DEF Range, IsInjective
  <2>5. Range(s) \ {x} \subseteq Range(r)
    <3> SUFFICES ASSUME NEW j \in 1..Len(s), s[j] # x PROVE s[j] \in Range(r)
      BY DEF Range
    <3>1. CASE j < i
      BY <3>1, <2>2 DEF Range
    <3>2. CASE j > i
      <4>1. j - 1 \in 1..Len(r) /\ r[j - 1] = s[j]
        BY <3>2, <2>2
      <4> QED
        BY <4>1, <2>2 DEF Range
    <3> QED
      BY <2>1, <3>1, <3>2
  <2> QED
    BY <1>2, <2>2, <2>3, <2>4, <2>5 DEF r
<1> QED
  BY <1>1, <1>2

\* A new entry in front of the list.
LEMMA InsertProperties ==
  ASSUME NEW S, NEW s \in Seq(S), IsInjective(s), NEW x \in S, x \notin Range(s)
  PROVE  LET r == <<x>> \o s
         IN /\ r \in Seq(S) /\ IsInjective(r)
            /\ Range(r) = Range(s) \cup {x}
            /\ Len(r) = Len(s) + 1
            /\ r[1] = x /\ \A j \in 1..Len(s) : r[j + 1] = s[j]
PROOF
<1> DEFINE r == <<x>> \o s
<1>1. /\ r \in Seq(S) /\ Len(r) = Len(s) + 1
      /\ r[1] = x /\ \A j \in 1..Len(s) : r[j + 1] = s[j]
      /\ \A j \in 2..Len(r) : r[j] = s[j - 1]
  OBVIOUS
<1> HIDE DEF r
<1>2. \A j \in 1..Len(s) : s[j] # x
  BY DEF Range
<1>3. IsInjective(r)
  <2> SUFFICES ASSUME NEW j \in 1..Len(r), NEW k \in 1..Len(r), r[j] = r[k] PROVE j = k
    BY <1>1 DEF IsInjective
  <2> QED
    BY <1>1, <1>2, SMTT(30) DEF IsInjective
<1>4. Range(r) \subseteq Range(s) \cup {x}
  BY <1>1 DEF Range
<1>5. Range(s) \cup {x} \subseteq Range(r)
  <2>1. \A j \in 1..Len(s) : s[j] \in Range(r)
    BY <1>1 DEF Range
  <2>2. x \in Range(r)
    BY <1>1 DEF Range
  <2> QED
    BY <2>1, <2>2 DEF Range
<1> QED
  BY <1>1, <1>3, <1>4, <1>5 DEF r

\* A new entry at the end of the list, and the list without its first entry.
LEMMA QueueProperties ==
  ASSUME NEW S, NEW s \in Seq(S), IsInjective(s)
  PROVE  /\ \A x \in S \ Range(s) :
              /\ Append(s, x) \in Seq(S) /\ IsInjective(Append(s, x))
              /\ Range(Append(s, x)) = Range(s) \cup {x}
         /\ s # <<>> =>
              /\ Tail(s) \in Seq(S) /\ IsInjective(Tail(s))
              /\ Head(s) \in Range(s)
              /\ Range(Tail(s)) = Range(s) \ {Head(s)}
PROOF
<1>1. ASSUME NEW x \in S \ Range(s)
      PROVE  /\ Append(s, x) \in Seq(S) /\ IsInjective(Append(s, x))
             /\ Range(Append(s, x)) = Range(s) \cup {x}
  <2> DEFINE r == Append(s, x)
  <2>1. /\ r \in Seq(S) /\ Len(r) = Len(s) + 1 /\ r[Len(s) + 1] = x
        /\ \A j \in 1..Len(s) : r[j] = s[j] /\ s[j] # x
    BY DEF Range
  <2> HIDE DEF r
  <2>2. IsInjective(r)
    BY <2>1 DEF IsInjective
  <2>3. Range(r) = Range(s) \cup {x}
    BY <2>1 DEF Range
  <2> QED
    BY <2>1, <2>2, <2>3 DEF r
<1>2. ASSUME s # <<>>
      PROVE  /\ Tail(s) \in Seq(S) /\ IsInjective(Tail(s))
             /\ Head(s) \in Range(s)
             /\ Range(Tail(s)) = Range(s) \ {Head(s)}
  <2> DEFINE r == Tail(s)
  <2>1. /\ r \in Seq(S) /\ Len(r) = Len(s) - 1 /\ Head(s) = s[1] /\ 1 \in 1..Len(s)
        /\ \A j \in 1..Len(r) : r[j] = s[j + 1]
        /\ \A j \in 2..Len(s) : j - 1 \in 1..Len(r) /\ r[j - 1] = s[j]
    BY <1>2
  <2> HIDE DEF r
  <2>2. IsInjective(r)
    <3> SUFFICES ASSUME NEW j \in 1..Len(r), NEW k \in 1..Len(r), r[j] = r[k] PROVE j = k
      BY <2>1 DEF IsInjective
    <3>1. s[j + 1] = s[k + 1] /\ j + 1 \in 1..Len(s) /\ k + 1 \in 1..Len(s)
      BY <2>1
    <3> QED
      BY <3>1 DEF IsInjective
  <2>3. Range(r) \subseteq Range(s) \ {s[1]}
    <3> SUFFICES ASSUME NEW j \in 1..Len(r) PROVE r[j] \in Range(s) \ {s[1]}
      BY <2>1 DEF Range
    <3>1. r[j] = s[j + 1] /\ j + 1 \in 1..Len(s) /\ j + 1 # 1
      BY <2>1
    <3> QED
      BY <3>1, <2>1, SMTT(30) DEF Range, IsInjective
  <2>4. Range(s) \ {s[1]} \subseteq Range(r)
    <3> SUFFICES ASSUME NEW j \in 1..Len(s), j # 1 PROVE s[j] \in Range(r)
      BY DEF Range
    <3>1. j - 1 \in 1..Len(r) /\ r[j - 1] = s[j]
      BY <2>1
    <3> QED
      BY <3>1, <2>1 DEF Range
  <2>5. s[1] \in Range(s)
    BY <2>1 DEF Range
  <2> QED
    BY <2>1, <2>2, <2>3, <2>4, <2>5 DEF r
<1> QED
  BY <1>1, <1>2

\* A list without repetitions is as long as the set of its entries is large.
LEMMA InjectiveCardinality ==
  ASSUME NEW S, NEW s \in Seq(S), IsInjective(s)
  PROVE  IsFiniteSet(Range(s)) /\ Cardinality(Range(s)) = Len(s)
PROOF
<1>1. s \in Bijection(1..Len(s), Range(s))
  BY DEF Bijection, Injection, Surjection, IsInjective, Range
<1>2. Cardinality(1..Len(s)) = Len(s) /\ IsFiniteSet(1..Len(s))
  <2>1. Len(s) \in Nat /\ 1 \in Int /\ Len(s) \in Int
    OBVIOUS
  <2>2. /\ IsFiniteSet(1..Len(s))
        /\ Cardinality(1..Len(s)) = IF 1 > Len(s) THEN 0 ELSE Len(s) - 1 + 1
    BY <2>1, FS_Interval
  <2> QED
    BY <2>1, <2>2
<1> QED
  BY <1>1, <1>2, FS_Bijection, Fun_BijectionProperties DEF ExistsBijection

\* The empty sequence is the one with no elements.
LEMMA EmptyRange ==
  ASSUME NEW S, NEW s \in Seq(S)
  PROVE  Range(s) = {} <=> s = <<>>
PROOF
<1>1. s # <<>> => s[1] \in Range(s)
  BY DEF Range
<1>2. Range(<<>>) = {}
  BY DEF Range
<1> QED
  BY <1>1, <1>2

\* The greatest element of a set of numbers up to m + 1, as the folds of the
\* community modules take it.
LEMMA TopOfSet ==
  ASSUME NEW m \in Nat, NEW t \in SUBSET (1..(m + 1))
  PROVE  /\ m + 1 \in t => Max(t) = m + 1 /\ t \ {m + 1} \in SUBSET (1..m)
         /\ m + 1 \notin t => t \in SUBSET (1..m)
PROOF
<1>1. ASSUME m + 1 \in t PROVE Max(t) = m + 1
  <2>1. \A y \in t : m + 1 >= y
    OBVIOUS
  <2>2. \A x \in t : (\A y \in t : x >= y) => x = m + 1
    BY <1>1
  <2> QED
    BY <1>1, <2>1, <2>2 DEF Max
<1> QED
  BY <1>1
===============================================================================
