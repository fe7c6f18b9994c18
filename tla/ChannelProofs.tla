---------------------------- MODULE ChannelProofs ----------------------------
(***************************************************************************)
(* Proofs about the messages between clients and backend, for any strings, *)
(* numbers, lengths and pieces: what is decoded is what was encoded, and   *)
(* the framing keeps one message apart from the next.                      *)
(***************************************************************************)
EXTENDS MsgChannel, SequenceLemmas, SequenceTheorems

------------------------------------------------------------------------------
(* The cells on the wire. *)

Types ==
  {"commit", "validate", "change", "save", "load", "copy", "rm", "initdb", "lock", "unlock", "kill", "debug", "call",
   "subscription", "notify", "err", "ok", "odd", "none"}
Headers == [len : Nat, type : Types, cut : BOOLEAN]
WireCells == ({"num"} \X (Flags \cup Nat)) \cup ({"chr"} \X STRING) \cup {Nul} \cup ({"hdr"} \X Headers)
Strings == Seq(STRING)

LEMMA NumCells ==
  ASSUME NEW n \in Flags \cup Nat
  PROVE  Num(n) \in Seq(WireCells) /\ Len(Num(n)) = 1 /\ Num(n)[1][2] = n
PROOF
<1>1. PICK c : c = <<"num", n>>
  OBVIOUS
<1>2. c \in WireCells /\ c[2] = n
  BY <1>1 DEF WireCells
<1>3. Num(n) = <<c>>
  BY <1>1 DEF Num
<1> QED
  BY <1>2, <1>3

LEMMA CharsCells ==
  ASSUME NEW s \in Strings
  PROVE  /\ Chars(s) \in Seq(WireCells) /\ Len(Chars(s)) = Len(s)
         /\ \A i \in 1..Len(s) : Chars(s)[i] = <<"chr", s[i]>>
PROOF
<1>1. DOMAIN s = 1..Len(s) /\ Len(s) \in Nat /\ \A i \in 1..Len(s) : s[i] \in STRING
  BY DEF Strings
<1>2. \A i \in 1..Len(s) : <<"chr", s[i]>> \in WireCells
  BY <1>1 DEF WireCells
<1>3. Chars(s) \in [1..Len(s) -> WireCells]
  BY <1>1, <1>2 DEF Chars
<1>4. Chars(s) \in Seq(WireCells) /\ Len(Chars(s)) = Len(s)
  BY <1>1, <1>3
<1> QED
  BY <1>1, <1>4 DEF Chars

LEMMA StrCells ==
  ASSUME NEW s \in Strings
  PROVE  /\ Str(s) \in Seq(WireCells) /\ Len(Str(s)) = Len(s) + 1 /\ Len(s) \in Nat
         /\ \A i \in 1..Len(s) : Str(s)[i] = <<"chr", s[i]>>
         /\ Str(s)[Len(s) + 1] = Nul
PROOF
<1>1. PICK c : c = Chars(s)
  OBVIOUS
<1>2. /\ c \in Seq(WireCells) /\ Len(c) = Len(s)
      /\ \A i \in 1..Len(s) : c[i] = <<"chr", s[i]>>
  BY <1>1, CharsCells
<1>3. Nul \in WireCells /\ Len(s) \in Nat
  BY DEF WireCells, Strings
<1>4. Str(s) = Append(c, Nul)
  BY <1>1 DEF Str
<1> QED
  BY <1>2, <1>3, <1>4

LEMMA JoinCells ==
  ASSUME NEW x \in Seq(WireCells), NEW y \in Seq(WireCells)
  PROVE  /\ x \o y \in Seq(WireCells) /\ Len(x \o y) = Len(x) + Len(y) /\ Len(x) \in Nat /\ Len(y) \in Nat
         /\ \A i \in 1..Len(x) : (x \o y)[i] = x[i]
         /\ \A i \in 1..Len(y) : (x \o y)[Len(x) + i] = y[i]
PROOF
  OBVIOUS

------------------------------------------------------------------------------
(***************************************************************************)
(* Reading.  At(b, p, t): the cells t lie in the body b from p on.         *)
(***************************************************************************)
At(b, p, t) ==
  /\ b \in Seq(WireCells) /\ t \in Seq(WireCells) /\ p \in Nat \ {0}
  /\ p + Len(t) <= Len(b) + 1
  /\ \A i \in 1..Len(t) : b[p + i - 1] = t[i]

LEMMA AtStart ==
  ASSUME NEW b \in Seq(WireCells)
  PROVE  At(b, 1, b)
PROOF
<1>1. Len(b) \in Nat /\ \A i \in 1..Len(b) : 1 + i - 1 = i
  OBVIOUS
<1> QED
  BY <1>1 DEF At

LEMMA AtJoin ==
  ASSUME NEW b, NEW p, NEW x \in Seq(WireCells), NEW y \in Seq(WireCells), At(b, p, x \o y)
  PROVE  At(b, p, x) /\ At(b, p + Len(x), y)
PROOF
<1>1. PICK u : u = x \o y
  OBVIOUS
<1>2. /\ u \in Seq(WireCells) /\ Len(u) = Len(x) + Len(y) /\ Len(x) \in Nat /\ Len(y) \in Nat
      /\ \A i \in 1..Len(x) : u[i] = x[i]
      /\ \A i \in 1..Len(y) : u[Len(x) + i] = y[i]
  BY <1>1, JoinCells
<1>3. /\ b \in Seq(WireCells) /\ p \in Nat \ {0} /\ p + Len(u) <= Len(b) + 1 /\ Len(b) \in Nat
      /\ \A i \in 1..Len(u) : b[p + i - 1] = u[i]
  BY <1>1 DEF At
<1>4. \A i \in 1..Len(x) : b[p + i - 1] = x[i]
  <2>1. \A i \in 1..Len(x) : i \in 1..Len(u)
    BY <1>2
  <2> QED
    BY <1>2, <1>3, <2>1
<1>5. \A i \in 1..Len(y) : b[p + Len(x) + i - 1] = y[i]
  <2>1. \A i \in 1..Len(y) : Len(x) + i \in 1..Len(u) /\ p + (Len(x) + i) - 1 = p + Len(x) + i - 1
    BY <1>2, <1>3
  <2> QED
    BY <1>2, <1>3, <2>1
<1>6. p + Len(x) \in Nat \ {0} /\ p + Len(x) <= Len(b) + 1 /\ p + Len(x) + Len(y) <= Len(b) + 1
  BY <1>2, <1>3
<1> QED
  BY <1>3, <1>4, <1>5, <1>6 DEF At

LEMMA LenModFacts ==
  ASSUME NEW n \in Nat
  PROVE  n % LenMod \in Nat /\ n % LenMod <= n /\ (n < LenMod => n % LenMod = n)
PROOF
<1>1. LenMod \in Nat /\ LenMod > 0
  BY ChannelAssumption
<1>2. n % LenMod \in 0..(LenMod - 1)
  BY <1>1
<1>3. n < LenMod => n % LenMod = n
  BY <1>1
<1> QED
  BY <1>1, <1>2, <1>3

LEMMA AtWithin ==
  ASSUME NEW b, NEW u, NEW p, NEW x, At(b, 1, u), At(u, p, x)
  PROVE  At(b, p, x)
PROOF
<1>1. /\ Len(u) \in Nat /\ Len(x) \in Nat /\ Len(b) \in Nat /\ p \in Nat \ {0}
      /\ 1 + Len(u) <= Len(b) + 1 /\ p + Len(x) <= Len(u) + 1
      /\ \A i \in 1..Len(u) : b[1 + i - 1] = u[i]
      /\ \A i \in 1..Len(x) : u[p + i - 1] = x[i]
  BY DEF At
<1>2. \A i \in 1..Len(x) : p + i - 1 \in 1..Len(u) /\ 1 + (p + i - 1) - 1 = p + i - 1
  BY <1>1
<1>3. \A i \in 1..Len(x) : b[p + i - 1] = x[i]
  BY <1>1, <1>2
<1>4. p + Len(x) <= Len(b) + 1
  BY <1>1
<1> QED
  BY <1>1, <1>3, <1>4 DEF At

LEMMA AtNum ==
  ASSUME NEW b, NEW p, NEW n \in Flags \cup Nat, At(b, p, Num(n))
  PROVE  NumAt(b, p) = n
PROOF
<1>1. Len(Num(n)) = 1 /\ Num(n)[1][2] = n
  BY NumCells
<1>2. p \in Nat /\ p + 1 - 1 = p /\ 1 \in 1..1
  BY DEF At
<1>3. b[p] = Num(n)[1]
  BY <1>1, <1>2 DEF At
<1> QED
  BY <1>1, <1>3 DEF NumAt

LEMMA LeastFacts ==
  ASSUME NEW I, NEW e \in Nat, I \subseteq Nat, e \in I, \A i \in I : e <= i
  PROVE  Min(I) = e
PROOF
<1>1. \A z \in I : (\A i \in I : z <= i) => z = e
  OBVIOUS
<1> QED
  BY <1>1 DEF Min

LEMMA AtStr ==
  ASSUME NEW b, NEW p, NEW s \in Strings, At(b, p, Str(s))
  PROVE  EndStr(b, p) = p + Len(s) /\ StrAt(b, p) = s
PROOF
<1>1. PICK t, e : t = Str(s) /\ e = p + Len(s)
  OBVIOUS
<1>2. /\ t \in Seq(WireCells) /\ Len(t) = Len(s) + 1 /\ Len(s) \in Nat
      /\ \A i \in 1..Len(s) : t[i] = <<"chr", s[i]>>
      /\ t[Len(s) + 1] = Nul
  BY <1>1, StrCells
<1>3. /\ b \in Seq(WireCells) /\ Len(b) \in Nat /\ p \in Nat \ {0} /\ p + Len(t) <= Len(b) + 1
      /\ \A i \in 1..Len(t) : b[p + i - 1] = t[i]
  BY <1>1 DEF At
<1>4. e \in Nat /\ e \in p..Len(b)
  BY <1>1, <1>2, <1>3
<1>5. b[e] = Nul
  <2>1. Len(s) + 1 \in 1..Len(t) /\ p + (Len(s) + 1) - 1 = e
    BY <1>1, <1>2, <1>3
  <2> QED
    BY <1>2, <1>3, <2>1
<1>6. \A i \in 1..Len(s) : b[p + i - 1] = <<"chr", s[i]>>
  <2>1. \A i \in 1..Len(s) : i \in 1..Len(t)
    BY <1>2
  <2> QED
    BY <1>2, <1>3, <2>1
<1>7. \A j \in p..Len(b) : j < e => b[j] # Nul
  <2> SUFFICES ASSUME NEW j \in p..Len(b), j < e PROVE b[j] # Nul
    OBVIOUS
  <2>1. j - p + 1 \in 1..Len(s) /\ p + (j - p + 1) - 1 = j
    BY <1>1, <1>2, <1>3
  <2>2. b[j] = <<"chr", s[j - p + 1]>>
    BY <1>6, <2>1
  <2> QED
    BY <2>2 DEF Nul
<1>8. PICK I : I = {i \in p..Len(b) : b[i] = Nul}
  OBVIOUS
<1>9. e \in I
  BY <1>4, <1>5, <1>8
<1>10. I \subseteq Nat /\ \A i \in I : e <= i
  <2>1. \A i \in I : i \in p..Len(b) /\ b[i] = Nul
    BY <1>8
  <2>2. \A i \in I : i \in Nat /\ ~(i < e)
    BY <1>3, <1>7, <2>1
  <2> QED
    BY <1>4, <2>2
<1>11. Min(I) = e
  BY <1>4, <1>9, <1>10, LeastFacts
<1>12. EndStr(b, p) = e
  BY <1>8, <1>9, <1>11 DEF EndStr, SelectInSubSeq
<1>13. StrAt(b, p) = s
  <2>1. EndStr(b, p) - p = Len(s)
    BY <1>1, <1>2, <1>3, <1>12
  <2>2. StrAt(b, p) = [i \in 1..Len(s) |-> b[p + i - 1][2]]
    BY <2>1 DEF StrAt
  <2>3. \A i \in 1..Len(s) : b[p + i - 1][2] = s[i]
    BY <1>6
  <2>4. s = [i \in 1..Len(s) |-> s[i]]
    BY DEF Strings
  <2> QED
    BY <2>2, <2>3, <2>4
<1> QED
  BY <1>1, <1>12, <1>13

LEMMA AtChars ==
  ASSUME NEW b, NEW p, NEW s \in Strings, At(b, p, Chars(s))
  PROVE  CharsAt(b, p, Len(s)) = s
PROOF
<1>1. Len(Chars(s)) = Len(s) /\ \A i \in 1..Len(s) : Chars(s)[i] = <<"chr", s[i]>>
  BY CharsCells
<1>2. \A i \in 1..Len(s) : b[p + i - 1] = <<"chr", s[i]>>
  BY <1>1 DEF At
<1>3. \A i \in 1..Len(s) : b[p + i - 1][2] = s[i]
  BY <1>2
<1>4. s = [i \in 1..Len(s) |-> s[i]]
  BY DEF Strings
<1> QED
  BY <1>3, <1>4 DEF CharsAt
------------------------------------------------------------------------------
(* Bodies of several parts. *)

LEMMA TwoParts ==
  ASSUME NEW x \in Seq(WireCells), NEW y \in Seq(WireCells), NEW b, b = x \o y
  PROVE  /\ b \in Seq(WireCells) /\ Len(b) = Len(x) + Len(y) /\ Len(x) \in Nat /\ Len(y) \in Nat
         /\ At(b, 1, x) /\ At(b, 1 + Len(x), y)
PROOF
<1>1. b \in Seq(WireCells) /\ Len(b) = Len(x) + Len(y) /\ Len(x) \in Nat /\ Len(y) \in Nat
  BY JoinCells
<1>2. At(b, 1, x \o y)
  BY <1>1, AtStart
<1> QED
  BY <1>1, <1>2, AtJoin

LEMMA ThreeParts ==
  ASSUME NEW x \in Seq(WireCells), NEW y \in Seq(WireCells), NEW z \in Seq(WireCells), NEW b, b = x \o y \o z
  PROVE  /\ b \in Seq(WireCells) /\ Len(b) = Len(x) + Len(y) + Len(z)
         /\ At(b, 1, x) /\ At(b, 1 + Len(x), y) /\ At(b, 1 + Len(x) + Len(y), z)
PROOF
<1>1. PICK u : u = x \o y
  OBVIOUS
<1>2. u \in Seq(WireCells) /\ Len(u) = Len(x) + Len(y) /\ Len(x) \in Nat /\ Len(y) \in Nat
  BY <1>1, JoinCells
<1>3. b \in Seq(WireCells) /\ Len(b) = Len(u) + Len(z) /\ At(b, 1, u) /\ At(b, 1 + Len(u), z)
  BY <1>1, <1>2, TwoParts
<1>4. At(b, 1, x) /\ At(b, 1 + Len(x), y)
  BY <1>1, <1>3, AtJoin
<1>5. 1 + Len(u) = 1 + Len(x) + Len(y)
  BY <1>2
<1> QED
  BY <1>2, <1>3, <1>4, <1>5

LEMMA FourParts ==
  ASSUME NEW x \in Seq(WireCells), NEW y \in Seq(WireCells), NEW z \in Seq(WireCells), NEW w \in Seq(WireCells)
  PROVE  LET b == x \o y \o z \o w
         IN /\ b \in Seq(WireCells) /\ Len(b) = Len(x) + Len(y) + Len(z) + Len(w)
            /\ At(b, 1, x) /\ At(b, 1 + Len(x), y) /\ At(b, 1 + Len(x) + Len(y), z)
            /\ At(b, 1 + Len(x) + Len(y) + Len(z), w)
PROOF
<1> DEFINE b == x \o y \o z \o w
<1>1. PICK u : u = x \o y
  OBVIOUS
<1>2. u \in Seq(WireCells) /\ Len(u) = Len(x) + Len(y) /\ Len(x) \in Nat /\ Len(y) \in Nat /\ Len(z) \in Nat
  BY <1>1, JoinCells
<1>3. /\ b \in Seq(WireCells) /\ Len(b) = Len(u) + Len(z) + Len(w)
      /\ At(b, 1, u) /\ At(b, 1 + Len(u), z) /\ At(b, 1 + Len(u) + Len(z), w)
  <2>1. b = u \o z \o w
    BY <1>1
  <2> QED
    BY <1>2, <2>1, ThreeParts
<1>4. At(b, 1, x) /\ At(b, 1 + Len(x), y)
  BY <1>1, <1>3, AtJoin
<1>5. 1 + Len(u) = 1 + Len(x) + Len(y) /\ 1 + Len(u) + Len(z) = 1 + Len(x) + Len(y) + Len(z)
  BY <1>2
<1> QED
  BY <1>2, <1>3, <1>4, <1>5

------------------------------------------------------------------------------
(***************************************************************************)
(* Every encoder and its decoder.  Sound(m): the body of m is a sequence   *)
(* of cells, and what is decoded from it is m, unless it is so long that   *)
(* its length wraps around.                                                *)
(***************************************************************************)
Sound(m) ==
  /\ Encode(m) \in Seq(WireCells)
  /\ Whole(m) < LenMod => Decode(m.type, Encode(m)) = m

LEMMA NamesAreStrings == Names \subseteq Strings /\ Blobs \subseteq Strings
PROOF
  BY ChannelAssumption DEF Strings

LEMMA OneStrSound ==
  ASSUME NEW type \in {"validate", "initdb", "rm", "lock", "unlock"}, NEW f \in Names
  PROVE  Sound([type |-> type, args |-> <<f>>])
PROOF
<1>1. PICK m, b : m = [type |-> type, args |-> <<f>>] /\ b = Str(f)
  OBVIOUS
<1>2. f \in Strings
  BY NamesAreStrings
<1>3. b \in Seq(WireCells)
  BY <1>1, <1>2, StrCells
<1>4. Encode(m) = b
  BY <1>1 DEF Encode, ValidateEncode, InitdbEncode, RmEncode, LockEncode, UnlockEncode, OneStrEncode
<1>5. StrAt(b, 1) = f
  BY <1>1, <1>2, <1>3, AtStart, AtStr
<1>6. Decode(type, b) = [type |-> type, args |-> <<StrAt(b, 1)>>]
  BY DEF Decode, ValidateDecode, InitdbDecode, RmDecode, LockDecode, UnlockDecode, OneStrDecode
<1> QED
  BY <1>1, <1>3, <1>4, <1>5, <1>6 DEF Sound

LEMMA OneNumSound ==
  ASSUME NEW type \in {"kill", "debug"}, NEW n \in Flags
  PROVE  Sound([type |-> type, args |-> <<n>>])
PROOF
<1>1. PICK m, b : m = [type |-> type, args |-> <<n>>] /\ b = Num(n)
  OBVIOUS
<1>2. b \in Seq(WireCells)
  BY <1>1, NumCells
<1>3. Encode(m) = b
  BY <1>1 DEF Encode, KillEncode, DebugEncode
<1>4. NumAt(b, 1) = n
  BY <1>1, <1>2, AtStart, AtNum
<1>5. Decode(type, b) = [type |-> type, args |-> <<NumAt(b, 1)>>]
  BY DEF Decode, KillDecode, DebugDecode
<1> QED
  BY <1>1, <1>2, <1>3, <1>4, <1>5 DEF Sound

LEMMA CopySound ==
  ASSUME NEW f \in Names, NEW g \in Names
  PROVE  Sound([type |-> "copy", args |-> <<f, g>>])
PROOF
<1>1. PICK m, b : m = [type |-> "copy", args |-> <<f, g>>] /\ b = Str(f) \o Str(g)
  OBVIOUS
<1>2. f \in Strings /\ g \in Strings
  BY NamesAreStrings
<1>3. Str(f) \in Seq(WireCells) /\ Len(Str(f)) = Len(f) + 1 /\ Len(f) \in Nat /\ Str(g) \in Seq(WireCells)
  BY <1>2, StrCells
<1>4. b \in Seq(WireCells) /\ At(b, 1, Str(f)) /\ At(b, 1 + Len(Str(f)), Str(g))
  BY <1>1, <1>3, TwoParts
<1>5. EndStr(b, 1) = 1 + Len(f) /\ StrAt(b, 1) = f
  BY <1>2, <1>4, AtStr
<1>6. 1 + Len(Str(f)) = EndStr(b, 1) + 1
  BY <1>3, <1>5
<1>7. StrAt(b, EndStr(b, 1) + 1) = g
  BY <1>2, <1>4, <1>6, AtStr
<1>8. Encode(m) = b
  BY <1>1 DEF Encode, CopyEncode
<1>9. Decode("copy", b) = [type |-> "copy", args |-> <<StrAt(b, 1), StrAt(b, EndStr(b, 1) + 1)>>]
  BY DEF Decode, CopyDecode
<1> QED
  BY <1>1, <1>4, <1>5, <1>7, <1>8, <1>9 DEF Sound

\* A number and a string, as in a notification or a save to a snapshot.
LEMMA NumStr ==
  ASSUME NEW n \in Flags, NEW f \in Names
  PROVE  LET b == Num(n) \o Str(f)
         IN b \in Seq(WireCells) /\ NumAt(b, 1) = n /\ StrAt(b, 2) = f
PROOF
<1> DEFINE b == Num(n) \o Str(f)
<1>1. f \in Strings
  BY NamesAreStrings
<1>2. Num(n) \in Seq(WireCells) /\ Len(Num(n)) = 1 /\ Str(f) \in Seq(WireCells)
  BY <1>1, NumCells, StrCells
<1>3. b \in Seq(WireCells) /\ At(b, 1, Num(n)) /\ At(b, 1 + Len(Num(n)), Str(f))
  BY <1>2, TwoParts
<1>4. At(b, 2, Str(f))
  BY <1>2, <1>3
<1> QED
  BY <1>1, <1>3, <1>4, AtNum, AtStr

\* A number and two strings, as in a load or a save to a file.
LEMMA NumStrStr ==
  ASSUME NEW n \in Flags, NEW f \in Names, NEW g \in Names
  PROVE  LET b == Num(n) \o Str(f) \o Str(g)
         IN b \in Seq(WireCells) /\ NumAt(b, 1) = n /\ StrAt(b, 2) = f /\ StrAt(b, EndStr(b, 2) + 1) = g
PROOF
<1> DEFINE b == Num(n) \o Str(f) \o Str(g)
<1>1. f \in Strings /\ g \in Strings
  BY NamesAreStrings
<1>2. /\ Num(n) \in Seq(WireCells) /\ Len(Num(n)) = 1
      /\ Str(f) \in Seq(WireCells) /\ Len(Str(f)) = Len(f) + 1 /\ Len(f) \in Nat /\ Str(g) \in Seq(WireCells)
  BY <1>1, NumCells, StrCells
<1>3. /\ b \in Seq(WireCells) /\ At(b, 1, Num(n)) /\ At(b, 1 + Len(Num(n)), Str(f))
      /\ At(b, 1 + Len(Num(n)) + Len(Str(f)), Str(g))
  BY <1>2, ThreeParts
<1>4. At(b, 2, Str(f))
  BY <1>2, <1>3
<1>5. EndStr(b, 2) = 2 + Len(f) /\ StrAt(b, 2) = f
  BY <1>1, <1>4, AtStr
<1>6. 1 + Len(Num(n)) + Len(Str(f)) = EndStr(b, 2) + 1
  BY <1>2, <1>5
<1>7. At(b, EndStr(b, 2) + 1, Str(g))
  BY <1>3, <1>6
<1> QED
  BY <1>1, <1>3, <1>5, <1>7, AtNum, AtStr

\* Two numbers and a string, as in an error; with another string, as in a
\* commit or a subscription.
LEMMA NumNumStr ==
  ASSUME NEW n \in Flags, NEW k \in Flags, NEW f \in Names
  PROVE  LET b == Num(n) \o Num(k) \o Str(f)
         IN b \in Seq(WireCells) /\ NumAt(b, 1) = n /\ NumAt(b, 2) = k /\ StrAt(b, 3) = f
PROOF
<1> DEFINE b == Num(n) \o Num(k) \o Str(f)
<1>1. f \in Strings
  BY NamesAreStrings
<1>2. /\ Num(n) \in Seq(WireCells) /\ Len(Num(n)) = 1 /\ Num(k) \in Seq(WireCells) /\ Len(Num(k)) = 1
      /\ Str(f) \in Seq(WireCells)
  BY <1>1, NumCells, StrCells
<1>3. /\ b \in Seq(WireCells) /\ At(b, 1, Num(n)) /\ At(b, 1 + Len(Num(n)), Num(k))
      /\ At(b, 1 + Len(Num(n)) + Len(Num(k)), Str(f))
  <2>1. PICK x, y, z : x = Num(n) /\ y = Num(k) /\ z = Str(f)
    OBVIOUS
  <2>2. x \in Seq(WireCells) /\ y \in Seq(WireCells) /\ z \in Seq(WireCells)
    BY <1>2, <2>1
  <2>3. /\ x \o y \o z \in Seq(WireCells)
        /\ At(x \o y \o z, 1, x) /\ At(x \o y \o z, 1 + Len(x), y) /\ At(x \o y \o z, 1 + Len(x) + Len(y), z)
    BY <2>2, ThreeParts
  <2>4. b = x \o y \o z
    BY <2>1
  <2> QED
    BY <2>1, <2>3, <2>4
<1>4. At(b, 2, Num(k)) /\ At(b, 3, Str(f))
  BY <1>2, <1>3
<1> QED
  BY <1>1, <1>3, <1>4, AtNum, AtStr

LEMMA NumNumStrStr ==
  ASSUME NEW n \in Flags, NEW k \in Flags, NEW f \in Names, NEW g \in Names
  PROVE  LET b == Num(n) \o Num(k) \o Str(f) \o Str(g)
         IN /\ b \in Seq(WireCells) /\ NumAt(b, 1) = n /\ NumAt(b, 2) = k /\ StrAt(b, 3) = f
            /\ StrAt(b, EndStr(b, 3) + 1) = g
PROOF
<1> DEFINE b == Num(n) \o Num(k) \o Str(f) \o Str(g)
<1>1. f \in Strings /\ g \in Strings
  BY NamesAreStrings
<1>2. /\ Num(n) \in Seq(WireCells) /\ Len(Num(n)) = 1 /\ Num(k) \in Seq(WireCells) /\ Len(Num(k)) = 1
      /\ Str(f) \in Seq(WireCells) /\ Len(Str(f)) = Len(f) + 1 /\ Len(f) \in Nat /\ Str(g) \in Seq(WireCells)
  BY <1>1, NumCells, StrCells
<1>3. /\ b \in Seq(WireCells) /\ At(b, 1, Num(n)) /\ At(b, 1 + Len(Num(n)), Num(k))
      /\ At(b, 1 + Len(Num(n)) + Len(Num(k)), Str(f))
      /\ At(b, 1 + Len(Num(n)) + Len(Num(k)) + Len(Str(f)), Str(g))
  <2>1. PICK x, y, z, w : x = Num(n) /\ y = Num(k) /\ z = Str(f) /\ w = Str(g)
    OBVIOUS
  <2>2. b = x \o y \o z \o w
    BY <2>1
  <2>3. x \in Seq(WireCells) /\ y \in Seq(WireCells) /\ z \in Seq(WireCells) /\ w \in Seq(WireCells)
    BY <1>2, <2>1
  <2>4. /\ b \in Seq(WireCells)
        /\ At(b, 1, x) /\ At(b, 1 + Len(x), y) /\ At(b, 1 + Len(x) + Len(y), z)
        /\ At(b, 1 + Len(x) + Len(y) + Len(z), w)
    BY <2>2, <2>3, FourParts
  <2> QED
    BY <2>1, <2>4
<1>4. At(b, 2, Num(k)) /\ At(b, 3, Str(f))
  BY <1>2, <1>3
<1>5. EndStr(b, 3) = 3 + Len(f) /\ StrAt(b, 3) = f
  BY <1>1, <1>4, AtStr
<1>6. 1 + Len(Num(n)) + Len(Num(k)) + Len(Str(f)) = EndStr(b, 3) + 1
  BY <1>2, <1>5
<1>7. At(b, EndStr(b, 3) + 1, Str(g))
  BY <1>3, <1>6
<1> QED
  BY <1>1, <1>3, <1>4, <1>5, <1>7, AtNum, AtStr
LEMMA NumSound ==
  /\ \A snap, start \in Flags : \A f, g \in Names : Sound([type |-> "commit", args |-> <<snap, start, f, g>>])
  /\ \A err, suberr \in Flags : \A f \in Names : Sound([type |-> "err", args |-> <<err, suberr, f>>])
  /\ \A status, format \in Flags : \A stream, filter \in Names :
       Sound([type |-> "subscription", args |-> <<status, stream, format, filter>>])
  /\ \A replace \in Flags : \A db, f \in Names : Sound([type |-> "load", args |-> <<replace, db, f>>])
  /\ \A level \in Flags : \A event \in Names : Sound([type |-> "notify", args |-> <<level, event>>])
PROOF
<1>1. ASSUME NEW snap \in Flags, NEW start \in Flags, NEW f \in Names, NEW g \in Names
      PROVE  Sound([type |-> "commit", args |-> <<snap, start, f, g>>])
  <2>1. PICK m, b : m = [type |-> "commit", args |-> <<snap, start, f, g>>] /\ b = Num(snap) \o Num(start) \o Str(f) \o Str(g)
    OBVIOUS
  <2>2. b = Num(snap) \o Num(start) \o Str(f) \o Str(g)
    BY <2>1
  <2>3. /\ b \in Seq(WireCells) /\ NumAt(b, 1) = snap /\ NumAt(b, 2) = start /\ StrAt(b, 3) = f
        /\ StrAt(b, EndStr(b, 3) + 1) = g
    BY <2>2, NumNumStrStr
  <2>4. Encode(m) = b
    BY <2>1 DEF Encode, CommitEncode
  <2>5. Decode("commit", b) = [type |-> "commit",
          args |-> <<NumAt(b, 1), NumAt(b, 2), StrAt(b, 3), StrAt(b, EndStr(b, 3) + 1)>>]
    BY DEF Decode, CommitDecode
  <2> QED
    BY <2>1, <2>3, <2>4, <2>5 DEF Sound
<1>2. ASSUME NEW err \in Flags, NEW suberr \in Flags, NEW f \in Names
      PROVE  Sound([type |-> "err", args |-> <<err, suberr, f>>])
  <2>1. PICK m, b : m = [type |-> "err", args |-> <<err, suberr, f>>] /\ b = Num(err) \o Num(suberr) \o Str(f)
    OBVIOUS
  <2>2. b = Num(err) \o Num(suberr) \o Str(f)
    BY <2>1
  <2>3. b \in Seq(WireCells) /\ NumAt(b, 1) = err /\ NumAt(b, 2) = suberr /\ StrAt(b, 3) = f
    BY <2>2, NumNumStr
  <2>4. Encode(m) = b
    BY <2>1 DEF Encode, ErrEncode
  <2>5. Decode("err", b) = [type |-> "err", args |-> <<NumAt(b, 1), NumAt(b, 2), StrAt(b, 3)>>]
    BY DEF Decode, ErrDecode
  <2> QED
    BY <2>1, <2>3, <2>4, <2>5 DEF Sound
<1>3. ASSUME NEW status \in Flags, NEW format \in Flags, NEW stream \in Names, NEW filter \in Names
      PROVE  Sound([type |-> "subscription", args |-> <<status, stream, format, filter>>])
  <2>1. PICK m, b : /\ m = [type |-> "subscription", args |-> <<status, stream, format, filter>>]
                    /\ b = Num(status) \o Num(format) \o Str(stream) \o Str(filter)
    OBVIOUS
  <2>2. b = Num(status) \o Num(format) \o Str(stream) \o Str(filter)
    BY <2>1
  <2>3. /\ b \in Seq(WireCells) /\ NumAt(b, 1) = status /\ NumAt(b, 2) = format /\ StrAt(b, 3) = stream
        /\ StrAt(b, EndStr(b, 3) + 1) = filter
    BY <2>2, NumNumStrStr
  <2>4. Encode(m) = b
    BY <2>1 DEF Encode, SubscriptionEncode
  <2>5. Decode("subscription", b) = [type |-> "subscription",
          args |-> <<NumAt(b, 1), StrAt(b, 3), NumAt(b, 2), StrAt(b, EndStr(b, 3) + 1)>>]
    BY DEF Decode, SubscriptionDecode
  <2> QED
    BY <2>1, <2>3, <2>4, <2>5 DEF Sound
<1>4. ASSUME NEW replace \in Flags, NEW db \in Names, NEW f \in Names
      PROVE  Sound([type |-> "load", args |-> <<replace, db, f>>])
  <2>1. PICK m, b : m = [type |-> "load", args |-> <<replace, db, f>>] /\ b = Num(replace) \o Str(db) \o Str(f)
    OBVIOUS
  <2>2. b = Num(replace) \o Str(db) \o Str(f)
    BY <2>1
  <2>3. b \in Seq(WireCells) /\ NumAt(b, 1) = replace /\ StrAt(b, 2) = db /\ StrAt(b, EndStr(b, 2) + 1) = f
    BY <2>2, NumStrStr
  <2>4. Encode(m) = b
    BY <2>1 DEF Encode, LoadEncode
  <2>5. Decode("load", b) = [type |-> "load", args |-> <<NumAt(b, 1), StrAt(b, 2), StrAt(b, EndStr(b, 2) + 1)>>]
    BY DEF Decode, LoadDecode
  <2> QED
    BY <2>1, <2>3, <2>4, <2>5 DEF Sound
<1>5. ASSUME NEW level \in Flags, NEW event \in Names
      PROVE  Sound([type |-> "notify", args |-> <<level, event>>])
  <2>1. PICK m, b : m = [type |-> "notify", args |-> <<level, event>>] /\ b = Num(level) \o Str(event)
    OBVIOUS
  <2>2. b = Num(level) \o Str(event)
    BY <2>1
  <2>3. b \in Seq(WireCells) /\ NumAt(b, 1) = level /\ StrAt(b, 2) = event
    BY <2>2, NumStr
  <2>4. Encode(m) = b
    BY <2>1 DEF Encode, NotifyEncode
  <2>5. Decode("notify", b) = [type |-> "notify", args |-> <<NumAt(b, 1), StrAt(b, 2)>>]
    BY DEF Decode, NotifyDecode
  <2> QED
    BY <2>1, <2>3, <2>4, <2>5 DEF Sound
<1> QED
  BY <1>1, <1>2, <1>3, <1>4, <1>5
\* Two strings and a vector whose length is known, as at the end of a change
\* or a call.
LEMMA AtTexts ==
  ASSUME NEW b, NEW p \in Nat, NEW f \in Strings, NEW g \in Strings, NEW s \in Strings,
         At(b, p, Str(f)), At(b, p + Len(f) + 1, Str(g)), At(b, p + Len(f) + Len(g) + 2, Chars(s))
  PROVE  /\ StrAt(b, p) = f /\ StrAt(b, EndStr(b, p) + 1) = g
         /\ CharsAt(b, EndStr(b, EndStr(b, p) + 1) + 1, Len(s)) = s
PROOF
<1>1. Len(f) \in Nat /\ Len(g) \in Nat
  BY DEF Strings
<1>2. EndStr(b, p) = p + Len(f) /\ StrAt(b, p) = f
  BY AtStr
<1>3. PICK key : key = EndStr(b, p) + 1
  OBVIOUS
<1>4. key \in Nat /\ key = p + Len(f) + 1
  BY <1>1, <1>2, <1>3
<1>5. EndStr(b, key) = key + Len(g) /\ StrAt(b, key) = g
  BY <1>4, AtStr
<1>6. EndStr(b, key) + 1 = p + Len(f) + Len(g) + 2
  BY <1>1, <1>4, <1>5
<1>7. CharsAt(b, EndStr(b, key) + 1, Len(s)) = s
  BY <1>6, AtChars
<1> QED
  BY <1>2, <1>3, <1>5, <1>7

LEMMA ChangeSound ==
  ASSUME NEW op \in Flags, NEW db \in Names, NEW key \in Names, NEW lvec \in Blobs
  PROVE  Sound([type |-> "change", args |-> <<op, db, key, lvec>>])
PROOF
<1>1. PICK m, b, u : /\ m = [type |-> "change", args |-> <<op, db, key, lvec>>]
                     /\ u = Num(op) \o Num(Len(lvec)) \o Str(db) \o Str(key)
                     /\ b = u \o Chars(lvec)
  OBVIOUS
<1>2. db \in Strings /\ key \in Strings /\ lvec \in Strings /\ Len(lvec) \in Nat
  BY NamesAreStrings DEF Strings
<1>3. /\ Num(op) \in Seq(WireCells) /\ Len(Num(op)) = 1
      /\ Num(Len(lvec)) \in Seq(WireCells) /\ Len(Num(Len(lvec))) = 1
  BY <1>2, NumCells
<1>4. /\ Str(db) \in Seq(WireCells) /\ Len(Str(db)) = Len(db) + 1 /\ Len(db) \in Nat
      /\ Str(key) \in Seq(WireCells) /\ Len(Str(key)) = Len(key) + 1 /\ Len(key) \in Nat
      /\ Chars(lvec) \in Seq(WireCells)
  BY <1>2, StrCells, CharsCells
<1>5. PICK x, y, z, w : x = Num(op) /\ y = Num(Len(lvec)) /\ z = Str(db) /\ w = Str(key)
  OBVIOUS
<1>6. x \in Seq(WireCells) /\ y \in Seq(WireCells) /\ z \in Seq(WireCells) /\ w \in Seq(WireCells)
  BY <1>3, <1>4, <1>5
<1>7. u = x \o y \o z \o w
  BY <1>1, <1>5
<1>8. /\ u \in Seq(WireCells) /\ Len(u) = Len(x) + Len(y) + Len(z) + Len(w)
      /\ At(u, 1, x) /\ At(u, 1 + Len(x), y) /\ At(u, 1 + Len(x) + Len(y), z)
      /\ At(u, 1 + Len(x) + Len(y) + Len(z), w)
  BY <1>6, <1>7, FourParts
<1>9. b \in Seq(WireCells) /\ At(b, 1, u) /\ At(b, 1 + Len(u), Chars(lvec))
  BY <1>1, <1>4, <1>8, TwoParts
<1>10. At(b, 1, x) /\ At(b, 2, y) /\ At(b, 3, z) /\ At(b, 3 + Len(db) + 1, w)
  <2>1. Len(x) = 1 /\ Len(y) = 1 /\ Len(z) = Len(db) + 1
    BY <1>3, <1>4, <1>5
  <2>2. At(u, 1, x) /\ At(u, 2, y) /\ At(u, 3, z) /\ At(u, 3 + Len(db) + 1, w)
    <3>1. 1 + Len(x) = 2 /\ 1 + Len(x) + Len(y) = 3 /\ 1 + Len(x) + Len(y) + Len(z) = 3 + Len(db) + 1
      BY <1>4, <2>1
    <3> QED
      BY <1>8, <3>1
  <2> QED
    BY <1>9, <2>2, AtWithin
<1>11. 1 + Len(u) = 3 + Len(db) + Len(key) + 2
  BY <1>3, <1>4, <1>5, <1>8
<1>12. At(b, 3, Str(db)) /\ At(b, 3 + Len(db) + 1, Str(key)) /\ At(b, 3 + Len(db) + Len(key) + 2, Chars(lvec))
  BY <1>5, <1>9, <1>10, <1>11
<1>13. NumAt(b, 1) = op /\ NumAt(b, 2) = Len(lvec)
  BY <1>2, <1>5, <1>10, AtNum
<1>14. /\ StrAt(b, 3) = db /\ StrAt(b, EndStr(b, 3) + 1) = key
       /\ CharsAt(b, EndStr(b, EndStr(b, 3) + 1) + 1, Len(lvec)) = lvec
  BY <1>2, <1>12, AtTexts
<1>15. Encode(m) = b
  BY <1>1 DEF Encode, ChangeEncode
<1>16. Decode("change", b) = [type |-> "change",
         args |-> <<NumAt(b, 1), StrAt(b, 3), StrAt(b, EndStr(b, 3) + 1),
                    CharsAt(b, EndStr(b, EndStr(b, 3) + 1) + 1, NumAt(b, 2))>>]
  BY DEF Decode, ChangeDecode
<1> QED
  BY <1>1, <1>9, <1>13, <1>14, <1>15, <1>16 DEF Sound

LEMMA CallSound ==
  ASSUME NEW op \in Flags, NEW plugin \in Names, NEW func \in Names, NEW arg \in Blobs
  PROVE  Sound([type |-> "call", args |-> <<op, plugin, func, arg>>])
PROOF
<1>1. PICK m, b, data, rest : /\ m = [type |-> "call", args |-> <<op, plugin, func, arg>>]
                              /\ data = Str(plugin) \o Str(func) \o Chars(arg)
                              /\ rest = (3 + Len(data)) % LenMod
                              /\ b = Num(rest) \o Num(op) \o Num(Len(arg)) \o data
  OBVIOUS
<1>2. plugin \in Strings /\ func \in Strings /\ arg \in Strings /\ Len(arg) \in Nat
  BY NamesAreStrings DEF Strings
<1>3. /\ Str(plugin) \in Seq(WireCells) /\ Len(Str(plugin)) = Len(plugin) + 1 /\ Len(plugin) \in Nat
      /\ Str(func) \in Seq(WireCells) /\ Len(Str(func)) = Len(func) + 1 /\ Len(func) \in Nat
      /\ Chars(arg) \in Seq(WireCells)
  BY <1>2, StrCells, CharsCells
<1>4. /\ data \in Seq(WireCells) /\ Len(data) \in Nat
      /\ At(data, 1, Str(plugin)) /\ At(data, 1 + Len(Str(plugin)), Str(func))
      /\ At(data, 1 + Len(Str(plugin)) + Len(Str(func)), Chars(arg))
  <2>1. PICK x, y, z : x = Str(plugin) /\ y = Str(func) /\ z = Chars(arg)
    OBVIOUS
  <2>2. data = x \o y \o z
    BY <1>1, <2>1
  <2>3. x \in Seq(WireCells) /\ y \in Seq(WireCells) /\ z \in Seq(WireCells)
    BY <1>3, <2>1
  <2>4. data \in Seq(WireCells) /\ At(data, 1, x) /\ At(data, 1 + Len(x), y) /\ At(data, 1 + Len(x) + Len(y), z)
    BY <2>2, <2>3, ThreeParts
  <2>5. Len(data) \in Nat
    BY <2>4
  <2> QED
    BY <2>1, <2>4, <2>5
<1>5. rest \in Nat /\ (3 + Len(data) < LenMod => rest = 3 + Len(data))
  BY <1>1, <1>4, LenModFacts
<1>6. /\ Num(rest) \in Seq(WireCells) /\ Len(Num(rest)) = 1 /\ Num(op) \in Seq(WireCells) /\ Len(Num(op)) = 1
      /\ Num(Len(arg)) \in Seq(WireCells) /\ Len(Num(Len(arg))) = 1
  BY <1>2, <1>5, NumCells
<1>7. PICK x, y, z : x = Num(rest) /\ y = Num(op) /\ z = Num(Len(arg))
  OBVIOUS
<1>8. x \in Seq(WireCells) /\ y \in Seq(WireCells) /\ z \in Seq(WireCells)
  BY <1>6, <1>7
<1>9. b = x \o y \o z \o data
  BY <1>1, <1>7
<1>10. /\ b \in Seq(WireCells) /\ Len(b) = Len(x) + Len(y) + Len(z) + Len(data)
       /\ At(b, 1, x) /\ At(b, 1 + Len(x), y) /\ At(b, 1 + Len(x) + Len(y), z)
       /\ At(b, 1 + Len(x) + Len(y) + Len(z), data)
  BY <1>4, <1>8, <1>9, FourParts
<1>11. Len(b) = 3 + Len(data) /\ At(b, 1, x) /\ At(b, 2, y) /\ At(b, 3, z) /\ At(b, 4, data)
  <2>1. Len(x) = 1 /\ Len(y) = 1 /\ Len(z) = 1
    BY <1>6, <1>7
  <2>2. 1 + Len(x) = 2 /\ 1 + Len(x) + Len(y) = 3 /\ 1 + Len(x) + Len(y) + Len(z) = 4
    BY <2>1
  <2> QED
    BY <1>4, <1>10, <2>1, <2>2
<1>12. At(b, 4, Str(plugin)) /\ At(b, 4 + Len(plugin) + 1, Str(func))
       /\ At(b, 4 + Len(plugin) + Len(func) + 2, Chars(arg))
  <2>1. PICK u : u = Str(plugin) \o Str(func)
    OBVIOUS
  <2>2. data = u \o Chars(arg) /\ u \in Seq(WireCells) /\ Len(u) = Len(plugin) + Len(func) + 2
    <3>1. data = u \o Chars(arg)
      BY <1>1, <2>1
    <3>2. u \in Seq(WireCells) /\ Len(u) = Len(Str(plugin)) + Len(Str(func))
      BY <1>3, <2>1, JoinCells
    <3> QED
      BY <1>3, <3>1, <3>2
  <2>3. At(b, 4, u \o Chars(arg))
    BY <1>11, <2>2
  <2>4. At(b, 4, u) /\ At(b, 4 + Len(u), Chars(arg))
    BY <1>3, <2>2, <2>3, AtJoin
  <2>5. At(b, 4, Str(plugin)) /\ At(b, 4 + Len(Str(plugin)), Str(func))
    BY <1>3, <2>1, <2>4, AtJoin
  <2>6. 4 + Len(Str(plugin)) = 4 + Len(plugin) + 1 /\ 4 + Len(u) = 4 + Len(plugin) + Len(func) + 2
    BY <1>3, <2>2
  <2> QED
    BY <2>4, <2>5, <2>6
<1>13. NumAt(b, 1) = rest /\ NumAt(b, 2) = op /\ NumAt(b, 3) = Len(arg)
  BY <1>2, <1>5, <1>7, <1>11, AtNum
<1>14. /\ StrAt(b, 4) = plugin /\ StrAt(b, EndStr(b, 4) + 1) = func
       /\ CharsAt(b, EndStr(b, EndStr(b, 4) + 1) + 1, Len(arg)) = arg
  BY <1>2, <1>12, AtTexts
<1>15. Encode(m) = b
  BY <1>1 DEF Encode, CallEncode
<1>16. SubSeq(b, 1, Len(b)) = b
  BY <1>10
<1>17. ASSUME Whole(m) < LenMod PROVE Decode("call", b) = m
  <2>1. 3 + Len(data) < LenMod
    BY <1>4, <1>11, <1>15, <1>17, ChannelAssumption DEF Whole
  <2>2. SubSeq(b, 1, NumAt(b, 1)) = b
    BY <1>5, <1>11, <1>13, <1>16, <2>1
  <2>3. Decode("call", b) = [type |-> "call",
          args |-> <<NumAt(b, 2), StrAt(b, 4), StrAt(b, EndStr(b, 4) + 1),
                     CharsAt(b, EndStr(b, EndStr(b, 4) + 1) + 1, NumAt(b, 3))>>]
    BY <2>2 DEF Decode, CallDecode
  <2> QED
    BY <1>1, <1>13, <1>14, <2>3
<1> QED
  BY <1>1, <1>10, <1>15, <1>17 DEF Sound

LEMMA SaveSound ==
  ASSUME NEW snap \in Flags, NEW db \in Names, NEW f \in Names, snap # 0 => f = <<>>
  PROVE  Sound([type |-> "save", args |-> <<snap, db, f>>])
PROOF
<1>1. PICK m : m = [type |-> "save", args |-> <<snap, db, f>>]
  OBVIOUS
<1>2. CASE snap = 0
  <2>1. PICK b : b = Num(snap) \o Str(db) \o Str(f)
    OBVIOUS
  <2>2. b \in Seq(WireCells) /\ NumAt(b, 1) = snap /\ StrAt(b, 2) = db /\ StrAt(b, EndStr(b, 2) + 1) = f
    BY <2>1, NumStrStr
  <2>3. Encode(m) = b
    BY <1>1, <1>2, <2>1 DEF Encode, SaveEncode
  <2>4. Decode("save", b) = [type |-> "save", args |-> <<NumAt(b, 1), StrAt(b, 2), StrAt(b, EndStr(b, 2) + 1)>>]
    BY <1>2, <2>2 DEF Decode, SaveDecode
  <2> QED
    BY <1>1, <2>2, <2>3, <2>4 DEF Sound
<1>3. CASE snap # 0
  <2>1. PICK b : b = Num(snap) \o Str(db)
    OBVIOUS
  <2>2. b \in Seq(WireCells) /\ NumAt(b, 1) = snap /\ StrAt(b, 2) = db
    BY <2>1, NumStr
  <2>3. b \o <<>> = b
    BY <2>2
  <2>4. Encode(m) = b \o <<>>
    BY <1>1, <1>3, <2>1 DEF Encode, SaveEncode
  <2>5. Decode("save", b) = [type |-> "save", args |-> <<NumAt(b, 1), StrAt(b, 2), <<>>>>]
    BY <1>3, <2>2 DEF Decode, SaveDecode
  <2> QED
    BY <1>1, <1>3, <2>2, <2>3, <2>4, <2>5 DEF Sound
<1> QED
  BY <1>2, <1>3

LEMMA OkSound ==
  ASSUME NEW data \in Blobs \cup {<<>>}
  PROVE  Sound([type |-> "ok", args |-> <<data>>])
PROOF
<1>1. PICK m, b : m = [type |-> "ok", args |-> <<data>>] /\ b = Chars(data)
  OBVIOUS
<1>2. data \in Strings
  <2>1. <<>> \in Strings
    BY DEF Strings
  <2> QED
    BY NamesAreStrings, <2>1
<1>3. b \in Seq(WireCells) /\ Len(b) = Len(data)
  BY <1>1, <1>2, CharsCells
<1>4. CharsAt(b, 1, Len(data)) = data
  BY <1>1, <1>2, <1>3, AtStart, AtChars
<1>5. Encode(m) = b
  BY <1>1 DEF Encode
<1>6. Decode("ok", b) = [type |-> "ok", args |-> <<CharsAt(b, 1, Len(b))>>]
  BY DEF Decode
<1> QED
  BY <1>1, <1>3, <1>4, <1>5, <1>6 DEF Sound
------------------------------------------------------------------------------
(* What the framing takes for granted: messages whose arguments are numbers *)
(* and strings and whose encoder fits their decoder.                        *)

Arguments == Flags \cup Strings
AnyMessage == [type : Types, args : Seq(Arguments)]
Messages == {m \in AnyMessage : Sound(m)}

Header(m) == [len |-> Whole(m) % LenMod, type |-> m.type, cut |-> Whole(m) >= LenMod]
Body(m) == SubSeq(Encode(m), 1, (Whole(m) % LenMod) - 1)

LEMMA FrameShape ==
  ASSUME NEW m \in Messages
  PROVE  /\ Header(m) \in Headers /\ Body(m) \in Seq(WireCells) /\ <<"hdr", Header(m)>> \in WireCells
         /\ Header(m).len = 0 => Frame(m) = <<>>
         /\ Header(m).len # 0 => /\ Frame(m) = <<<<"hdr", Header(m)>>>> \o Body(m) /\ Frame(m) # <<>>
                                 /\ Len(Body(m)) = Header(m).len - 1
         /\ Whole(m) < LenMod => Body(m) = Encode(m) /\ ~Header(m).cut /\ Header(m).len # 0
         /\ ~Header(m).cut => Whole(m) < LenMod
PROOF
<1>1. PICK e, len, h : e = Encode(m) /\ len = Whole(m) % LenMod /\ h = Header(m)
  OBVIOUS
<1>2. m \in AnyMessage /\ e \in Seq(WireCells) /\ Len(e) \in Nat /\ Whole(m) = 1 + Len(e) /\ LenMod \in Nat \ {0}
  BY <1>1, ChannelAssumption DEF Messages, Sound, Whole
<1>3. len \in Nat /\ len <= 1 + Len(e) /\ (Whole(m) < LenMod => len = 1 + Len(e))
  BY <1>1, <1>2, LenModFacts
<1>4. h = [len |-> len, type |-> m.type, cut |-> Whole(m) >= LenMod] /\ h \in Headers
  <2>1. m.type \in Types
    BY <1>2 DEF AnyMessage
  <2> QED
    BY <1>1, <1>3, <2>1 DEF Header, Headers
<1>5. PICK cell : cell = <<"hdr", h>>
  OBVIOUS
<1>6. cell \in WireCells
  BY <1>4, <1>5 DEF WireCells
<1>7. PICK w : w = <<cell>> \o e
  OBVIOUS
<1>8. Frame(m) = SubSeq(w, 1, len)
  BY <1>1, <1>4, <1>5, <1>7 DEF Frame
<1>9. PICK body : body = SubSeq(e, 1, len - 1)
  OBVIOUS
<1>10. body \in Seq(WireCells) /\ Len(body) = IF len = 0 THEN 0 ELSE len - 1
  BY <1>2, <1>3, <1>9
<1>11. ASSUME len # 0 PROVE SubSeq(w, 1, len) = <<cell>> \o body
  <2>1. w \in Seq(WireCells) /\ Len(w) = 1 + Len(e) /\ w[1] = cell /\ \A i \in 1..Len(e) : w[i + 1] = e[i]
    BY <1>2, <1>6, <1>7
  <2>2. PICK u, v : u = SubSeq(w, 1, len) /\ v = <<cell>> \o body
    OBVIOUS
  <2>3. u \in Seq(WireCells) /\ Len(u) = len /\ \A i \in 1..len : u[i] = w[i]
    BY <1>3, <1>11, <2>1, <2>2
  <2>4. v \in Seq(WireCells) /\ Len(v) = len /\ v[1] = cell /\ \A i \in 2..len : v[i] = body[i - 1]
    BY <1>3, <1>6, <1>10, <1>11, <2>2
  <2>5. \A i \in 2..len : body[i - 1] = e[i - 1]
    BY <1>2, <1>3, <1>9, <1>11
  <2>6. \A i \in 2..len : w[i] = e[i - 1]
    <3>1. \A i \in 2..len : i - 1 \in 1..Len(e) /\ (i - 1) + 1 = i
      BY <1>2, <1>3
    <3> QED
      BY <2>1, <3>1
  <2>7. \A i \in 1..len : u[i] = v[i]
    <3>1. \A i \in 1..len : i = 1 \/ i \in 2..len
      BY <1>3
    <3> QED
      BY <2>1, <2>3, <2>4, <2>5, <2>6, <3>1
  <2>8. u = v
    BY <2>3, <2>4, <2>7, SeqEqual
  <2> QED
    BY <2>2, <2>8
<1>12. len = 0 => SubSeq(w, 1, len) = <<>>
  BY SubSeqEmpty
<1>13. len = 1 + Len(e) => body = e
  BY <1>2, <1>9
<1>14. Body(m) = body /\ h.len = len /\ h.cut = (Whole(m) >= LenMod)
  BY <1>1, <1>4, <1>9 DEF Body
<1>15. len # 0 => <<cell>> \o body # <<>>
  BY <1>6, <1>10
<1>16. /\ Whole(m) < LenMod => ~h.cut
       /\ ~h.cut => Whole(m) < LenMod
  <2>1. Whole(m) \in Nat
    BY <1>2
  <2>2. (Whole(m) >= LenMod) <=> ~(Whole(m) < LenMod)
    BY <1>2, <2>1
  <2>3. h.cut <=> (Whole(m) >= LenMod)
    BY <1>14, Zenon
  <2> QED
    BY <2>2, <2>3, Zenon
<1>17. Header(m) \in Headers /\ Body(m) \in Seq(WireCells) /\ <<"hdr", Header(m)>> \in WireCells
  BY <1>1, <1>4, <1>5, <1>6, <1>10, <1>14
<1>18. Header(m).len = 0 => Frame(m) = <<>>
  BY <1>1, <1>8, <1>12, <1>14
<1>19. Header(m).len # 0 => /\ Frame(m) = <<<<"hdr", Header(m)>>>> \o Body(m) /\ Frame(m) # <<>>
                            /\ Len(Body(m)) = Header(m).len - 1
  BY <1>1, <1>5, <1>8, <1>10, <1>11, <1>14, <1>15
<1>20. Whole(m) < LenMod => Body(m) = Encode(m) /\ ~Header(m).cut /\ Header(m).len # 0
  BY <1>1, <1>2, <1>3, <1>13, <1>14, <1>16
<1> QED
  BY <1>1, <1>16, <1>17, <1>18, <1>19, <1>20

------------------------------------------------------------------------------
(***************************************************************************)
(* Streams: sequences of cells made of whole frames, each with the         *)
(* messages that lie in it.  It is the smallest set that holds the empty   *)
(* stream and, with a stream, the one that has a frame before it.          *)
(***************************************************************************)
Pairs == Seq(WireCells) \X Seq(AnyMessage)
Before(m, y) == <<Frame(m) \o y[1], <<m>> \o y[2]>>
Closed(P) == <<<<>>, <<>>>> \in P /\ \A m \in Messages, y \in P : Frame(m) # <<>> => Before(m, y) \in P
Streams == {x \in Pairs : \A P \in SUBSET Pairs : Closed(P) => x \in P}

LEMMA Associates ==
  /\ \A x, y, z \in Seq(WireCells) : (x \o y) \o z = x \o (y \o z)
  /\ \A x, y, z \in Seq(AnyMessage) : (x \o y) \o z = x \o (y \o z)
PROOF
<1>1. ASSUME NEW x \in Seq(WireCells), NEW y \in Seq(WireCells), NEW z \in Seq(WireCells)
      PROVE  (x \o y) \o z = x \o (y \o z)
  BY ConcatAssociative
<1>2. ASSUME NEW x \in Seq(AnyMessage), NEW y \in Seq(AnyMessage), NEW z \in Seq(AnyMessage)
      PROVE  (x \o y) \o z = x \o (y \o z)
  BY ConcatAssociative
<1> QED
  BY <1>1, <1>2

LEMMA CellsCancel == \A x, y, z \in Seq(WireCells) : x \o y = x \o z => y = z
PROOF
  BY ConcatSimplifications, Zenon

LEMMA JoinMessages ==
  ASSUME NEW x \in Seq(AnyMessage), NEW y \in Seq(AnyMessage)
  PROVE  /\ x \o y \in Seq(AnyMessage) /\ DOMAIN (x \o y) = 1..(Len(x) + Len(y))
         /\ \A i \in 1..Len(y) : (x \o y)[Len(x) + i] = y[i]
PROOF
  OBVIOUS

LEMMA PrefixOfConcat ==
  ASSUME NEW x \in Seq(AnyMessage), NEW y \in Seq(AnyMessage)
  PROVE  IsPrefix(x, x \o y)
PROOF
<1>1. PICK s : s = x \o y
  OBVIOUS
<1>2. s \in Seq(AnyMessage) /\ Len(s) = Len(x) + Len(y) /\ Len(x) \in Nat /\ Len(y) \in Nat
      /\ \A i \in 1..Len(x) : s[i] = x[i]
  BY <1>1
<1>3. PICK u, v : u = SubSeq(x, 1, Len(x)) /\ v = SubSeq(s, 1, Len(x))
  OBVIOUS
<1>4. /\ u \in Seq(AnyMessage) /\ Len(u) = Len(x) /\ v \in Seq(AnyMessage) /\ Len(v) = Len(x)
      /\ \A i \in 1..Len(x) : u[i] = x[i] /\ v[i] = s[i]
  BY <1>2, <1>3
<1>5. u = v
  BY <1>2, <1>4, SeqEqual
<1> QED
  BY <1>1, <1>2, <1>3, <1>5 DEF IsPrefix

LEMMA FrameCells ==
  ASSUME NEW m \in Messages
  PROVE  Frame(m) \in Seq(WireCells) /\ m \in AnyMessage /\ <<m>> \in Seq(AnyMessage)
PROOF
<1>1. /\ Body(m) \in Seq(WireCells) /\ <<"hdr", Header(m)>> \in WireCells
      /\ Frame(m) = <<>> \/ Frame(m) = <<<<"hdr", Header(m)>>>> \o Body(m)
  BY FrameShape
<1>2. m \in AnyMessage /\ <<m>> \in Seq(AnyMessage)
  BY DEF Messages
<1>3. Frame(m) \in Seq(WireCells)
  <2>1. PICK c : c = <<"hdr", Header(m)>>
    OBVIOUS
  <2>2. c \in WireCells /\ Frame(m) \in {<<>>, <<c>> \o Body(m)}
    BY <1>1, <2>1
  <2>3. <<>> \in Seq(WireCells) /\ <<c>> \o Body(m) \in Seq(WireCells)
    BY <1>1, <2>2
  <2> QED
    BY <2>2, <2>3
<1> QED
  BY <1>2, <1>3

LEMMA BeforeIsPair ==
  ASSUME NEW m \in Messages, NEW y \in Pairs
  PROVE  Before(m, y) \in Pairs
PROOF
<1>1. y[1] \in Seq(WireCells) /\ y[2] \in Seq(AnyMessage)
  BY DEF Pairs
<1>2. Frame(m) \o y[1] \in Seq(WireCells) /\ <<m>> \o y[2] \in Seq(AnyMessage)
  BY <1>1, FrameCells
<1> QED
  BY <1>2 DEF Before, Pairs

LEMMA StreamsClosed == Closed(Streams) /\ Streams \subseteq Pairs
PROOF
<1>1. <<<<>>, <<>>>> \in Streams
  <2>1. <<>> \in Seq(WireCells) /\ <<>> \in Seq(AnyMessage)
    BY EmptySeq
  <2>2. <<<<>>, <<>>>> \in Pairs
    BY <2>1 DEF Pairs
  <2> QED
    BY <2>2 DEF Streams, Closed
<1>2. ASSUME NEW m \in Messages, NEW y \in Streams, Frame(m) # <<>>
      PROVE  Before(m, y) \in Streams
  <2>1. y \in Pairs /\ \A P \in SUBSET Pairs : Closed(P) => y \in P
    BY DEF Streams
  <2>2. Before(m, y) \in Pairs
    BY <2>1, BeforeIsPair
  <2>3. \A P \in SUBSET Pairs : Closed(P) => Before(m, y) \in P
    BY <1>2, <2>1 DEF Closed
  <2> QED
    BY <2>2, <2>3 DEF Streams
<1>3. Streams \subseteq Pairs
  BY DEF Streams
<1> QED
  BY <1>1, <1>2, <1>3 DEF Closed

LEMMA StreamBegins ==
  ASSUME NEW x \in Streams
  PROVE  x = <<<<>>, <<>>>> \/ \E m \in Messages, y \in Streams : Frame(m) # <<>> /\ x = Before(m, y)
PROOF
<1> DEFINE P == {z \in Streams : \/ z = <<<<>>, <<>>>>
                                 \/ \E m \in Messages, y \in Streams : Frame(m) # <<>> /\ z = Before(m, y)}
<1>1. P \in SUBSET Pairs
  BY StreamsClosed
<1>2. <<<<>>, <<>>>> \in P
  BY StreamsClosed DEF Closed
<1>3. ASSUME NEW m \in Messages, NEW y \in P, Frame(m) # <<>>
      PROVE  Before(m, y) \in P
  <2>1. y \in Streams
    OBVIOUS
  <2>2. Before(m, y) \in Streams
    BY <1>3, <2>1, StreamsClosed DEF Closed
  <2> QED
    BY <1>3, <2>1, <2>2
<1>4. Closed(P)
  BY <1>2, <1>3 DEF Closed
<1>5. \A Q \in SUBSET Pairs : Closed(Q) => x \in Q
  BY DEF Streams
<1>6. x \in P
  <2> HIDE DEF P
  <2> QED
    BY <1>1, <1>4, <1>5
<1> QED
  BY <1>6

LEMMA StreamGoesOn ==
  ASSUME NEW x \in Streams, NEW m \in Messages, Frame(m) # <<>>
  PROVE  <<x[1] \o Frame(m), x[2] \o <<m>>>> \in Streams
PROOF
<1> DEFINE After(z) == <<z[1] \o Frame(m), z[2] \o <<m>>>>
           P == {z \in Streams : After(z) \in Streams}
<1>1. P \in SUBSET Pairs
  BY StreamsClosed
<1>2. <<<<>>, <<>>>> \in P
  <2>1. PICK o : o = <<<<>>, <<>>>>
    OBVIOUS
  <2>2. o \in Streams /\ Before(m, o) \in Streams
    BY <2>1, StreamsClosed DEF Closed
  <2>3. Frame(m) \o <<>> = Frame(m) /\ <<>> \o Frame(m) = Frame(m) /\ <<m>> \o <<>> = <<m>> /\ <<>> \o <<m>> = <<m>>
    BY FrameCells, ConcatEmptySeq
  <2>4. Before(m, o) = After(o)
    BY <2>1, <2>3 DEF Before
  <2> QED
    BY <2>1, <2>2, <2>4
<1>3. ASSUME NEW k \in Messages, NEW y \in P, Frame(k) # <<>>
      PROVE  Before(k, y) \in P
  <2>1. y \in Streams /\ After(y) \in Streams /\ y[1] \in Seq(WireCells) /\ y[2] \in Seq(AnyMessage)
    BY StreamsClosed DEF Pairs
  <2>2. Before(k, y) \in Streams /\ Before(k, After(y)) \in Streams
    BY <1>3, <2>1, StreamsClosed DEF Closed
  <2>3. /\ Frame(k) \o (y[1] \o Frame(m)) = (Frame(k) \o y[1]) \o Frame(m)
        /\ <<k>> \o (y[2] \o <<m>>) = (<<k>> \o y[2]) \o <<m>>
    <3>1. Frame(k) \in Seq(WireCells) /\ Frame(m) \in Seq(WireCells)
      BY FrameCells
    <3>2. <<k>> \in Seq(AnyMessage) /\ <<m>> \in Seq(AnyMessage)
      BY FrameCells
    <3>3. PICK u, v, w : u = <<k>> /\ v = y[2] /\ w = <<m>>
      OBVIOUS
    <3>4. u \in Seq(AnyMessage) /\ v \in Seq(AnyMessage) /\ w \in Seq(AnyMessage) /\ y[1] \in Seq(WireCells)
      BY <2>1, <3>2, <3>3
    <3>5. u \o (v \o w) = (u \o v) \o w
      BY <3>4, Associates
    <3>6. Frame(k) \o (y[1] \o Frame(m)) = (Frame(k) \o y[1]) \o Frame(m)
      BY <3>1, <3>4, Associates
    <3> QED
      BY <3>3, <3>5, <3>6
  <2>4. Before(k, After(y)) = After(Before(k, y))
    BY <2>3 DEF Before
  <2> QED
    BY <2>2, <2>4
<1>4. Closed(P)
  BY <1>2, <1>3 DEF Closed
<1>5. \A Q \in SUBSET Pairs : Closed(Q) => x \in Q
  BY DEF Streams
<1>6. x \in P
  <2> HIDE DEF P
  <2> QED
    BY <1>1, <1>4, <1>5
<1> QED
  BY <1>6
------------------------------------------------------------------------------
(***************************************************************************)
(* The inductive invariant.  In a direction that is not broken, what is in *)
(* the pipe and still to be written is the rest b of the message whose     *)
(* header has been read, if one has, and then whole frames; and if every   *)
(* message fits op_len, what was decoded, that message and the messages in *)
(* the frames are what was sent.                                           *)
(***************************************************************************)
Direction == [writing : Seq(WireCells), pipe : Seq(WireCells), hdr : Headers,
              sent : Seq(AnyMessage), got : Seq(AnyMessage), broken : BOOLEAN]
Fits(c) == \A i \in DOMAIN c.sent : Whole(c.sent[i]) < LenMod
Opened(h, b, q) ==
  \/ h = NoHdr /\ b = <<>> /\ q = <<>>
  \/ h # NoHdr /\ \E m \in Messages : h = Header(m) /\ h.len # 0 /\ b = Body(m) /\ q = <<m>>
Holds(c, b, q, x) ==
  /\ x \in Streams /\ Opened(c.hdr, b, q)
  /\ c.pipe \o c.writing = b \o x[1]
  /\ Fits(c) => c.sent = c.got \o (q \o x[2])
InStep(c) == \E b, q, x : Holds(c, b, q, x)
Sane(c) == c \in Direction /\ (IF c.broken THEN c.hdr = NoHdr ELSE InStep(c))
ChannelInv == chan \in [{"req", "rep"} -> Direction] /\ \A d \in {"req", "rep"} : Sane(chan[d])

LEMMA OpenedCells ==
  ASSUME NEW h, NEW b, NEW q, Opened(h, b, q)
  PROVE  b \in Seq(WireCells) /\ q \in Seq(AnyMessage)
PROOF
<1>1. CASE h = NoHdr
  <2>1. b = <<>> /\ q = <<>>
    BY <1>1 DEF Opened
  <2> QED
    BY <2>1, EmptySeq
<1>2. CASE h # NoHdr
  <2>1. PICK m \in Messages : b = Body(m) /\ q = <<m>>
    BY <1>2 DEF Opened
  <2>2. b \in Seq(WireCells)
    BY <2>1, FrameShape
  <2>3. q \in Seq(AnyMessage)
    BY <2>1, FrameCells
  <2> QED
    BY <2>2, <2>3
<1> QED
  BY <1>1, <1>2

LEMMA StreamTypes ==
  ASSUME NEW x \in Streams
  PROVE  x[1] \in Seq(WireCells) /\ x[2] \in Seq(AnyMessage)
PROOF
  BY StreamsClosed DEF Pairs

LEMMA FreshSane == Sane(Fresh)
PROOF
<1>1. NoHdr \in Headers
  <2>1. PICK h, type, cut : h = [len |-> 0, type |-> type, cut |-> cut] /\ type = "none" /\ cut = FALSE
    OBVIOUS
  <2>2. type \in Types /\ cut \in BOOLEAN
    <3>1. type \in Types
      BY <2>1 DEF Types
    <3>2. cut \in BOOLEAN
      BY <2>1, Zenon
    <3> QED
      BY <3>1, <3>2
  <2>3. h \in Headers
    BY <2>1, <2>2 DEF Headers
  <2>4. h = NoHdr
    BY <2>1, Zenon DEF NoHdr
  <2> QED
    BY <2>3, <2>4
<1>2. <<>> \in Seq(WireCells) /\ <<>> \in Seq(AnyMessage)
  BY EmptySeq
<1>3. Fresh \in Direction
  BY <1>1, <1>2 DEF Fresh, Direction
<1>4. PICK x : x = <<<<>>, <<>>>>
  OBVIOUS
<1>5. x \in Streams
  BY <1>4, StreamsClosed DEF Closed
<1>6. Fresh.pipe \o Fresh.writing = <<>> \o x[1] /\ Fresh.sent = Fresh.got \o (<<>> \o x[2])
  BY <1>4 DEF Fresh
<1>7. Opened(Fresh.hdr, <<>>, <<>>)
  BY DEF Opened, Fresh
<1>8. Holds(Fresh, <<>>, <<>>, x)
  BY <1>5, <1>6, <1>7 DEF Holds
<1>9. Fresh.broken = FALSE
  BY DEF Fresh
<1> QED
  BY <1>3, <1>8, <1>9 DEF Sane, InStep

\* clicon_msg_send() puts one more frame behind the others.
Sent(c, m) == [c EXCEPT !.writing = @ \o Frame(m), !.sent = Append(@, m)]
LEMMA SendSane ==
  ASSUME NEW c, Sane(c), NEW m \in Messages
  PROVE  Sane(Sent(c, m))
PROOF
<1>1. c \in Direction
  BY DEF Sane
<1>2. c.writing \in Seq(WireCells) /\ c.pipe \in Seq(WireCells) /\ c.sent \in Seq(AnyMessage) /\ c.got \in Seq(AnyMessage)
  BY <1>1 DEF Direction
<1>3. m \in AnyMessage /\ Frame(m) \in Seq(WireCells) /\ <<m>> \in Seq(AnyMessage)
  BY FrameCells
<1>4. PICK n : n = Sent(c, m)
  OBVIOUS
<1>5. /\ n.writing = c.writing \o Frame(m) /\ n.pipe = c.pipe /\ n.hdr = c.hdr
      /\ n.sent = Append(c.sent, m) /\ n.got = c.got /\ n.broken = c.broken
  BY <1>1, <1>4 DEF Sent, Direction
<1>6. n \in Direction
  <2>1. c.writing \o Frame(m) \in Seq(WireCells) /\ Append(c.sent, m) \in Seq(AnyMessage)
    BY <1>2, <1>3
  <2> QED
    BY <1>1, <1>4, <2>1 DEF Sent, Direction
<1>7. ASSUME Fits(n) PROVE Fits(c) /\ Whole(m) < LenMod
  <2>1. /\ Len(c.sent) \in Nat /\ DOMAIN c.sent = 1..Len(c.sent) /\ DOMAIN n.sent = 1..(Len(c.sent) + 1)
        /\ n.sent[Len(c.sent) + 1] = m /\ \A i \in 1..Len(c.sent) : n.sent[i] = c.sent[i]
    BY <1>2, <1>3, <1>5
  <2>2. Len(c.sent) + 1 \in DOMAIN n.sent /\ \A i \in DOMAIN c.sent : i \in DOMAIN n.sent
    BY <2>1
  <2> QED
    BY <1>7, <2>1, <2>2 DEF Fits
<1>8. ASSUME ~c.broken PROVE InStep(n)
  <2>1. PICK b, q, x : Holds(c, b, q, x)
    BY <1>8 DEF Sane, InStep
  <2>2. /\ b \in Seq(WireCells) /\ q \in Seq(AnyMessage) /\ x \in Streams
        /\ x[1] \in Seq(WireCells) /\ x[2] \in Seq(AnyMessage)
    BY <2>1, OpenedCells, StreamTypes DEF Holds
  <2>3. CASE Frame(m) = <<>>
    <3>1. ~(Whole(m) < LenMod)
      BY <2>3, FrameShape
    <3>2. ~Fits(n)
      BY <1>7, <3>1
    <3>3. n.writing = c.writing
      BY <1>2, <1>5, <2>3, ConcatEmptySeq
    <3>4. Holds(n, b, q, x)
      BY <1>5, <2>1, <3>2, <3>3 DEF Holds
    <3> QED
      BY <3>4 DEF InStep
  <2>4. CASE Frame(m) # <<>>
    <3>1. PICK y : y = <<x[1] \o Frame(m), x[2] \o <<m>>>>
      OBVIOUS
    <3>2. y \in Streams
      BY <2>2, <2>4, <3>1, StreamGoesOn
    <3>3. n.pipe \o n.writing = b \o y[1]
      <4>1. c.pipe \o (c.writing \o Frame(m)) = (c.pipe \o c.writing) \o Frame(m)
        BY <1>2, <1>3, Associates
      <4>2. (b \o x[1]) \o Frame(m) = b \o (x[1] \o Frame(m))
        BY <1>3, <2>2, Associates
      <4>3. c.pipe \o c.writing = b \o x[1]
        BY <2>1 DEF Holds
      <4> QED
        BY <1>5, <3>1, <4>1, <4>2, <4>3
    <3>4. ASSUME Fits(n) PROVE n.sent = n.got \o (q \o y[2])
      <4>1. c.sent = c.got \o (q \o x[2])
        BY <1>7, <2>1, <3>4 DEF Holds
      <4>2. Append(c.sent, m) = c.sent \o <<m>>
        BY <1>2, <1>3, AppendIsConcat
      <4>3. PICK w, r : w = <<m>> /\ r = q \o x[2]
        OBVIOUS
      <4>4. w \in Seq(AnyMessage) /\ r \in Seq(AnyMessage)
        BY <1>3, <2>2, <4>3
      <4>5. (c.got \o r) \o w = c.got \o (r \o w)
        BY <1>2, <4>4, Associates
      <4>6. (q \o x[2]) \o w = q \o (x[2] \o w)
        BY <2>2, <4>4, Associates
      <4> QED
        BY <1>5, <3>1, <4>1, <4>2, <4>3, <4>5, <4>6
    <3>5. Holds(n, b, q, y)
      BY <1>5, <2>1, <3>2, <3>3, <3>4 DEF Holds
    <3> QED
      BY <3>5 DEF InStep
  <2> QED
    BY <2>3, <2>4
<1>9. c.broken => n.hdr = NoHdr
  BY <1>5 DEF Sane
<1>10. n.broken = c.broken
  BY <1>5
<1>11. Sane(n)
  BY <1>6, <1>8, <1>9, <1>10 DEF Sane
<1> QED
  BY <1>4, <1>11

\* Writing moves cells from one end to the other.
Written(c, k) == [c EXCEPT !.pipe = @ \o SubSeq(c.writing, 1, k), !.writing = SubSeq(@, k + 1, Len(@))]
LEMMA WriteSane ==
  ASSUME NEW c, Sane(c), NEW k \in 0..Len(c.writing)
  PROVE  Sane(Written(c, k))
PROOF
<1>1. c \in Direction
  BY DEF Sane
<1>2. c.writing \in Seq(WireCells) /\ c.pipe \in Seq(WireCells)
  BY <1>1 DEF Direction
<1>3. PICK n, u, v : n = Written(c, k) /\ u = SubSeq(c.writing, 1, k) /\ v = SubSeq(c.writing, k + 1, Len(c.writing))
  OBVIOUS
<1>4. u \in Seq(WireCells) /\ v \in Seq(WireCells) /\ u \o v = c.writing
  <2>1. k \in Nat /\ Len(c.writing) \in Nat /\ k <= Len(c.writing)
    BY <1>2
  <2>2. SubSeq(c.writing, 1, k) \o SubSeq(c.writing, k + 1, Len(c.writing)) = SubSeq(c.writing, 1, Len(c.writing))
    <3>1. 1 \in 1..(Len(c.writing) + 1) /\ k \in (1 - 1)..Len(c.writing) /\ Len(c.writing) \in k..Len(c.writing)
      BY <2>1
    <3> QED
      BY <1>2, <3>1, ConcatAdjacentSubSeq
  <2>3. u \in Seq(WireCells) /\ v \in Seq(WireCells)
    BY <1>2, <1>3, <2>1
  <2> QED
    BY <1>2, <1>3, <2>2, <2>3, SubSeqFull
<1>5. /\ n.writing = v /\ n.pipe = c.pipe \o u /\ n.hdr = c.hdr
      /\ n.sent = c.sent /\ n.got = c.got /\ n.broken = c.broken
  BY <1>1, <1>3 DEF Written, Direction
<1>6. n \in Direction
  <2>1. c.pipe \o u \in Seq(WireCells)
    BY <1>2, <1>4
  <2> QED
    BY <1>1, <1>3, <1>4, <2>1 DEF Written, Direction
<1>7. n.pipe \o n.writing = c.pipe \o c.writing
  <2>1. (c.pipe \o u) \o v = c.pipe \o (u \o v)
    BY <1>2, <1>4, Associates
  <2> QED
    BY <1>4, <1>5, <2>1
<1>8. ASSUME ~c.broken PROVE InStep(n)
  <2>1. PICK b, q, x : Holds(c, b, q, x)
    BY <1>8 DEF Sane, InStep
  <2>2. Fits(n) => Fits(c)
    BY <1>5 DEF Fits
  <2>3. Holds(n, b, q, x)
    BY <1>5, <1>7, <2>1, <2>2 DEF Holds
  <2> QED
    BY <2>3 DEF InStep
<1>9. Sane(n)
  BY <1>5, <1>6, <1>8 DEF Sane
<1> QED
  BY <1>3, <1>9

\* Where a header is looked for, there is one, and its message behind it.
LEMMA HeaderNext ==
  ASSUME NEW c, Sane(c), ~c.broken, c.hdr = NoHdr, c.pipe # <<>>
  PROVE  \E m \in Messages, y \in Streams :
           /\ Header(m).len # 0 /\ Head(c.pipe) = <<"hdr", Header(m)>>
           /\ Tail(c.pipe) \o c.writing = Body(m) \o y[1]
           /\ Fits(c) => c.sent = c.got \o (<<m>> \o y[2])
PROOF
<1>1. c.pipe \in Seq(WireCells) /\ c.writing \in Seq(WireCells)
  BY DEF Sane, Direction
<1>2. PICK b, q, x : Holds(c, b, q, x)
  BY DEF Sane, InStep
<1>3. b = <<>> /\ q = <<>> /\ x \in Streams /\ x[1] \in Seq(WireCells) /\ x[2] \in Seq(AnyMessage)
  BY <1>2, StreamTypes DEF Holds, Opened
<1>4. c.pipe \o c.writing = x[1] /\ (Fits(c) => c.sent = c.got \o x[2])
  <2>1. <<>> \o x[1] = x[1] /\ <<>> \o x[2] = x[2]
    BY <1>3, ConcatEmptySeq
  <2> QED
    BY <1>2, <1>3, <2>1 DEF Holds
<1>5. x[1] # <<>>
  <2>1. \A u, v \in Seq(WireCells) : u \o v = <<>> => u = <<>>
    BY ConcatEqualIffEmpty
  <2> QED
    BY <1>1, <1>4, <2>1
<1>6. PICK m \in Messages, y \in Streams : Frame(m) # <<>> /\ x = Before(m, y)
  <2>1. x # <<<<>>, <<>>>>
    BY <1>5
  <2> QED
    BY <1>3, <2>1, StreamBegins
<1>7. PICK h : h = <<"hdr", Header(m)>>
  OBVIOUS
<1>8. /\ h \in WireCells /\ Body(m) \in Seq(WireCells) /\ Header(m).len # 0 /\ Frame(m) = <<h>> \o Body(m)
      /\ y[1] \in Seq(WireCells)
  BY <1>6, <1>7, FrameShape, StreamTypes
<1>9. c.pipe \o c.writing = <<h>> \o (Body(m) \o y[1]) /\ x[2] = <<m>> \o y[2]
  <2>1. x[1] = Frame(m) \o y[1] /\ x[2] = <<m>> \o y[2]
    BY <1>6 DEF Before
  <2>2. <<h>> \in Seq(WireCells)
    BY <1>8
  <2>3. PICK z : z = <<h>>
    OBVIOUS
  <2>4. (z \o Body(m)) \o y[1] = z \o (Body(m) \o y[1])
    BY <1>8, <2>2, <2>3, Associates
  <2> QED
    BY <1>4, <1>8, <2>1, <2>3, <2>4
<1>10. Head(c.pipe) = h /\ Tail(c.pipe) \o c.writing = Body(m) \o y[1]
  <2>1. PICK r : r = Body(m) \o y[1]
    OBVIOUS
  <2>2. r \in Seq(WireCells)
    BY <1>8, <2>1
  <2>3. PICK p, t : p = Head(c.pipe) /\ t = Tail(c.pipe)
    OBVIOUS
  <2>4. p \in WireCells /\ t \in Seq(WireCells) /\ c.pipe = <<p>> \o t
    BY <1>1, <2>3
  <2>5. (<<p>> \o t) \o c.writing = <<h>> \o r
    BY <1>9, <2>1, <2>4
  <2>6. p = h
    <3>1. \A z \in WireCells : \A u \in Seq(WireCells) : (<<z>> \o u)[1] = z
      OBVIOUS
    <3>2. \A z \in WireCells : \A u, v \in Seq(WireCells) : ((<<z>> \o u) \o v)[1] = z
      OBVIOUS
    <3>3. p \in WireCells /\ h \in WireCells /\ t \in Seq(WireCells) /\ c.writing \in Seq(WireCells)
      BY <1>1, <1>8, <2>4
    <3>4. ((<<p>> \o t) \o c.writing)[1] = p
      BY <3>2, <3>3
    <3>5. (<<h>> \o r)[1] = h
      BY <2>2, <3>1, <3>3
    <3>6. ((<<p>> \o t) \o c.writing)[1] = (<<h>> \o r)[1]
      BY <2>5, Zenon
    <3> QED
      BY <3>4, <3>5, <3>6
  <2>7. t \o c.writing = r
    <3>1. PICK o : o = <<p>>
      OBVIOUS
    <3>2. o \in Seq(WireCells) /\ t \o c.writing \in Seq(WireCells)
      BY <1>1, <2>4, <3>1
    <3>3. (o \o t) \o c.writing = o \o (t \o c.writing)
      BY <1>1, <2>4, <3>2, Associates
    <3>4. o \o (t \o c.writing) = o \o r
      BY <2>5, <2>6, <3>1, <3>3
    <3> QED
      BY <2>2, <3>2, <3>4, CellsCancel
  <2> QED
    BY <2>1, <2>3, <2>6, <2>7
<1> QED
  BY <1>4, <1>7, <1>8, <1>9, <1>10
\* The header is taken from the pipe and its message is open from then on.
HeaderRead(c) == [c EXCEPT !.hdr = Head(c.pipe)[2], !.pipe = Tail(@)]
LEMMA HeaderSane ==
  ASSUME NEW c, Sane(c), ~c.broken, c.hdr = NoHdr, c.pipe # <<>>
  PROVE  Sane(HeaderRead(c))
PROOF
<1>1. c \in Direction
  BY DEF Sane
<1>2. c.pipe \in Seq(WireCells) /\ c.got \in Seq(AnyMessage)
  BY <1>1 DEF Direction
<1>3. PICK m \in Messages, y \in Streams :
        /\ Header(m).len # 0 /\ Head(c.pipe) = <<"hdr", Header(m)>>
        /\ Tail(c.pipe) \o c.writing = Body(m) \o y[1]
        /\ Fits(c) => c.sent = c.got \o (<<m>> \o y[2])
  BY HeaderNext
<1>4. PICK n, h : n = HeaderRead(c) /\ h = Header(m)
  OBVIOUS
<1>5. h \in Headers /\ Head(c.pipe)[2] = h
  <2>1. h \in Headers
    BY <1>4, FrameShape
  <2>2. PICK e : e = Head(c.pipe)
    OBVIOUS
  <2>3. e = <<"hdr", h>>
    BY <1>3, <1>4, <2>2
  <2>4. e[2] = h
    BY <2>3
  <2> QED
    BY <2>1, <2>2, <2>4
<1>6. /\ n.hdr = h /\ n.pipe = Tail(c.pipe) /\ n.writing = c.writing
      /\ n.sent = c.sent /\ n.got = c.got /\ n.broken = c.broken
  BY <1>1, <1>4, <1>5 DEF HeaderRead, Direction
<1>7. n \in Direction
  <2>1. Tail(c.pipe) \in Seq(WireCells)
    BY <1>2
  <2> QED
    BY <1>1, <1>4, <1>5, <2>1 DEF HeaderRead, Direction
<1>8. h # NoHdr
  BY <1>3, <1>4 DEF NoHdr
<1>9. PICK b, q : b = Body(m) /\ q = <<m>>
  OBVIOUS
<1>10. Opened(h, b, q)
  BY <1>3, <1>4, <1>8, <1>9 DEF Opened
<1>11. Fits(n) => Fits(c)
  BY <1>6 DEF Fits
<1>12. Holds(n, b, q, y)
  BY <1>3, <1>6, <1>9, <1>10, <1>11 DEF Holds
<1>13. n.broken = FALSE
  <2>1. c.broken \in BOOLEAN
    BY <1>1 DEF Direction
  <2> QED
    BY <1>6, <2>1
<1>14. Sane(n)
  BY <1>7, <1>12, <1>13 DEF Sane, InStep
<1> QED
  BY <1>4, <1>14

LEMMA SplitCells ==
  ASSUME NEW p \in Seq(WireCells), NEW w \in Seq(WireCells), NEW b \in Seq(WireCells), NEW r \in Seq(WireCells),
         p \o w = b \o r, Len(b) <= Len(p)
  PROVE  /\ SubSeq(p, 1, Len(b)) = b
         /\ SubSeq(p, Len(b) + 1, Len(p)) \in Seq(WireCells)
         /\ SubSeq(p, Len(b) + 1, Len(p)) \o w = r
PROOF
<1>1. PICK u, v : u = SubSeq(p, 1, Len(b)) /\ v = SubSeq(p, Len(b) + 1, Len(p))
  OBVIOUS
<1>2. Len(b) \in Nat /\ Len(p) \in Nat
  OBVIOUS
<1>3. u \in Seq(WireCells) /\ v \in Seq(WireCells) /\ Len(u) = Len(b) /\ \A i \in 1..Len(b) : u[i] = p[i]
  BY <1>1, <1>2
<1>4. u \o v = p
  <2>1. 1 \in 1..(Len(p) + 1) /\ Len(b) \in (1 - 1)..Len(p) /\ Len(p) \in Len(b)..Len(p)
    BY <1>2
  <2>2. SubSeq(p, 1, Len(b)) \o SubSeq(p, Len(b) + 1, Len(p)) = SubSeq(p, 1, Len(p))
    BY <2>1, ConcatAdjacentSubSeq
  <2> QED
    BY <1>1, <2>2, SubSeqFull
<1>5. u = b
  <2>1. \A i \in 1..Len(b) : (p \o w)[i] = p[i] /\ (b \o r)[i] = b[i]
    BY <1>2
  <2>2. \A i \in 1..Len(b) : u[i] = b[i]
    BY <1>3, <2>1
  <2>3. Len(u) = Len(b) /\ u \in Seq(WireCells) /\ \A i \in 1..Len(u) : u[i] = b[i]
    BY <1>3, <2>2
  <2> QED
    BY <2>3, SeqEqual, SMTT(20)
<1>6. b \o (v \o w) = b \o r
  <2>1. (u \o v) \o w = u \o (v \o w)
    BY <1>3, Associates
  <2> QED
    BY <1>4, <1>5, <2>1
<1>7. v \o w = r
  <2>1. v \o w \in Seq(WireCells)
    BY <1>3
  <2> QED
    BY <1>6, <2>1, CellsCancel
<1> QED
  BY <1>1, <1>3, <1>5, <1>7

\* What the receiver makes of the body: the message, unless it was cut.
Read(c, n) ==
  IF c.hdr.cut THEN [type |-> c.hdr.type, args |-> <<>>] ELSE Decode(c.hdr.type, SubSeq(c.pipe, 1, n))
\* A whole body: it is decoded.  A piece of one: the direction is broken.
BodyRead(c, n) == [c EXCEPT !.pipe = SubSeq(@, n + 1, Len(@)), !.hdr = NoHdr, !.got = Append(@, Read(c, n))]
BodyLost(c, n) == [c EXCEPT !.pipe = SubSeq(@, n + 1, Len(@)), !.hdr = NoHdr, !.broken = TRUE]

LEMMA BodySane ==
  ASSUME NEW c, Sane(c), c.hdr # NoHdr
  PROVE  /\ c.hdr.len \in Nat \ {0} /\ Len(c.pipe) \in Nat
         /\ c.hdr.len - 1 <= Len(c.pipe) => Sane(BodyRead(c, c.hdr.len - 1))
         /\ \A n \in 0..Len(c.pipe) : Sane(BodyLost(c, n))
PROOF
<1>1. c \in Direction
  BY DEF Sane
<1>2. /\ c.pipe \in Seq(WireCells) /\ c.writing \in Seq(WireCells) /\ c.got \in Seq(AnyMessage)
      /\ c.broken \in BOOLEAN /\ Len(c.pipe) \in Nat /\ NoHdr \in Headers
  BY <1>1, FreshSane DEF Direction, Sane, Fresh
<1>3. PICK b, q, x : Holds(c, b, q, x)
  BY DEF Sane, InStep
<1>4. PICK m \in Messages : c.hdr = Header(m) /\ c.hdr.len # 0 /\ b = Body(m) /\ q = <<m>>
  BY <1>3 DEF Holds, Opened
<1>5. PICK k : k = c.hdr.len - 1
  OBVIOUS
<1>6. /\ c.hdr.len \in Nat \ {0} /\ b \in Seq(WireCells) /\ Len(b) = k /\ k \in Nat
      /\ m \in AnyMessage /\ x \in Streams /\ x[1] \in Seq(WireCells) /\ x[2] \in Seq(AnyMessage)
  <2>1. Header(m) \in Headers /\ Body(m) \in Seq(WireCells) /\ Len(Body(m)) = Header(m).len - 1
    BY <1>4, FrameShape
  <2>2. c.hdr.len \in Nat
    BY <1>4, <2>1 DEF Headers
  <2>3. m \in AnyMessage /\ x \in Streams
    BY <1>3, FrameCells DEF Holds
  <2> QED
    BY <1>4, <1>5, <2>1, <2>2, <2>3, StreamTypes
<1>7. ASSUME k <= Len(c.pipe) PROVE Sane(BodyRead(c, k))
  <2>1. /\ SubSeq(c.pipe, 1, k) = b /\ SubSeq(c.pipe, k + 1, Len(c.pipe)) \in Seq(WireCells)
        /\ SubSeq(c.pipe, k + 1, Len(c.pipe)) \o c.writing = x[1]
    <3>1. c.pipe \o c.writing = b \o x[1] /\ Len(b) <= Len(c.pipe)
      BY <1>3, <1>6, <1>7 DEF Holds
    <3>2. PICK p, w, z : p = c.pipe /\ w = c.writing /\ z = x[1]
      OBVIOUS
    <3>3. p \in Seq(WireCells) /\ w \in Seq(WireCells) /\ z \in Seq(WireCells) /\ b \in Seq(WireCells)
      BY <1>2, <1>6, <3>2
    <3>4. p \o w = b \o z /\ Len(b) <= Len(p)
      BY <3>1, <3>2
    <3>5. /\ SubSeq(p, 1, Len(b)) = b /\ SubSeq(p, Len(b) + 1, Len(p)) \in Seq(WireCells)
          /\ SubSeq(p, Len(b) + 1, Len(p)) \o w = z
      BY <3>3, <3>4, SplitCells, ZenonT(30)
    <3> QED
      BY <1>6, <3>2, <3>5
  <2>2. PICK r, n : r = Read(c, k) /\ n = BodyRead(c, k)
    OBVIOUS
  <2>3. r \in AnyMessage /\ (Whole(m) < LenMod => r = m)
    <3>1. ASSUME Whole(m) < LenMod PROVE r = m
      <4>1. ~c.hdr.cut /\ b = Encode(m)
        BY <1>4, <3>1, FrameShape
      <4>2. c.hdr.type = m.type
        BY <1>4 DEF Header
      <4>3. Decode(m.type, Encode(m)) = m
        BY <3>1 DEF Messages, Sound
      <4> QED
        BY <2>1, <2>2, <4>1, <4>2, <4>3 DEF Read
    <3>2. ASSUME ~(Whole(m) < LenMod) PROVE r \in AnyMessage
      <4>1. c.hdr.cut
        BY <1>4, <3>2, FrameShape
      <4>2. r = [type |-> m.type, args |-> <<>>]
        BY <1>4, <2>2, <4>1 DEF Read, Header
      <4>3. <<>> \in Seq(Arguments) /\ m.type \in Types
        BY <1>6, EmptySeq DEF AnyMessage
      <4> QED
        BY <4>2, <4>3 DEF AnyMessage
    <3> QED
      BY <1>6, <3>1, <3>2
  <2>4. /\ n.pipe = SubSeq(c.pipe, k + 1, Len(c.pipe)) /\ n.hdr = NoHdr /\ n.writing = c.writing
        /\ n.sent = c.sent /\ n.got = Append(c.got, r) /\ n.broken = c.broken
    BY <1>1, <2>2 DEF BodyRead, Direction
  <2>5. n \in Direction
    <3>1. Append(c.got, r) \in Seq(AnyMessage)
      BY <1>2, <2>3
    <3> QED
      BY <1>1, <1>2, <2>1, <2>2, <3>1 DEF BodyRead, Direction
  <2>6. n.pipe \o n.writing = <<>> \o x[1]
    BY <1>6, <2>1, <2>4, ConcatEmptySeq
  <2>7. ASSUME Fits(n) PROVE n.sent = n.got \o (<<>> \o x[2])
    <3>1. Fits(c)
      BY <2>4, <2>7 DEF Fits
    <3>2. PICK o : o = <<m>>
      OBVIOUS
    <3>3. o \in Seq(AnyMessage)
      BY <1>6, <3>2
    <3>4. c.sent = c.got \o (o \o x[2])
      BY <1>3, <1>4, <3>1, <3>2 DEF Holds
    <3>5. Whole(m) < LenMod
      <4>1. /\ Len(c.got) \in Nat /\ Len(x[2]) \in Nat /\ DOMAIN c.sent = 1..(Len(c.got) + (1 + Len(x[2])))
            /\ c.sent[Len(c.got) + 1] = m
        <5>1. o \o x[2] \in Seq(AnyMessage) /\ Len(o \o x[2]) = 1 + Len(x[2]) /\ (o \o x[2])[1] = m
          BY <1>6, <3>2, <3>3
        <5>2. PICK s : s = o \o x[2]
          OBVIOUS
        <5>3. s \in Seq(AnyMessage) /\ Len(s) = 1 + Len(x[2]) /\ s[1] = m /\ Len(x[2]) \in Nat /\ Len(c.got) \in Nat
          BY <1>2, <1>6, <5>1, <5>2
        <5>4. (c.got \o s)[Len(c.got) + 1] = s[1] /\ DOMAIN (c.got \o s) = 1..(Len(c.got) + Len(s))
          <6>1. PICK g : g = c.got
            OBVIOUS
          <6>2. g \in Seq(AnyMessage) /\ 1 \in 1..Len(s)
            BY <1>2, <5>3, <6>1
          <6> QED
            BY <5>3, <6>1, <6>2, JoinMessages
        <5> QED
          BY <3>4, <5>2, <5>3, <5>4
      <4>2. Len(c.got) + 1 \in DOMAIN c.sent
        <5>1. \A i, j \in Nat : i + 1 \in 1..(i + (1 + j))
          OBVIOUS
        <5> QED
          BY <4>1, <5>1
      <4> QED
        BY <3>1, <4>1, <4>2 DEF Fits
    <3>6. r = m
      BY <2>3, <3>5
    <3>7. Append(c.got, m) = c.got \o o
      BY <1>2, <1>6, <3>2, AppendIsConcat
    <3>8. (c.got \o o) \o x[2] = c.got \o (o \o x[2])
      <4>1. PICK g, y : g = c.got /\ y = x[2]
        OBVIOUS
      <4>2. g \in Seq(AnyMessage) /\ y \in Seq(AnyMessage)
        BY <1>2, <1>6, <4>1
      <4>3. (g \o o) \o y = g \o (o \o y)
        BY <3>3, <4>2, Associates, Zenon
      <4> QED
        BY <4>1, <4>3, Zenon
    <3>9. <<>> \o x[2] = x[2]
      BY <1>6, ConcatEmptySeq
    <3> QED
      BY <2>4, <3>4, <3>6, <3>7, <3>8, <3>9
  <2>8. Opened(n.hdr, <<>>, <<>>)
    BY <2>4 DEF Opened
  <2>9. Holds(n, <<>>, <<>>, x)
    BY <1>6, <2>6, <2>7, <2>8 DEF Holds
  <2>10. Sane(n)
    BY <2>4, <2>5, <2>9 DEF Sane, InStep
  <2> QED
    BY <2>2, <2>10
<1>8. ASSUME NEW j \in 0..Len(c.pipe) PROVE Sane(BodyLost(c, j))
  <2>1. PICK n : n = BodyLost(c, j)
    OBVIOUS
  <2>2. SubSeq(c.pipe, j + 1, Len(c.pipe)) \in Seq(WireCells)
    BY <1>2
  <2>3. n \in Direction
    BY <1>1, <1>2, <2>1, <2>2 DEF BodyLost, Direction
  <2>4. n.hdr = NoHdr /\ n.broken = TRUE
    BY <1>1, <2>1 DEF BodyLost, Direction
  <2>5. Sane(n)
    BY <2>3, <2>4 DEF Sane
  <2> QED
    BY <2>1, <2>5
<1> QED
  BY <1>2, <1>5, <1>6, <1>7, <1>8

------------------------------------------------------------------------------
(* The invariant says what the run checks. *)

LEMMA ChannelInvIntact == ChannelInv => MessagesIntact
PROOF
<1> SUFFICES ASSUME ChannelInv, NEW d \in {"req", "rep"}
             PROVE  FramesAligned(d) /\ ReceivedAsSent(d)
  BY DEF MessagesIntact
<1>1. PICK c : c = chan[d]
  OBVIOUS
<1>2. Sane(c) /\ c.pipe \in Seq(WireCells) /\ c.got \in Seq(AnyMessage)
  BY <1>1 DEF ChannelInv, Sane, Direction
<1>3. ASSUME c.hdr = NoHdr, c.pipe # <<>>, ~c.broken PROVE Head(c.pipe)[1] = "hdr"
  <2>1. PICK m \in Messages, y \in Streams : Head(c.pipe) = <<"hdr", Header(m)>>
    BY <1>2, <1>3, HeaderNext
  <2> QED
    BY <2>1
<1>4. ASSUME ~c.broken, Fits(c) PROVE IsPrefix(c.got, c.sent)
  <2>1. PICK b, q, x : Holds(c, b, q, x)
    BY <1>2, <1>4 DEF Sane, InStep
  <2>2. q \in Seq(AnyMessage) /\ x[2] \in Seq(AnyMessage)
    BY <2>1, OpenedCells, StreamTypes DEF Holds
  <2>3. PICK r : r = q \o x[2]
    OBVIOUS
  <2>4. r \in Seq(AnyMessage)
    BY <2>2, <2>3
  <2>5. c.sent = c.got \o r
    BY <1>4, <2>1, <2>3 DEF Holds
  <2> QED
    BY <1>2, <2>4, <2>5, PrefixOfConcat
<1> QED
  BY <1>1, <1>3, <1>4 DEF FramesAligned, ReceivedAsSent, Fits
------------------------------------------------------------------------------
(* Whatever a client asks and the backend answers is a message whose encoder *)
(* and decoder fit.                                                          *)

LEMMA Argument ==
  /\ \A a \in Arguments : <<a>> \in Seq(Arguments)
  /\ \A a, b \in Arguments : <<a, b>> \in Seq(Arguments)
  /\ \A a, b, c \in Arguments : <<a, b, c>> \in Seq(Arguments)
  /\ \A a, b, c, d \in Arguments : <<a, b, c, d>> \in Seq(Arguments)
  /\ Flags \subseteq Arguments /\ Names \subseteq Arguments /\ Blobs \cup {<<>>} \subseteq Arguments
PROOF
<1>1. \A a, b, c, d \in Arguments : <<a, b, c, d>> \in Seq(Arguments)
  OBVIOUS
<1>2. <<>> \in Strings
  BY EmptySeq DEF Strings
<1>3. Flags \subseteq Arguments /\ Names \subseteq Arguments /\ Blobs \cup {<<>>} \subseteq Arguments
  BY <1>2, NamesAreStrings DEF Arguments
<1> QED
  BY <1>1, <1>3

LEMMA RequestIsMessage == Request => \E m \in Messages : Rpc(m)
PROOF
<1>1. ASSUME ProtoCopy PROVE \E m \in Messages : Rpc(m)
  <2>1. PICK f, g \in Names : Rpc([type |-> "copy", args |-> <<f, g>>])
    BY <1>1 DEF ProtoCopy
  <2>2. Sound([type |-> "copy", args |-> <<f, g>>])
    BY CopySound
  <2>3. <<f, g>> \in Seq(Arguments) /\ "copy" \in Types
    BY Argument DEF Types
  <2>4. [type |-> "copy", args |-> <<f, g>>] \in Messages
    BY <2>2, <2>3 DEF Messages, AnyMessage
  <2> QED
    BY <2>1, <2>4
<1>2. ASSUME ProtoChange PROVE \E m \in Messages : Rpc(m)
  <2>1. PICK op \in Flags, db, key \in Names, lvec \in Blobs : Rpc([type |-> "change", args |-> <<op, db, key, lvec>>])
    BY <1>2 DEF ProtoChange
  <2>2. Sound([type |-> "change", args |-> <<op, db, key, lvec>>])
    BY ChangeSound
  <2>3. <<op, db, key, lvec>> \in Seq(Arguments) /\ "change" \in Types
    BY Argument DEF Types
  <2>4. [type |-> "change", args |-> <<op, db, key, lvec>>] \in Messages
    BY <2>2, <2>3 DEF Messages, AnyMessage
  <2> QED
    BY <2>1, <2>4
<1>3. ASSUME ProtoCommit PROVE \E m \in Messages : Rpc(m)
  <2>1. PICK snap, start \in Flags, f, g \in Names : Rpc([type |-> "commit", args |-> <<snap, start, f, g>>])
    BY <1>3 DEF ProtoCommit
  <2>2. Sound([type |-> "commit", args |-> <<snap, start, f, g>>])
    BY NumSound
  <2>3. <<snap, start, f, g>> \in Seq(Arguments) /\ "commit" \in Types
    BY Argument DEF Types
  <2>4. [type |-> "commit", args |-> <<snap, start, f, g>>] \in Messages
    BY <2>2, <2>3 DEF Messages, AnyMessage
  <2> QED
    BY <2>1, <2>4
<1>4. ASSUME ProtoValidate PROVE \E m \in Messages : Rpc(m)
  <2>1. PICK db \in Names : Rpc([type |-> "validate", args |-> <<db>>])
    BY <1>4 DEF ProtoValidate
  <2>2. Sound([type |-> "validate", args |-> <<db>>])
    BY OneStrSound
  <2>3. <<db>> \in Seq(Arguments) /\ "validate" \in Types
    BY Argument DEF Types
  <2>4. [type |-> "validate", args |-> <<db>>] \in Messages
    BY <2>2, <2>3 DEF Messages, AnyMessage
  <2> QED
    BY <2>1, <2>4
<1>5. ASSUME ProtoSave PROVE \E m \in Messages : Rpc(m)
  <2>1. PICK snap \in Flags, db, f \in Names : (snap # 0 => f = <<>>) /\ Rpc([type |-> "save", args |-> <<snap, db, f>>])
    BY <1>5 DEF ProtoSave
  <2>2. Sound([type |-> "save", args |-> <<snap, db, f>>])
    BY <2>1, SaveSound
  <2>3. <<snap, db, f>> \in Seq(Arguments) /\ "save" \in Types
    BY Argument DEF Types
  <2>4. [type |-> "save", args |-> <<snap, db, f>>] \in Messages
    BY <2>2, <2>3 DEF Messages, AnyMessage
  <2> QED
    BY <2>1, <2>4
<1>6. ASSUME ProtoLoad PROVE \E m \in Messages : Rpc(m)
  <2>1. PICK replace \in Flags, db, f \in Names : Rpc([type |-> "load", args |-> <<replace, db, f>>])
    BY <1>6 DEF ProtoLoad
  <2>2. Sound([type |-> "load", args |-> <<replace, db, f>>])
    BY NumSound
  <2>3. <<replace, db, f>> \in Seq(Arguments) /\ "load" \in Types
    BY Argument DEF Types
  <2>4. [type |-> "load", args |-> <<replace, db, f>>] \in Messages
    BY <2>2, <2>3 DEF Messages, AnyMessage
  <2> QED
    BY <2>1, <2>4
<1>7. ASSUME ProtoInitdb PROVE \E m \in Messages : Rpc(m)
  <2>1. PICK f \in Names : Rpc([type |-> "initdb", args |-> <<f>>])
    BY <1>7 DEF ProtoInitdb
  <2>2. Sound([type |-> "initdb", args |-> <<f>>])
    BY OneStrSound
  <2>3. <<f>> \in Seq(Arguments) /\ "initdb" \in Types
    BY Argument DEF Types
  <2>4. [type |-> "initdb", args |-> <<f>>] \in Messages
    BY <2>2, <2>3 DEF Messages, AnyMessage
  <2> QED
    BY <2>1, <2>4
<1>8. ASSUME ProtoRm PROVE \E m \in Messages : Rpc(m)
  <2>1. PICK f \in Names : Rpc([type |-> "rm", args |-> <<f>>])
    BY <1>8 DEF ProtoRm
  <2>2. Sound([type |-> "rm", args |-> <<f>>])
    BY OneStrSound
  <2>3. <<f>> \in Seq(Arguments) /\ "rm" \in Types
    BY Argument DEF Types
  <2>4. [type |-> "rm", args |-> <<f>>] \in Messages
    BY <2>2, <2>3 DEF Messages, AnyMessage
  <2> QED
    BY <2>1, <2>4
<1>9. ASSUME ProtoLock PROVE \E m \in Messages : Rpc(m)
  <2>1. PICK db \in Names : Rpc([type |-> "lock", args |-> <<db>>])
    BY <1>9 DEF ProtoLock
  <2>2. Sound([type |-> "lock", args |-> <<db>>])
    BY OneStrSound
  <2>3. <<db>> \in Seq(Arguments) /\ "lock" \in Types
    BY Argument DEF Types
  <2>4. [type |-> "lock", args |-> <<db>>] \in Messages
    BY <2>2, <2>3 DEF Messages, AnyMessage
  <2> QED
    BY <2>1, <2>4
<1>10. ASSUME ProtoUnlock PROVE \E m \in Messages : Rpc(m)
  <2>1. PICK db \in Names : Rpc([type |-> "unlock", args |-> <<db>>])
    BY <1>10 DEF ProtoUnlock
  <2>2. Sound([type |-> "unlock", args |-> <<db>>])
    BY OneStrSound
  <2>3. <<db>> \in Seq(Arguments) /\ "unlock" \in Types
    BY Argument DEF Types
  <2>4. [type |-> "unlock", args |-> <<db>>] \in Messages
    BY <2>2, <2>3 DEF Messages, AnyMessage
  <2> QED
    BY <2>1, <2>4
<1>11. ASSUME ProtoKill PROVE \E m \in Messages : Rpc(m)
  <2>1. PICK id \in Flags : Rpc([type |-> "kill", args |-> <<id>>])
    BY <1>11 DEF ProtoKill
  <2>2. Sound([type |-> "kill", args |-> <<id>>])
    BY OneNumSound
  <2>3. <<id>> \in Seq(Arguments) /\ "kill" \in Types
    BY Argument DEF Types
  <2>4. [type |-> "kill", args |-> <<id>>] \in Messages
    BY <2>2, <2>3 DEF Messages, AnyMessage
  <2> QED
    BY <2>1, <2>4
<1>12. ASSUME ProtoDebug PROVE \E m \in Messages : Rpc(m)
  <2>1. PICK level \in Flags : Rpc([type |-> "debug", args |-> <<level>>])
    BY <1>12 DEF ProtoDebug
  <2>2. Sound([type |-> "debug", args |-> <<level>>])
    BY OneNumSound
  <2>3. <<level>> \in Seq(Arguments) /\ "debug" \in Types
    BY Argument DEF Types
  <2>4. [type |-> "debug", args |-> <<level>>] \in Messages
    BY <2>2, <2>3 DEF Messages, AnyMessage
  <2> QED
    BY <2>1, <2>4
<1>13. ASSUME ProtoSubscription PROVE \E m \in Messages : Rpc(m)
  <2>1. PICK status, format \in Flags, stream, filter \in Names : Rpc([type |-> "subscription", args |-> <<status, stream, format, filter>>])
    BY <1>13 DEF ProtoSubscription
  <2>2. Sound([type |-> "subscription", args |-> <<status, stream, format, filter>>])
    BY NumSound
  <2>3. <<status, stream, format, filter>> \in Seq(Arguments) /\ "subscription" \in Types
    BY Argument DEF Types
  <2>4. [type |-> "subscription", args |-> <<status, stream, format, filter>>] \in Messages
    BY <2>2, <2>3 DEF Messages, AnyMessage
  <2> QED
    BY <2>1, <2>4
<1>14. ASSUME CliDowncall PROVE \E m \in Messages : Rpc(m)
  <2>1. PICK op \in Flags, plugin, func \in Names, arg \in Blobs : Rpc([type |-> "call", args |-> <<op, plugin, func, arg>>])
    BY <1>14 DEF CliDowncall
  <2>2. Sound([type |-> "call", args |-> <<op, plugin, func, arg>>])
    BY CallSound
  <2>3. <<op, plugin, func, arg>> \in Seq(Arguments) /\ "call" \in Types
    BY Argument DEF Types
  <2>4. [type |-> "call", args |-> <<op, plugin, func, arg>>] \in Messages
    BY <2>2, <2>3 DEF Messages, AnyMessage
  <2> QED
    BY <2>1, <2>4
<1> QED
  BY <1>1, <1>2, <1>3, <1>4, <1>5, <1>6, <1>7, <1>8, <1>9, <1>10, <1>11, <1>12, <1>13, <1>14 DEF Request

LEMMA AnswerIsMessage ==
  /\ \A type : Answers(type) \subseteq Messages
  /\ \A level \in Flags, event \in Names : [type |-> "notify", args |-> <<level, event>>] \in Messages
PROOF
<1>1. ASSUME NEW data \in Blobs \cup {<<>>} PROVE [type |-> "ok", args |-> <<data>>] \in Messages
  <2>1. Sound([type |-> "ok", args |-> <<data>>])
    BY OkSound
  <2>2. <<data>> \in Seq(Arguments) /\ "ok" \in Types
    BY Argument DEF Types
  <2> QED
    BY <2>1, <2>2 DEF Messages, AnyMessage
<1>2. ASSUME NEW err \in Flags, NEW suberr \in Flags, NEW reason \in Names
      PROVE  [type |-> "err", args |-> <<err, suberr, reason>>] \in Messages
  <2>1. Sound([type |-> "err", args |-> <<err, suberr, reason>>])
    BY NumSound
  <2>2. <<err, suberr, reason>> \in Seq(Arguments) /\ "err" \in Types
    BY Argument DEF Types
  <2> QED
    BY <2>1, <2>2 DEF Messages, AnyMessage
<1>3. ASSUME NEW level \in Flags, NEW event \in Names
      PROVE  [type |-> "notify", args |-> <<level, event>>] \in Messages
  <2>1. Sound([type |-> "notify", args |-> <<level, event>>])
    BY NumSound
  <2>2. <<level, event>> \in Seq(Arguments) /\ "notify" \in Types
    BY Argument DEF Types
  <2> QED
    BY <2>1, <2>2 DEF Messages, AnyMessage
<1>4. ASSUME NEW type, NEW m \in Answers(type) PROVE m \in Messages
  <2>1. \/ \E data \in Blobs \cup {<<>>} : m = [type |-> "ok", args |-> <<data>>]
        \/ \E err \in Flags, suberr \in Flags, reason \in Names : m = [type |-> "err", args |-> <<err, suberr, reason>>]
    BY <1>4 DEF Answers
  <2> QED
    BY <1>1, <1>2, <2>1
<1> QED
  BY <1>3, <1>4

------------------------------------------------------------------------------
(* Every step keeps the invariant. *)

LEMMA OneDirection ==
  ASSUME ChannelInv, NEW d \in {"req", "rep"}, NEW n, Sane(n), chan' = [chan EXCEPT ![d] = n]
  PROVE  ChannelInv'
PROOF
<1>1. n \in Direction
  BY DEF Sane
<1>2. chan' \in [{"req", "rep"} -> Direction]
  BY <1>1 DEF ChannelInv
<1>3. \A e \in {"req", "rep"} : chan'[e] = IF e = d THEN n ELSE chan[e]
  BY DEF ChannelInv
<1>4. \A e \in {"req", "rep"} : Sane(chan'[e])
  BY <1>3 DEF ChannelInv
<1> QED
  BY <1>2, <1>4 DEF ChannelInv

LEMMA MessageSent ==
  ASSUME ChannelInv, NEW d \in {"req", "rep"}, NEW m \in Messages, chan' = MsgSend(d, m)
  PROVE  ChannelInv'
PROOF
<1>1. PICK n : n = Sent(chan[d], m)
  OBVIOUS
<1>2. Sane(n)
  BY <1>1, SendSane DEF ChannelInv
<1>3. chan' = [chan EXCEPT ![d] = n]
  BY <1>1 DEF ChannelInv, MsgSend, Sent
<1> QED
  BY <1>2, <1>3, OneDirection

LEMMA AllFresh ==
  ASSUME NEW f, f = [d \in {"req", "rep"} |-> Fresh]
  PROVE  f \in [{"req", "rep"} -> Direction] /\ \A d \in {"req", "rep"} : Sane(f[d])
PROOF
<1>1. Fresh \in Direction
  BY FreshSane DEF Sane
<1> QED
  BY <1>1, FreshSane

LEMMA ChannelInductive ==
  /\ ChannelInit => ChannelInv
  /\ ChannelInv /\ [ChannelNext]_channelVars => ChannelInv'
PROOF
<1>1. ChannelInit => ChannelInv
  BY AllFresh DEF ChannelInit, ChannelInv
<1> SUFFICES ASSUME ChannelInv, [ChannelNext]_channelVars PROVE ChannelInv'
  BY <1>1
<1>2. CASE Request
  <2>1. PICK m \in Messages : Rpc(m)
    BY <1>2, RequestIsMessage
  <2> QED
    BY <2>1, MessageSent DEF Rpc
<1>3. CASE Reply
  <2>1. PICK m \in Answers(chan["req"].got[1].type) : chan' = MsgSend("rep", m)
    BY <1>3 DEF Reply
  <2> QED
    BY <2>1, AnswerIsMessage, MessageSent
<1>4. CASE SendEvent
  <2>1. PICK level \in Flags, event \in Names : chan' = MsgSend("rep", [type |-> "notify", args |-> <<level, event>>])
    BY <1>4 DEF SendEvent
  <2> QED
    BY <2>1, AnswerIsMessage, MessageSent
<1>5. ASSUME RpcReturn \/ CloseStream PROVE ChannelInv'
  <2>1. chan' = chan \/ chan' = [d \in {"req", "rep"} |-> Fresh]
    BY <1>5 DEF RpcReturn, CloseStream
  <2> QED
    BY <2>1, AllFresh DEF ChannelInv
<1>6. CASE RcvRest
  <2>1. PICK odd \in {<<>>, <<[type |-> "odd", args |-> <<>>]>>} :
          chan' = [chan EXCEPT !["req"].pipe = <<>>, !["req"].got = @ \o odd]
    BY <1>6 DEF RcvRest
  <2>2. PICK c, n : c = chan["req"] /\ n = [c EXCEPT !.pipe = <<>>, !.got = @ \o odd]
    OBVIOUS
  <2>3. c.broken /\ Sane(c) /\ c \in Direction /\ c.got \in Seq(AnyMessage)
    BY <1>6, <2>2 DEF RcvRest, ChannelInv, Sane, Direction
  <2>4. odd \in Seq(AnyMessage)
    <3>1. PICK a, m : a = <<>> /\ m = [type |-> "odd", args |-> a]
      OBVIOUS
    <3>2. a \in Seq(Arguments)
      BY <3>1, EmptySeq
    <3>3. m \in AnyMessage
      BY <3>1, <3>2 DEF AnyMessage, Types
    <3>4. odd \in {<<>>, <<m>>}
      BY <3>1
    <3>5. <<>> \in Seq(AnyMessage) /\ <<m>> \in Seq(AnyMessage)
      BY <3>3
    <3> QED
      BY <3>4, <3>5
  <2>5. n \in Direction /\ n.broken = c.broken /\ n.hdr = c.hdr
    <3>1. <<>> \in Seq(WireCells) /\ c.got \o odd \in Seq(AnyMessage)
      BY <2>3, <2>4
    <3> QED
      BY <2>2, <2>3, <3>1 DEF Direction
  <2>6. Sane(n)
    BY <2>3, <2>5 DEF Sane
  <2>7. chan' = [chan EXCEPT !["req"] = n]
    BY <2>1, <2>2 DEF ChannelInv
  <2> QED
    BY <2>6, <2>7, OneDirection
<1>7. ASSUME NEW d \in {"req", "rep"}, WriteSome(d) PROVE ChannelInv'
  <2>1. PICK c, k : /\ c = chan[d]
                    /\ k = IF Len(c.writing) <= WholeWrite THEN Len(c.writing) ELSE WholeWrite
    OBVIOUS
  <2>2. PICK n : n = Written(c, k)
    OBVIOUS
  <2>3. Sane(c) /\ Len(c.writing) \in Nat
    BY <2>1 DEF ChannelInv, Sane, Direction
  <2>4. k \in 0..Len(c.writing)
    BY <2>1, <2>3, ChannelAssumption
  <2>5. Sane(n)
    BY <2>2, <2>3, <2>4, WriteSane
  <2>6. chan' = [chan EXCEPT ![d] = n]
    BY <1>7, <2>1, <2>2 DEF ChannelInv, WriteSome, Written
  <2> QED
    BY <2>5, <2>6, OneDirection
<1>8. ASSUME NEW d \in {"req", "rep"}, RcvHeader(d) PROVE ChannelInv'
  <2>1. PICK c, n : c = chan[d] /\ n = HeaderRead(c)
    OBVIOUS
  <2>2. Sane(c) /\ ~c.broken /\ c.hdr = NoHdr /\ c.pipe # <<>>
    BY <1>8, <2>1 DEF ChannelInv, RcvHeader
  <2>3. Sane(n)
    BY <2>1, <2>2, HeaderSane
  <2>4. chan' = [chan EXCEPT ![d] = n]
    BY <1>8, <2>1 DEF ChannelInv, RcvHeader, HeaderRead
  <2> QED
    BY <2>3, <2>4, OneDirection
<1>9. ASSUME NEW d \in {"req", "rep"}, RcvBody(d) PROVE ChannelInv'
  <2>1. PICK c, want, n : /\ c = chan[d] /\ want = c.hdr.len - 1
                          /\ n = IF want <= Len(c.pipe) THEN want ELSE Len(c.pipe)
    OBVIOUS
  <2>2. Sane(c) /\ c.hdr # NoHdr
    BY <1>9, <2>1 DEF ChannelInv, RcvBody
  <2>3. /\ want \in Nat /\ Len(c.pipe) \in Nat
        /\ want <= Len(c.pipe) => Sane(BodyRead(c, want))
        /\ \A j \in 0..Len(c.pipe) : Sane(BodyLost(c, j))
    <3>1. /\ c.hdr.len \in Nat \ {0} /\ Len(c.pipe) \in Nat
          /\ c.hdr.len - 1 <= Len(c.pipe) => Sane(BodyRead(c, c.hdr.len - 1))
          /\ \A j \in 0..Len(c.pipe) : Sane(BodyLost(c, j))
      BY <2>2, BodySane
    <3> QED
      BY <2>1, <3>1
  <2>4. CASE n < want
    <3>1. chan' = [chan EXCEPT ![d] = BodyLost(c, n)]
      BY <1>9, <2>1, <2>4 DEF ChannelInv, RcvBody, BodyLost
    <3>2. Sane(BodyLost(c, n))
      BY <2>1, <2>3, <2>4
    <3> QED
      BY <3>1, <3>2, OneDirection
  <2>5. CASE ~(n < want)
    <3>1. n = want /\ want <= Len(c.pipe)
      BY <2>1, <2>3, <2>5
    <3>2. chan' = [chan EXCEPT ![d] = BodyRead(c, n)]
      <4>1. PICK r, rest : r = Read(c, n) /\ rest = SubSeq(c.pipe, n + 1, Len(c.pipe))
        OBVIOUS
      <4>2. r = IF chan[d].hdr.cut THEN [type |-> chan[d].hdr.type, args |-> <<>>]
                ELSE Decode(chan[d].hdr.type, SubSeq(chan[d].pipe, 1, n))
        BY <2>1, <4>1 DEF Read
      <4>3. chan' = [[chan EXCEPT ![d].pipe = rest, ![d].hdr = NoHdr] EXCEPT ![d].got = Append(@, r)]
        BY <1>9, <2>1, <2>5, <4>1, <4>2, Zenon DEF RcvBody
      <4>4. BodyRead(c, n) = [c EXCEPT !.pipe = rest, !.hdr = NoHdr, !.got = Append(@, r)]
        BY <4>1 DEF BodyRead
      <4>5. PICK u, w : u = [c EXCEPT !.pipe = rest, !.hdr = NoHdr] /\ w = [u EXCEPT !.got = Append(@, r)]
        OBVIOUS
      <4>6. c \in Direction
        BY <2>2 DEF Sane
      <4>7. w = BodyRead(c, n)
        BY <4>4, <4>5, <4>6 DEF Direction
      <4>8. PICK t : t = [chan EXCEPT ![d].pipe = rest, ![d].hdr = NoHdr]
        OBVIOUS
      <4>9. t = [chan EXCEPT ![d] = u] /\ t[d] = u
        BY <2>1, <4>5, <4>8 DEF ChannelInv
      <4>10. chan' = [t EXCEPT ![d] = w]
        BY <4>3, <4>5, <4>8, <4>9
      <4>11. [t EXCEPT ![d] = w] = [chan EXCEPT ![d] = w]
        BY <4>9 DEF ChannelInv
      <4> QED
        BY <4>7, <4>10, <4>11
    <3>3. Sane(BodyRead(c, n))
      BY <2>3, <3>1
    <3> QED
      BY <3>2, <3>3, OneDirection
  <2> QED
    BY <2>4, <2>5
<1>10. CASE UNCHANGED channelVars
  BY <1>10 DEF channelVars, ChannelInv
<1> QED
  BY <1>2, <1>3, <1>4, <1>5, <1>6, <1>7, <1>8, <1>9, <1>10 DEF ChannelNext

(***************************************************************************)
(* Requests, answers and notifications are never mixed up, whatever their  *)
(* arguments, however long they are and in whatever pieces they are        *)
(* written: a reader that no piece of a body has led astray finds a header *)
(* where it looks for one, and what it decodes is what was sent as long as *)
(* op_len does not wrap around.                                            *)
(***************************************************************************)
THEOREM MessagesStayIntact == ChannelSpec => []MessagesIntact
PROOF
<1>1. ChannelSpec => []ChannelInv
  BY ChannelInductive, PTL DEF ChannelSpec
<1> QED
  BY <1>1, ChannelInvIntact, PTL
===============================================================================
