----------------------------- MODULE ShellProofs -----------------------------
(***************************************************************************)
(* Proofs about one CLI process: what its plugins and syntax files bind,   *)
(* where its commands are looked for, and what the user finds at the       *)
(* prompt, for any plugins, syntax files, modes and syntax trees.          *)
(***************************************************************************)
EXTENDS CliShell, SequenceLemmas, SequenceTheorems

------------------------------------------------------------------------------
(* Sequences that are made of sets, searched and reversed. *)

LEMMA SetToSeqFacts ==
  ASSUME NEW S, IsFiniteSet(S)
  PROVE  SetToSeq(S) \in Seq(S) /\ ToSet(SetToSeq(S)) = S
PROOF
<1>1. PICK n : n = Cardinality(S) /\ n \in Nat
  BY FS_CardinalityType
<1>2. PICK g \in Bijection(1..n, S) : TRUE
  BY <1>1, FS_CardinalityType DEF ExistsBijection
<1>3. g \in [1..n -> S] /\ IsInjective(g)
  BY <1>2 DEF Bijection, Injection
<1>4. PICK f : f = SetToSeq(S)
  OBVIOUS
<1>5. f \in [1..n -> S] /\ IsInjective(f)
  BY <1>1, <1>3, <1>4 DEF SetToSeq
<1>6. f \in Injection(1..n, S)
  BY <1>5 DEF Injection
<1>7. IsFiniteSet(1..n) /\ Cardinality(1..n) = n
  <2>1. 1 \in Int /\ n \in Int
    BY <1>1
  <2> QED
    BY <1>1, <2>1, FS_Interval
<1>8. f \in Surjection(1..n, S)
  BY <1>1, <1>6, <1>7, FS_Injection
<1>9. f \in Seq(S) /\ DOMAIN f = 1..n
  BY <1>1, <1>5
<1>10. ToSet(f) = S
  BY <1>5, <1>8, <1>9 DEF ToSet, Surjection
<1> QED
  BY <1>4, <1>9, <1>10

LEMMA MinFacts ==
  ASSUME NEW I, I \subseteq Nat, I # {}
  PROVE  Min(I) \in I /\ \A i \in I : Min(I) <= i
PROOF
<1>1. \E n \in I : \A m \in I : n <= m
  BY LeastNat
<1> QED
  BY <1>1 DEF Min

LEMMA ReverseFacts ==
  ASSUME NEW S, NEW s \in Seq(S)
  PROVE  /\ Reverse(s) \in Seq(S) /\ Len(Reverse(s)) = Len(s) /\ Len(s) \in Nat
         /\ \A i \in 1..Len(s) : Reverse(s)[i] = s[Len(s) - i + 1]
         /\ ToSet(Reverse(s)) = ToSet(s)
PROOF
<1>1. Len(s) \in Nat /\ DOMAIN s = 1..Len(s) /\ \A i \in 1..Len(s) : s[i] \in S
  OBVIOUS
<1>2. \A i \in 1..Len(s) : Len(s) - i + 1 \in 1..Len(s) /\ Len(s) - (Len(s) - i + 1) + 1 = i
  BY <1>1
<1>3. Reverse(s) \in [1..Len(s) -> S]
  BY <1>1, <1>2 DEF Reverse
<1>4. Reverse(s) \in Seq(S) /\ Len(Reverse(s)) = Len(s) /\ DOMAIN Reverse(s) = 1..Len(s)
  BY <1>1, <1>3
<1>5. \A i \in 1..Len(s) : Reverse(s)[i] = s[Len(s) - i + 1]
  BY DEF Reverse
<1>6. ToSet(Reverse(s)) = ToSet(s)
  <2>1. ASSUME NEW x \in ToSet(s) PROVE x \in ToSet(Reverse(s))
    <3>1. PICK i \in 1..Len(s) : s[i] = x
      BY <1>1, <2>1 DEF ToSet
    <3>2. Reverse(s)[Len(s) - i + 1] = x
      BY <1>2, <1>5, <3>1
    <3> QED
      BY <1>2, <1>4, <3>2 DEF ToSet
  <2>2. ASSUME NEW x \in ToSet(Reverse(s)) PROVE x \in ToSet(s)
    <3>1. PICK i \in 1..Len(s) : Reverse(s)[i] = x
      BY <1>4, <2>2 DEF ToSet
    <3> QED
      BY <1>1, <1>2, <1>5, <3>1 DEF ToSet
  <2> QED
    BY <2>1, <2>2
<1> QED
  BY <1>1, <1>4, <1>5, <1>6

LEMMA ReverseAppend ==
  ASSUME NEW S, NEW s \in Seq(S), NEW x \in S
  PROVE  /\ Append(s, x) \in Seq(S) /\ ToSet(Append(s, x)) = ToSet(s) \cup {x}
         /\ Reverse(Append(s, x)) = <<x>> \o Reverse(s)
PROOF
<1>1. PICK a : a = Append(s, x)
  OBVIOUS
<1>2. /\ a \in Seq(S) /\ Len(a) = Len(s) + 1 /\ Len(s) \in Nat /\ DOMAIN a = 1..(Len(s) + 1) /\ DOMAIN s = 1..Len(s)
      /\ a[Len(s) + 1] = x /\ \A i \in 1..Len(s) : a[i] = s[i]
  BY <1>1
<1>3. ToSet(a) = ToSet(s) \cup {x}
  <2>1. \A i \in 1..(Len(s) + 1) : i \in 1..Len(s) \/ i = Len(s) + 1
    BY <1>2
  <2>2. Len(s) + 1 \in 1..(Len(s) + 1) /\ 1..Len(s) \subseteq 1..(Len(s) + 1)
    BY <1>2
  <2> QED
    BY <1>2, <2>1, <2>2 DEF ToSet
<1>4. PICK r, q, o : r = Reverse(s) /\ q = Reverse(a) /\ o = <<x>> \o r
  OBVIOUS
<1>5. r \in Seq(S) /\ Len(r) = Len(s) /\ \A i \in 1..Len(s) : r[i] = s[Len(s) - i + 1]
  BY <1>4, ReverseFacts
<1>6. q \in Seq(S) /\ Len(q) = Len(s) + 1 /\ \A i \in 1..(Len(s) + 1) : q[i] = a[Len(s) + 1 - i + 1]
  BY <1>2, <1>4, ReverseFacts
<1>7. o \in Seq(S) /\ Len(o) = Len(s) + 1 /\ o[1] = x /\ \A i \in 1..Len(s) : o[i + 1] = r[i]
  BY <1>4, <1>5
<1>8. \A i \in 1..(Len(s) + 1) : q[i] = o[i]
  <2> SUFFICES ASSUME NEW i \in 1..(Len(s) + 1) PROVE q[i] = o[i]
    OBVIOUS
  <2>1. CASE i = 1
    BY <1>2, <1>6, <1>7, <2>1
  <2>2. CASE i # 1
    <3>1. i - 1 \in 1..Len(s) /\ (i - 1) + 1 = i /\ Len(s) + 1 - i + 1 = Len(s) - (i - 1) + 1
          /\ Len(s) - (i - 1) + 1 \in 1..Len(s)
      BY <1>2, <2>2
    <3>2. o[i] = s[Len(s) - (i - 1) + 1]
      BY <1>5, <1>7, <3>1
    <3>3. q[i] = a[Len(s) - (i - 1) + 1]
      BY <1>6, <3>1
    <3> QED
      BY <1>2, <3>1, <3>2, <3>3
  <2> QED
    BY <2>1, <2>2
<1>9. q = o
  BY <1>6, <1>7, <1>8, SeqEqual
<1> QED
  BY <1>1, <1>2, <1>3, <1>4, <1>9

LEMMA ConcatSet ==
  ASSUME NEW S, NEW s \in Seq(S), NEW t \in Seq(S)
  PROVE  s \o t \in Seq(S) /\ ToSet(s \o t) = ToSet(s) \cup ToSet(t)
PROOF
<1>1. PICK u : u = s \o t
  OBVIOUS
<1>2. /\ u \in Seq(S) /\ Len(u) = Len(s) + Len(t) /\ Len(s) \in Nat /\ Len(t) \in Nat
      /\ DOMAIN u = 1..Len(u) /\ DOMAIN s = 1..Len(s) /\ DOMAIN t = 1..Len(t)
  BY <1>1
<1>3. /\ \A i \in 1..Len(s) : i \in 1..Len(u) /\ u[i] = s[i]
      /\ \A i \in 1..Len(t) : Len(s) + i \in 1..Len(u) /\ u[Len(s) + i] = t[i]
  BY <1>1, <1>2
<1>4. \A i \in 1..Len(u) : i \in 1..Len(s) \/ (i - Len(s) \in 1..Len(t) /\ Len(s) + (i - Len(s)) = i)
  BY <1>2
<1>5. ToSet(u) \subseteq ToSet(s) \cup ToSet(t)
  <2> SUFFICES ASSUME NEW x \in ToSet(u), x \notin ToSet(s) PROVE x \in ToSet(t)
    OBVIOUS
  <2>1. PICK i \in 1..Len(u) : u[i] = x
    BY <1>2 DEF ToSet
  <2>2. i \notin 1..Len(s)
    BY <1>2, <1>3, <2>1 DEF ToSet
  <2>3. i - Len(s) \in 1..Len(t) /\ t[i - Len(s)] = x
    BY <1>3, <1>4, <2>1, <2>2
  <2> QED
    BY <1>2, <2>3 DEF ToSet
<1>6. ToSet(s) \cup ToSet(t) \subseteq ToSet(u)
  <2>1. \A x \in ToSet(s) : \E i \in 1..Len(u) : u[i] = x
    BY <1>2, <1>3 DEF ToSet
  <2>2. \A x \in ToSet(t) : \E i \in 1..Len(u) : u[i] = x
    BY <1>2, <1>3 DEF ToSet
  <2>3. \A x : (\E i \in 1..Len(u) : u[i] = x) => x \in ToSet(u)
    BY <1>2 DEF ToSet
  <2> QED
    BY <2>1, <2>2, <2>3
<1> QED
  BY <1>1, <1>2, <1>5, <1>6

LEMMA HeadTailSet ==
  ASSUME NEW S, NEW s \in Seq(S), s # <<>>
  PROVE  Head(s) \in S /\ Tail(s) \in Seq(S) /\ ToSet(s) = {Head(s)} \cup ToSet(Tail(s))
PROOF
<1>1. PICK h, t : h = Head(s) /\ t = Tail(s)
  OBVIOUS
<1>2. /\ Len(s) \in Nat \ {0} /\ DOMAIN s = 1..Len(s) /\ h = s[1] /\ h \in S
      /\ t \in Seq(S) /\ Len(t) = Len(s) - 1 /\ DOMAIN t = 1..(Len(s) - 1)
      /\ \A i \in 1..Len(t) : t[i] = s[i + 1]
  BY <1>1
<1>3. \A i \in 1..Len(s) : i = 1 \/ (i - 1 \in 1..(Len(s) - 1) /\ (i - 1) + 1 = i)
  BY <1>2
<1>4. \A i \in 1..(Len(s) - 1) : i + 1 \in 1..Len(s)
  BY <1>2
<1>5. ToSet(s) \subseteq {h} \cup ToSet(t)
  <2> SUFFICES ASSUME NEW x \in ToSet(s), x # h PROVE x \in ToSet(t)
    OBVIOUS
  <2>1. PICK i \in 1..Len(s) : s[i] = x
    BY <1>2 DEF ToSet
  <2>2. i - 1 \in 1..(Len(s) - 1) /\ t[i - 1] = x
    BY <1>2, <1>3, <2>1
  <2> QED
    BY <1>2, <2>2 DEF ToSet
<1>6. {h} \cup ToSet(t) \subseteq ToSet(s)
  BY <1>2, <1>4 DEF ToSet
<1> QED
  BY <1>1, <1>2, <1>5, <1>6

------------------------------------------------------------------------------
(* What a step of the CLI does to the plugins and the modes. *)

Loading == {"sys", "app"}
Later == {"mode", "candidate", "prompt", "parse", "eval", "shell", "child", "dropped"}

Unloads ==
  /\ clipc \notin {"ended", "dropped"} /\ clipc' = "ended"
  /\ SyntaxUnload /\ UNCHANGED <<disk, opened>>
Appends ==
  /\ clipc = "files" /\ toload # <<>> /\ Loadable(Head(toload))
  /\ modes' = SyntaxAppend(Head(toload)) /\ toload' = Tail(toload)
  /\ UNCHANGED <<clipc, disk, plugins, hooked, trees, opened, closed>>
Grows ==
  /\ clipc = "files" /\ toload = <<>> /\ clipc' = "mode"
  /\ UNCHANGED <<disk, toload, plugins, modes, opened, closed>>
Switches ==
  /\ clipc \in Later /\ clipc' \in Later
  /\ \E m \in CliModes : SetSyntaxMode(m)
  /\ UNCHANGED <<disk, toload, plugins, opened, closed>>
Stays ==
  /\ clipc' = clipc \/ (clipc \in Later /\ clipc' \in Later)
  /\ UNCHANGED <<disk, toload, plugins, modes, opened, closed>>

LEMMA Shape ==
  [CliNext]_cliVars => PluginLoad \/ DirLoaded \/ Appends \/ Grows \/ Switches \/ Unloads \/ Stays
PROOF
<1> SUFFICES ASSUME [CliNext]_cliVars
             PROVE  PluginLoad \/ DirLoaded \/ Appends \/ Grows \/ Switches \/ Unloads \/ Stays
  OBVIOUS
<1>1. CASE UNCHANGED cliVars
  BY <1>1 DEF cliVars, loadVars, Stays
<1>2. CASE PluginLoadFails \/ CliEof \/ ParseError \/ EvalQuit
  BY <1>2 DEF PluginLoadFails, SyntaxLoadFails, CliEof, ParseError, EvalQuit, Terminate, Unloads
<1>3. CASE LoadSyntax
  BY <1>3 DEF LoadSyntax, Appends, SyntaxLoadFails, Unloads
<1>4. CASE GenParseTrees
  BY <1>4 DEF GenParseTrees, Grows, SyntaxLoadFails, Unloads
<1>5. CASE InitCandidate \/ SigTerm
  BY <1>5 DEF InitCandidate, SigTerm, Stays, Later, loadVars
<1>6. ASSUME NEW m \in StartModes, StartMode(m) PROVE Switches \/ Unloads
  BY <1>6, CliShellAssumption DEF StartMode, Terminate, Switches, Unloads, Later
<1>7. ASSUME NEW w, Cliread(w) PROVE Stays
  BY <1>7 DEF Cliread, Stays, Later, loadVars
<1>8. CASE NoTree
  BY <1>8 DEF NoTree, Terminate, BackToPrompt, Unloads, Stays, Later, loadVars
<1>9. CASE NoMatch \/ Ambiguous \/ Match
  BY <1>9 DEF NoMatch, Ambiguous, Match, BackToPrompt, Stays, Later, loadVars
<1>10. CASE EvalPlain
  BY <1>10 DEF EvalPlain, BackToPrompt, Stays, Later, loadVars
<1>11. ASSUME NEW m \in CliModes, EvalMode(m) PROVE Switches
  BY <1>11 DEF EvalMode, BackToPrompt, Switches, Later
<1>12. ASSUME NEW m, NEW path, Ptpop(m) \/ Ptpush(m, path) PROVE Stays
  BY <1>12 DEF Ptpop, Ptpush, BackToPrompt, Stays, Later, loadVars
<1>13. CASE StartShell \/ ShellDone \/ ProcRun \/ ProcRunDone
  BY <1>13 DEF StartShell, ShellDone, ProcRun, ProcRunDone, BackToPrompt, Stays, Later, loadVars
<1> QED
  BY <1>1, <1>2, <1>3, <1>4, <1>5, <1>6, <1>7, <1>8, <1>9, <1>10, <1>11, <1>12, <1>13 DEF CliNext

------------------------------------------------------------------------------
(***************************************************************************)
(* The plugins.  The list is what was opened, the last one first; those of *)
(* the system come before those of the application, and from the syntax    *)
(* files on every plugin of the application is there.                      *)
(***************************************************************************)
Of(dir) == {p \in disk : p[1] = dir}

PluginInv ==
  /\ disk \in SUBSET PluginFiles /\ opened \in Seq(disk)
  /\ clipc \in Loading \cup Later \cup {"files", "ended"}
  /\ clipc # "ended" => plugins = Reverse(opened) /\ closed = <<>>
  /\ clipc = "ended" => closed = Reverse(opened)
  /\ \A i, j \in 1..Len(opened) : i < j /\ opened[i][1] = "app" => opened[j][1] = "app"
  /\ clipc = "sys" => \A i \in 1..Len(opened) : opened[i][1] = "sys"
  /\ clipc \in Loading => toload \in Seq(Of(clipc))
  /\ clipc = "app" => Of("app") \subseteq ToSet(opened) \cup ToSet(toload)
  /\ clipc \notin Loading \cup {"ended"} => Of("app") \subseteq ToSet(opened)

LEMMA MasterFirstFacts ==
  ASSUME disk \in SUBSET PluginFiles, NEW dir
  PROVE  MasterFirst(dir) \in Seq(Of(dir)) /\ ToSet(MasterFirst(dir)) = Of(dir)
PROOF
<1>1. PICK here, master : /\ here = {p \in disk : p[1] = dir}
                          /\ master = here \cap {<<dir, "master">>}
  OBVIOUS
<1>2. IsFiniteSet(master) /\ IsFiniteSet(here \ master)
  <2>1. IsFiniteSet(PluginFiles) /\ master \in SUBSET PluginFiles /\ here \ master \in SUBSET PluginFiles
    BY <1>1, CliShellAssumption
  <2> QED
    BY <2>1, FS_Subset
<1>3. PICK s, t : s = SetToSeq(master) /\ t = SetToSeq(here \ master)
  OBVIOUS
<1>4. s \in Seq(master) /\ ToSet(s) = master /\ t \in Seq(here \ master) /\ ToSet(t) = here \ master
  BY <1>2, <1>3, SetToSeqFacts
<1>5. s \in Seq(here) /\ t \in Seq(here)
  BY <1>1, <1>4, SeqMonotonic
<1>6. s \o t \in Seq(here) /\ ToSet(s \o t) = ToSet(s) \cup ToSet(t)
  BY <1>5, ConcatSet
<1>7. MasterFirst(dir) = s \o t /\ Of(dir) = here /\ master \subseteq here
  BY <1>1, <1>3 DEF MasterFirst, Of
<1> QED
  BY <1>4, <1>6, <1>7

THEOREM PluginsKept == ShellSpec => []PluginInv
PROOF
<1>1. CliInit => PluginInv
  <2> SUFFICES ASSUME CliInit PROVE PluginInv
    OBVIOUS
  <2>1. disk \in SUBSET PluginFiles /\ clipc = "sys" /\ opened = <<>> /\ plugins = <<>> /\ closed = <<>>
    BY DEF CliInit
  <2>2. toload \in Seq(Of("sys"))
    BY <2>1, MasterFirstFacts DEF CliInit
  <2>3. opened \in Seq(disk) /\ Len(opened) = 0 /\ Reverse(opened) = <<>>
    <3>1. \A i : i \notin 1..0
      OBVIOUS
    <3> QED
      BY <2>1, <3>1 DEF Reverse
  <2> QED
    BY <2>1, <2>2, <2>3 DEF PluginInv, Loading, Later
<1>2. PluginInv /\ [CliNext]_cliVars => PluginInv'
  <2> SUFFICES ASSUME PluginInv, [CliNext]_cliVars PROVE PluginInv'
    OBVIOUS
  <2> USE DEF PluginInv
  <2>1. CASE PluginLoad
    <3>1. PICK p : p = Head(toload)
      OBVIOUS
    <3>2. clipc \in Loading /\ toload \in Seq(Of(clipc)) /\ toload # <<>>
      BY <2>1 DEF PluginLoad, Loading
    <3>3. p \in Of(clipc) /\ Tail(toload) \in Seq(Of(clipc)) /\ ToSet(toload) = {p} \cup ToSet(Tail(toload))
      BY <3>1, <3>2, HeadTailSet
    <3>4. p \in disk /\ p[1] = clipc
      BY <3>3 DEF Of
    <3>5. /\ opened' = Append(opened, p) /\ plugins' = <<p>> \o plugins /\ toload' = Tail(toload)
          /\ clipc' = clipc /\ disk' = disk /\ closed' = closed
      BY <2>1, <3>1 DEF PluginLoad, Insq
    <3>6. /\ opened' \in Seq(disk) /\ ToSet(opened') = ToSet(opened) \cup {p}
          /\ Reverse(opened') = <<p>> \o Reverse(opened)
      BY <3>4, <3>5, ReverseAppend
    <3>7. /\ Len(opened) \in Nat /\ Len(opened') = Len(opened) + 1 /\ opened'[Len(opened) + 1] = p
          /\ \A i \in 1..Len(opened) : opened'[i] = opened[i]
      BY <3>4, <3>5
    <3>8. \A i \in 1..Len(opened') : i \in 1..Len(opened) \/ i = Len(opened) + 1
      BY <3>7
    <3>9. \A i, j \in 1..Len(opened') : i < j /\ opened'[i][1] = "app" => opened'[j][1] = "app"
      <4> SUFFICES ASSUME NEW i \in 1..Len(opened'), NEW j \in 1..Len(opened'), i < j, opened'[i][1] = "app"
                   PROVE  opened'[j][1] = "app"
        OBVIOUS
      <4>1. i \in 1..Len(opened) /\ opened[i][1] = "app"
        BY <3>7, <3>8
      <4>2. CASE j \in 1..Len(opened)
        BY <3>7, <4>1, <4>2
      <4>3. CASE j = Len(opened) + 1
        BY <3>2, <3>4, <3>7, <4>1, <4>3 DEF Loading
      <4> QED
        BY <3>8, <4>2, <4>3
    <3>10. clipc = "sys" => \A i \in 1..Len(opened') : opened'[i][1] = "sys"
      BY <3>4, <3>7, <3>8
    <3>11. Of(clipc)' = Of(clipc) /\ Of("app")' = Of("app")
      BY <3>5 DEF Of
    <3>12. clipc = "app" => Of("app") \subseteq ToSet(opened') \cup ToSet(toload')
      BY <3>3, <3>5, <3>6
    <3> QED
      BY <3>2, <3>3, <3>5, <3>6, <3>9, <3>10, <3>11, <3>12 DEF Loading
  <2>2. CASE DirLoaded
    <3>1. toload = <<>> /\ UNCHANGED <<disk, plugins, opened, closed>> /\ Of("app")' = Of("app")
      BY <2>2 DEF DirLoaded, Of
    <3>2. CASE clipc = "sys"
      <4>1. clipc' = "app" /\ toload' = MasterFirst("app")
        BY <2>2, <3>2 DEF DirLoaded
      <4>2. toload' \in Seq(Of("app")) /\ ToSet(toload') = Of("app")
        BY <4>1, MasterFirstFacts
      <4> QED
        BY <3>1, <3>2, <4>1, <4>2 DEF Loading
    <3>3. CASE clipc = "app"
      <4>1. clipc' = "files"
        BY <2>2, <3>3 DEF DirLoaded
      <4>2. ToSet(toload) = {}
        BY <3>1 DEF ToSet
      <4> QED
        BY <3>1, <3>3, <4>1, <4>2 DEF Loading
    <3> QED
      BY <2>2, <3>2, <3>3 DEF DirLoaded
  <2>3. CASE Unloads
    <3>1. clipc # "ended" /\ clipc' = "ended" /\ closed' = closed \o plugins /\ UNCHANGED <<disk, opened>>
      BY <2>3 DEF Unloads, SyntaxUnload
    <3>2. Reverse(opened) \in Seq(disk)
      BY ReverseFacts
    <3>3. closed' = Reverse(opened)
      BY <3>1, <3>2
    <3> QED
      BY <3>1, <3>3 DEF Loading, Later
  <2>4. CASE Appends \/ Grows \/ Switches \/ Stays
    <3>1. UNCHANGED <<disk, plugins, opened, closed>> /\ Of("app")' = Of("app") /\ Of(clipc)' = Of(clipc')
      BY <2>4 DEF Appends, Grows, Switches, Stays, Of
    <3>2. \/ clipc' = clipc /\ (toload' = toload \/ clipc = "files")
          \/ clipc \in Later \cup {"files"} /\ clipc' \in Later
      BY <2>4 DEF Appends, Grows, Switches, Stays, Later
    <3> QED
      BY <3>1, <3>2 DEF Loading, Later
  <2> QED
    BY <2>1, <2>2, <2>3, <2>4, Shape
<1> QED
  BY <1>1, <1>2, PTL DEF ShellSpec

------------------------------------------------------------------------------
(***************************************************************************)
(* The syntax files.  The modes hold the commands of the files that are    *)
(* loaded, each bound to a function of an open plugin; the first file that *)
(* brings a command to a mode binds it, to the application's plugin when   *)
(* there is one of the name that has the function.                         *)
(***************************************************************************)
Files == 1..Len(CliFiles)
App(f) == <<"app", CliFiles[f].plugin>>
Serves(f, c) == CliFiles[f].plugin # NoPlugin /\ App(f) \in disk /\ c \in Exports[App(f)]

FileRecords == [modes : SUBSET CliModes, plugin : STRING \cup {NoPlugin}, cmds : SUBSET STRING]

\* The commands of the first n files, and no others, are in the modes.
Loaded(n) ==
  /\ \A m \in DOMAIN modes : \A c \in DOMAIN modes[m] :
       \E f \in Files : f <= n /\ m \in CliFiles[f].modes /\ c \in CliFiles[f].cmds
  /\ \A f \in Files : f <= n => \A m \in CliFiles[f].modes : \A c \in CliFiles[f].cmds :
       /\ m \in DOMAIN modes /\ c \in DOMAIN modes[m]
       /\ Brings(f, m, c) /\ Serves(f, c) => modes[m][c] = App(f)

FilesInv ==
  /\ DOMAIN modes \subseteq CliModes
  /\ \A m \in DOMAIN modes : \A c \in DOMAIN modes[m] :
       modes[m][c] \in ToSet(opened) /\ c \in Exports[modes[m][c]]
  /\ clipc \in Loading \cup {"ended"} => modes = <<>>
  /\ clipc \notin Loading \cup {"ended"} =>
       /\ \E n \in 0..Len(CliFiles) : toload = SubSeq(CliFiles, n + 1, Len(CliFiles)) /\ Loaded(n)
       /\ clipc # "files" => toload = <<>>

LEMMA FilesFacts ==
  /\ CliFiles \in Seq(FileRecords) /\ Len(CliFiles) \in Nat /\ DOMAIN CliFiles = Files
  /\ \A f \in Files : /\ CliFiles[f] \in FileRecords
                      /\ CliFiles[f].modes \subseteq CliModes
                      /\ CliFiles[f].plugin # NoPlugin => CliFiles[f].plugin \in STRING
PROOF
<1>1. CliFiles \in Seq(FileRecords)
  BY CliShellAssumption DEF FileRecords
<1>2. Len(CliFiles) \in Nat /\ DOMAIN CliFiles = Files
  BY <1>1 DEF Files
<1>3. \A f \in Files : CliFiles[f] \in FileRecords
  BY <1>1, <1>2 DEF Files
<1> QED
  BY <1>1, <1>2, <1>3 DEF FileRecords

\* A plugin that is found is open, and is the application's if it has one.
LEMMA FindFacts ==
  ASSUME PluginInv, clipc = "files", NEW name \in STRING
  PROVE  /\ PluginFind(name) # NoPlugin => PluginFind(name) \in ToSet(opened)
         /\ <<"app", name>> \in ToSet(opened) => PluginFind(name) = <<"app", name>>
PROOF
<1>1. PICK I : I = {i \in 1..Len(plugins) : plugins[i][2] = name}
  OBVIOUS
<1>2. PluginFind(name) = IF I # {} THEN (IF Min(I) = 0 THEN NoPlugin ELSE plugins[Min(I)]) ELSE NoPlugin
  BY <1>1 DEF PluginFind, SelectInSeq
<1>3. /\ opened \in Seq(disk) /\ plugins = Reverse(opened) /\ disk \subseteq PluginFiles
      /\ \A i, j \in 1..Len(opened) : i < j /\ opened[i][1] = "app" => opened[j][1] = "app"
  BY DEF PluginInv
<1>4. /\ plugins \in Seq(disk) /\ Len(plugins) = Len(opened) /\ Len(opened) \in Nat
      /\ \A i \in 1..Len(opened) : plugins[i] = opened[Len(opened) - i + 1]
      /\ ToSet(plugins) = ToSet(opened)
  BY <1>3, ReverseFacts
<1>5. DOMAIN plugins = 1..Len(plugins) /\ \A i \in 1..Len(plugins) : plugins[i] \in disk
  BY <1>4
<1>6. CASE I = {}
  <2>1. PluginFind(name) = NoPlugin
    BY <1>2, <1>6
  <2>2. \A p \in ToSet(plugins) : p[2] # name
    BY <1>1, <1>5, <1>6 DEF ToSet
  <2>3. <<"app", name>>[2] = name
    OBVIOUS
  <2> QED
    BY <1>4, <2>1, <2>2, <2>3
<1>7. CASE I # {}
  <2>1. PICK k : k = Min(I)
    OBVIOUS
  <2>2. I \subseteq Nat
    BY <1>1, <1>4
  <2>3. k \in I /\ \A i \in I : k <= i
    BY <1>7, <2>1, <2>2, MinFacts
  <2>4. k \in 1..Len(plugins) /\ k # 0 /\ plugins[k][2] = name /\ PluginFind(name) = plugins[k]
    <3>1. k \in 1..Len(plugins) /\ plugins[k][2] = name
      BY <1>1, <2>3
    <3>2. k # 0
      BY <1>4, <3>1
    <3> QED
      BY <1>2, <1>7, <2>1, <3>1, <3>2
  <2>5. plugins[k] \in ToSet(opened)
    BY <1>4, <1>5, <2>4 DEF ToSet
  <2>6. ASSUME <<"app", name>> \in ToSet(opened) PROVE plugins[k] = <<"app", name>>
    <3>1. PICK j \in 1..Len(plugins) : plugins[j] = <<"app", name>>
      BY <1>4, <1>5, <2>6 DEF ToSet
    <3>2. j \in I
      BY <1>1, <3>1
    <3>3. k <= j
      BY <2>3, <3>2
    <3>4. plugins[k][1] = "app"
      <4>1. CASE k = j
        BY <3>1, <4>1
      <4>2. CASE k < j
        <5>1. /\ Len(opened) - j + 1 \in 1..Len(opened) /\ Len(opened) - k + 1 \in 1..Len(opened)
              /\ Len(opened) - j + 1 < Len(opened) - k + 1
          BY <1>4, <2>4, <3>1, <4>2
        <5>2. opened[Len(opened) - j + 1][1] = "app"
          BY <1>4, <3>1
        <5>3. opened[Len(opened) - k + 1][1] = "app"
          BY <1>3, <5>1, <5>2
        <5> QED
          BY <1>4, <2>4, <5>3
      <4> QED
        BY <1>4, <2>4, <3>1, <3>3, <4>1, <4>2
    <3>5. plugins[k] \in {"sys", "app"} \X STRING
      BY <1>3, <1>5, <2>4, CliShellAssumption
    <3> QED
      BY <2>4, <3>4, <3>5
  <2> QED
    BY <2>4, <2>5, <2>6
<1> QED
  BY <1>6, <1>7

\* A function that is found is defined by an open plugin: the given one, if it
\* has the function.
LEMMA Str2fnFacts ==
  ASSUME PluginInv, NEW handle \in ToSet(opened) \cup {NoPlugin}, NEW fname
  PROVE  LET p == LoadStr2fn(handle, fname)
         IN /\ p # NoPlugin => p \in ToSet(opened) /\ fname \in Exports[p]
            /\ handle # NoPlugin /\ fname \in Exports[handle] => p = handle
PROOF
<1>1. PICK I : I = {i \in 1..Len(opened) : opened[i][2] = "master" /\ fname \in Exports[opened[i]]}
  OBVIOUS
<1>2. LoadStr2fn(handle, fname) =
        IF handle # NoPlugin /\ fname \in Exports[handle] THEN handle
        ELSE IF I # {} THEN (IF Min(I) = 0 THEN NoPlugin ELSE opened[Min(I)]) ELSE NoPlugin
  BY <1>1 DEF LoadStr2fn, SelectInSeq
<1>3. opened \in Seq(disk) /\ Len(opened) \in Nat /\ DOMAIN opened = 1..Len(opened)
  BY DEF PluginInv
<1>4. CASE handle # NoPlugin /\ fname \in Exports[handle]
  BY <1>2, <1>4
<1>5. CASE ~(handle # NoPlugin /\ fname \in Exports[handle]) /\ I = {}
  BY <1>2, <1>5
<1>6. CASE ~(handle # NoPlugin /\ fname \in Exports[handle]) /\ I # {}
  <2>1. I \subseteq Nat
    BY <1>1, <1>3
  <2>2. PICK k : k = Min(I)
    OBVIOUS
  <2>3. k \in I
    BY <1>6, <2>1, <2>2, MinFacts
  <2>4. k \in DOMAIN opened /\ fname \in Exports[opened[k]] /\ k # 0
    BY <1>1, <1>3, <2>3
  <2>5. LoadStr2fn(handle, fname) = opened[k] /\ opened[k] \in ToSet(opened)
    BY <1>2, <1>6, <2>2, <2>4 DEF ToSet
  <2> QED
    BY <1>6, <2>4, <2>5
<1> QED
  BY <1>4, <1>5, <1>6
\* What the modes have when a file f is loaded, F for short.
NewModes(f, F) ==
  /\ DOMAIN modes' = DOMAIN modes \cup F.modes
  /\ \A m \in DOMAIN modes \ F.modes : modes'[m] = modes[m]
  /\ \A m \in F.modes :
       /\ DOMAIN modes'[m] = (IF m \in DOMAIN modes THEN DOMAIN modes[m] ELSE {}) \cup F.cmds
       /\ m \in DOMAIN modes => \A c \in DOMAIN modes[m] : modes'[m][c] = modes[m][c]
       /\ \A c \in F.cmds : (m \in DOMAIN modes => c \notin DOMAIN modes[m]) =>
            /\ modes'[m][c] \in ToSet(opened) /\ c \in Exports[modes'[m][c]]
            /\ Serves(f, c) => modes'[m][c] = App(f)

LEMMA AppendFacts ==
  ASSUME PluginInv, FilesInv, Appends, NEW n \in 0..Len(CliFiles), toload = SubSeq(CliFiles, n + 1, Len(CliFiles))
  PROVE  n + 1 \in Files /\ toload' = SubSeq(CliFiles, n + 2, Len(CliFiles)) /\ NewModes(n + 1, CliFiles[n + 1])
PROOF
<1>1. PICK f, F : f = n + 1 /\ F = CliFiles[f]
  OBVIOUS
<1>2. f \in Files /\ Head(toload) = F /\ toload' = SubSeq(CliFiles, n + 2, Len(CliFiles))
  <2>1. CliFiles \in Seq(FileRecords) /\ Len(CliFiles) \in Nat /\ n \in Nat /\ n <= Len(CliFiles)
    BY FilesFacts
  <2>2. toload # <<>> /\ toload' = Tail(toload)
    BY DEF Appends
  <2>3. n # Len(CliFiles)
    BY <2>1, <2>2
  <2>4. 1 <= n + 1 /\ n + 1 <= Len(CliFiles)
    BY <2>1, <2>3
  <2>5. Len(toload) = Len(CliFiles) - n /\ toload \in Seq(FileRecords) /\ \A i \in 1..Len(toload) : toload[i] = CliFiles[n + i]
    BY <2>1, <2>4, SubSeqProperties
  <2>6. Head(toload) = F
    BY <1>1, <2>1, <2>4, <2>5
  <2>7. Tail(toload) = SubSeq(CliFiles, n + 2, Len(CliFiles))
    <3>1. PICK t, u : t = Tail(toload) /\ u = SubSeq(CliFiles, n + 2, Len(CliFiles))
      OBVIOUS
    <3>2. t \in Seq(FileRecords) /\ Len(t) = Len(CliFiles) - n - 1 /\ \A i \in 1..Len(t) : t[i] = toload[i + 1]
      BY <2>1, <2>2, <2>5, <3>1
    <3>3. n + 2 \in 1..(Len(CliFiles) + 1)
      BY <2>1, <2>4
    <3>4. u \in Seq(FileRecords) /\ Len(u) = Len(CliFiles) - n - 1 /\ \A i \in 1..Len(u) : u[i] = CliFiles[n + 1 + i]
      BY <2>1, <2>4, <3>1, <3>3, SubSeqProperties
    <3>5. \A i \in 1..Len(t) : t[i] = u[i]
      <4> SUFFICES ASSUME NEW i \in 1..Len(t) PROVE t[i] = u[i]
        OBVIOUS
      <4>1. i + 1 \in 1..Len(toload) /\ n + (i + 1) = n + 1 + i
        <5>1. Len(toload) \in Nat /\ Len(t) = Len(toload) - 1
          BY <2>1, <2>5, <3>2
        <5> QED
          BY <2>1, <5>1
      <4> QED
        BY <2>5, <3>2, <3>4, <4>1
    <3> QED
      BY <3>1, <3>2, <3>4, <3>5, SeqEqual
  <2> QED
    BY <1>1, <2>1, <2>2, <2>4, <2>6, <2>7 DEF Files
<1>3. PICK h : h = IF F.plugin = NoPlugin THEN NoPlugin ELSE PluginFind(F.plugin)
  OBVIOUS
<1>4. F \in FileRecords /\ F.modes \subseteq CliModes /\ (F.plugin # NoPlugin => F.plugin \in STRING)
  BY <1>1, <1>2, FilesFacts
<1>5. clipc = "files" /\ Of("app") \subseteq ToSet(opened)
  BY DEF Appends, PluginInv, Loading
<1>6. h \in ToSet(opened) \cup {NoPlugin}
  BY <1>3, <1>4, <1>5, FindFacts
<1>7. \A c : Serves(f, c) => h = App(f) /\ h # NoPlugin /\ c \in Exports[h]
  <2> SUFFICES ASSUME NEW c, Serves(f, c) PROVE h = App(f) /\ h # NoPlugin /\ c \in Exports[h]
    OBVIOUS
  <2>1. F.plugin # NoPlugin /\ App(f) = <<"app", F.plugin>> /\ App(f) \in disk /\ c \in Exports[App(f)]
    BY <1>1 DEF Serves, App
  <2>2. App(f) \in ToSet(opened)
    BY <1>5, <2>1 DEF Of
  <2>3. h = App(f)
    BY <1>3, <1>4, <1>5, <2>1, <2>2, FindFacts
  <2>4. App(f) # NoPlugin
    BY <2>1, CliShellAssumption DEF PluginInv
  <2> QED
    BY <2>1, <2>3, <2>4
<1>8. \A c \in F.cmds : LoadStr2fn(h, c) # NoPlugin
  BY <1>2, <1>3 DEF Appends, Loadable
<1>9. \A c \in F.cmds : /\ LoadStr2fn(h, c) \in ToSet(opened) /\ c \in Exports[LoadStr2fn(h, c)]
                        /\ Serves(f, c) => LoadStr2fn(h, c) = App(f)
  <2> SUFFICES ASSUME NEW c \in F.cmds
               PROVE  /\ LoadStr2fn(h, c) \in ToSet(opened) /\ c \in Exports[LoadStr2fn(h, c)]
                      /\ Serves(f, c) => LoadStr2fn(h, c) = App(f)
    OBVIOUS
  <2>1. /\ LoadStr2fn(h, c) # NoPlugin => LoadStr2fn(h, c) \in ToSet(opened) /\ c \in Exports[LoadStr2fn(h, c)]
        /\ h # NoPlugin /\ c \in Exports[h] => LoadStr2fn(h, c) = h
    BY <1>6, Str2fnFacts
  <2> QED
    BY <1>7, <1>8, <2>1
<1>10. PICK bound : bound = [c \in F.cmds |-> LoadStr2fn(h, c)]
  OBVIOUS
<1>11. PICK old : old = [m \in F.modes |-> IF m \in DOMAIN modes THEN modes[m] ELSE <<>>]
  OBVIOUS
<1>12. modes' = [m \in DOMAIN modes \cup F.modes |->
                  IF m \in F.modes
                  THEN [c \in DOMAIN old[m] \cup F.cmds |-> IF c \in DOMAIN old[m] THEN old[m][c] ELSE bound[c]]
                  ELSE modes[m]]
  <2>1. modes' = SyntaxAppend(F)
    BY <1>2 DEF Appends
  <2>2. \A m \in F.modes : old[m] = IF m \in DOMAIN modes THEN modes[m] ELSE <<>>
    BY <1>11
  <2> QED
    BY <1>3, <1>10, <2>1, <2>2 DEF SyntaxAppend
<1>13. DOMAIN modes' = DOMAIN modes \cup F.modes /\ \A m \in DOMAIN modes \ F.modes : modes'[m] = modes[m]
  BY <1>12
<1>14. ASSUME NEW m \in F.modes
       PROVE  /\ DOMAIN modes'[m] = (IF m \in DOMAIN modes THEN DOMAIN modes[m] ELSE {}) \cup F.cmds
              /\ m \in DOMAIN modes => \A c \in DOMAIN modes[m] : modes'[m][c] = modes[m][c]
              /\ \A c \in F.cmds : (m \in DOMAIN modes => c \notin DOMAIN modes[m]) => modes'[m][c] = LoadStr2fn(h, c)
  <2>1. modes'[m] = [c \in DOMAIN old[m] \cup F.cmds |-> IF c \in DOMAIN old[m] THEN old[m][c] ELSE bound[c]]
    BY <1>12
  <2>2. \A c \in F.cmds : bound[c] = LoadStr2fn(h, c)
    BY <1>10
  <2>3. CASE m \in DOMAIN modes
    <3>1. old[m] = modes[m]
      BY <1>11, <2>3
    <3> QED
      BY <2>1, <2>2, <2>3, <3>1
  <2>4. CASE m \notin DOMAIN modes
    <3>1. DOMAIN old[m] = {}
      BY <1>11, <2>4
    <3> QED
      BY <2>1, <2>2, <2>4, <3>1
  <2> QED
    BY <2>3, <2>4
<1>15. \A m \in F.modes : \A c \in F.cmds : (m \in DOMAIN modes => c \notin DOMAIN modes[m]) =>
          /\ modes'[m][c] \in ToSet(opened) /\ c \in Exports[modes'[m][c]]
          /\ Serves(f, c) => modes'[m][c] = App(f)
  BY <1>9, <1>14
<1>16. NewModes(f, F)
  BY <1>13, <1>14, <1>15 DEF NewModes
<1> QED
  BY <1>1, <1>2, <1>16
\* With the next file its commands are in the modes, and the first file that
\* brings one has bound it.
LEMMA LoadedNext ==
  ASSUME PluginInv, FilesInv, Appends, NEW n \in 0..Len(CliFiles), toload = SubSeq(CliFiles, n + 1, Len(CliFiles)),
         Loaded(n)
  PROVE  n + 1 \in Files /\ toload' = SubSeq(CliFiles, n + 2, Len(CliFiles)) /\ Loaded(n + 1)'
PROOF
<1>1. PICK f, F : f = n + 1 /\ F = CliFiles[f]
  OBVIOUS
<1>2. f \in Files /\ toload' = SubSeq(CliFiles, n + 2, Len(CliFiles)) /\ NewModes(f, F)
  BY <1>1, AppendFacts
<1>3. n \in Nat /\ f \in Nat /\ \A g \in Files : g \in Nat /\ (g <= f <=> g <= n \/ g = f) /\ ~(f <= n)
  BY <1>1, FilesFacts DEF Files
<1>4. disk' = disk /\ \A g, c : Serves(g, c)' = Serves(g, c)
  BY DEF Appends, Serves
<1>5. /\ \A m \in DOMAIN modes : \A c \in DOMAIN modes[m] :
           \E g \in Files : g <= n /\ m \in CliFiles[g].modes /\ c \in CliFiles[g].cmds
      /\ \A g \in Files : g <= n => \A m \in CliFiles[g].modes : \A c \in CliFiles[g].cmds :
           /\ m \in DOMAIN modes /\ c \in DOMAIN modes[m]
           /\ Brings(g, m, c) /\ Serves(g, c) => modes[m][c] = App(g)
  BY DEF Loaded
\* What was in the modes stays as it is.
<1>6. \A m \in DOMAIN modes : m \in DOMAIN modes' /\ \A c \in DOMAIN modes[m] : c \in DOMAIN modes'[m] /\ modes'[m][c] = modes[m][c]
  <2> SUFFICES ASSUME NEW m \in DOMAIN modes, NEW c \in DOMAIN modes[m]
               PROVE  c \in DOMAIN modes'[m] /\ modes'[m][c] = modes[m][c]
    BY <1>2 DEF NewModes
  <2>1. CASE m \in F.modes
    BY <1>2, <2>1 DEF NewModes
  <2>2. CASE m \notin F.modes
    BY <1>2, <2>2 DEF NewModes
  <2> QED
    BY <2>1, <2>2
<1>7. ASSUME NEW m \in DOMAIN modes', NEW c \in DOMAIN modes'[m]
      PROVE  \E g \in Files : g <= f /\ m \in CliFiles[g].modes /\ c \in CliFiles[g].cmds
  <2>1. CASE m \in DOMAIN modes /\ c \in DOMAIN modes[m]
    BY <1>3, <1>5, <2>1
  <2>2. CASE ~(m \in DOMAIN modes /\ c \in DOMAIN modes[m])
    <3>1. m \in F.modes
      BY <1>2, <1>7, <2>2 DEF NewModes
    <3>2. c \in F.cmds
      BY <1>2, <1>7, <2>2, <3>1 DEF NewModes
    <3> QED
      BY <1>1, <1>2, <1>3, <3>1, <3>2
  <2> QED
    BY <2>1, <2>2
<1>8. ASSUME NEW g \in Files, g <= f, NEW m \in CliFiles[g].modes, NEW c \in CliFiles[g].cmds
      PROVE  /\ m \in DOMAIN modes' /\ c \in DOMAIN modes'[m]
             /\ Brings(g, m, c) /\ Serves(g, c) => modes'[m][c] = App(g)
  <2>1. CASE g <= n
    <3>1. /\ m \in DOMAIN modes /\ c \in DOMAIN modes[m]
          /\ Brings(g, m, c) /\ Serves(g, c) => modes[m][c] = App(g)
      BY <1>5, <1>8, <2>1
    <3> QED
      BY <1>6, <3>1
  <2>2. CASE g = f
    <3>1. m \in F.modes /\ c \in F.cmds
      BY <1>1, <1>8, <2>2
    <3>2. m \in DOMAIN modes' /\ c \in DOMAIN modes'[m]
      BY <1>2, <3>1 DEF NewModes
    <3>3. ASSUME Brings(f, m, c), Serves(f, c) PROVE modes'[m][c] = App(f)
      <4>1. m \in DOMAIN modes => c \notin DOMAIN modes[m]
        <5> SUFFICES ASSUME m \in DOMAIN modes, c \in DOMAIN modes[m] PROVE FALSE
          OBVIOUS
        <5>1. PICK e \in Files : e <= n /\ m \in CliFiles[e].modes /\ c \in CliFiles[e].cmds
          BY <1>5
        <5>2. e \in 1..(f - 1)
          BY <1>1, <1>3, <5>1 DEF Files
        <5> QED
          BY <3>3, <5>1, <5>2 DEF Brings
      <4> QED
        BY <1>2, <3>1, <3>3, <4>1 DEF NewModes
    <3> QED
      BY <2>2, <3>2, <3>3
  <2> QED
    BY <1>3, <1>8, <2>1, <2>2
<1>9. Loaded(f)'
  <2>1. \A m \in DOMAIN modes' : \A c \in DOMAIN modes'[m] :
           \E g \in Files : g <= f /\ m \in CliFiles[g].modes /\ c \in CliFiles[g].cmds
    BY <1>7
  <2>2. \A g \in Files : g <= f => \A m \in CliFiles[g].modes : \A c \in CliFiles[g].cmds :
           /\ m \in DOMAIN modes' /\ c \in DOMAIN modes'[m]
           /\ Brings(g, m, c) /\ Serves(g, c)' => modes'[m][c] = App(g)
    BY <1>4, <1>8
  <2> QED
    BY <1>1, <2>1, <2>2 DEF Loaded
<1> QED
  BY <1>1, <1>2, <1>9

LEMMA FilesStep == PluginInv /\ PluginInv' /\ FilesInv /\ [CliNext]_cliVars => FilesInv'
PROOF
<1> SUFFICES ASSUME PluginInv, PluginInv', FilesInv, [CliNext]_cliVars PROVE FilesInv'
  OBVIOUS
<1>1. \A n : UNCHANGED <<disk, modes>> => Loaded(n)' = Loaded(n)
  BY DEF Loaded, Serves
<1>2. CASE PluginLoad
  <2>1. clipc \in Loading /\ clipc' = clipc /\ modes' = modes /\ modes = <<>>
    BY <1>2 DEF PluginLoad, Loading, FilesInv
  <2>2. DOMAIN modes' = {}
    BY <2>1
  <2> QED
    BY <2>1, <2>2 DEF FilesInv
<1>3. CASE DirLoaded
  <2>1. clipc \in Loading /\ modes' = modes /\ modes = <<>> /\ disk' = disk
    BY <1>3 DEF DirLoaded, Loading, FilesInv
  <2>2. DOMAIN modes' = {}
    BY <2>1
  <2>3. CASE clipc' = "app"
    BY <2>1, <2>2, <2>3 DEF FilesInv, Loading
  <2>4. CASE clipc' = "files" /\ toload' = CliFiles
    <3>1. CliFiles = SubSeq(CliFiles, 0 + 1, Len(CliFiles)) /\ 0 \in 0..Len(CliFiles)
      BY FilesFacts
    <3>2. \A f \in Files : ~(f <= 0)
      BY FilesFacts DEF Files
    <3>3. Loaded(0)'
      BY <2>2, <3>2 DEF Loaded
    <3> QED
      BY <2>2, <2>4, <3>1, <3>3 DEF FilesInv, Loading
  <2> QED
    BY <1>3, <2>3, <2>4 DEF DirLoaded
<1>4. CASE Unloads
  <2>1. clipc' = "ended" /\ modes' = <<>> /\ DOMAIN modes' = {}
    BY <1>4 DEF Unloads, SyntaxUnload
  <2> QED
    BY <2>1 DEF FilesInv
<1>5. CASE Appends
  <2>1. clipc = "files" /\ clipc' = "files" /\ opened' = opened
    BY <1>5 DEF Appends
  <2>2. PICK n \in 0..Len(CliFiles) : toload = SubSeq(CliFiles, n + 1, Len(CliFiles)) /\ Loaded(n)
    BY <2>1 DEF FilesInv, Loading
  <2>3. n + 1 \in Files /\ toload' = SubSeq(CliFiles, n + 2, Len(CliFiles)) /\ Loaded(n + 1)'
    BY <1>5, <2>2, LoadedNext
  <2>4. n + 1 \in 0..Len(CliFiles) /\ n + 1 + 1 = n + 2
    BY <2>3, FilesFacts DEF Files
  <2>5. PICK F : F = CliFiles[n + 1]
    OBVIOUS
  <2>6. NewModes(n + 1, F)
    BY <1>5, <2>2, <2>5, AppendFacts
  <2>7. DOMAIN modes' \subseteq CliModes
    BY <2>3, <2>5, <2>6, FilesFacts DEF FilesInv, NewModes
  <2>8. ASSUME NEW m \in DOMAIN modes', NEW c \in DOMAIN modes'[m]
        PROVE  modes'[m][c] \in ToSet(opened) /\ c \in Exports[modes'[m][c]]
    <3>1. CASE m \notin F.modes
      BY <2>6, <2>8, <3>1 DEF FilesInv, NewModes
    <3>2. CASE m \in F.modes /\ m \in DOMAIN modes /\ c \in DOMAIN modes[m]
      BY <2>6, <3>2 DEF FilesInv, NewModes
    <3>3. CASE m \in F.modes /\ ~(m \in DOMAIN modes /\ c \in DOMAIN modes[m])
      BY <2>6, <2>8, <3>3 DEF NewModes
    <3> QED
      BY <3>1, <3>2, <3>3
  <2>9. \E k \in 0..Len(CliFiles) : toload' = SubSeq(CliFiles, k + 1, Len(CliFiles)) /\ Loaded(k)'
    BY <2>3, <2>4
  <2> QED
    BY <2>1, <2>7, <2>8, <2>9 DEF FilesInv, Loading
<1>6. CASE Grows \/ Stays
  <2>1. UNCHANGED <<disk, toload, modes, opened>>
    BY <1>6 DEF Grows, Stays
  <2>2. \/ clipc' = clipc
        \/ clipc \in Later /\ clipc' \in Later
        \/ clipc = "files" /\ clipc' = "mode" /\ toload = <<>>
    BY <1>6 DEF Grows, Stays
  <2>3. \A n : Loaded(n)' = Loaded(n)
    BY <1>1, <2>1
  <2> QED
    BY <2>1, <2>2, <2>3 DEF FilesInv, Loading, Later
<1>7. CASE Switches
  <2>1. clipc \in Later /\ clipc' \in Later /\ UNCHANGED <<disk, toload, opened>>
    BY <1>7 DEF Switches
  <2>2. PICK m \in CliModes :
          modes' = IF m \in DOMAIN modes THEN modes
                   ELSE [n \in DOMAIN modes \cup {m} |-> IF n = m THEN <<>> ELSE modes[n]]
    BY <1>7 DEF Switches, SetSyntaxMode
  <2>3. CASE m \in DOMAIN modes
    <3>1. \A n : Loaded(n)' = Loaded(n)
      BY <1>1, <2>1, <2>2, <2>3
    <3> QED
      BY <2>1, <2>2, <2>3, <3>1 DEF FilesInv, Loading, Later
  <2>4. CASE m \notin DOMAIN modes
    <3>1. /\ DOMAIN modes' = DOMAIN modes \cup {m} /\ DOMAIN modes'[m] = {}
          /\ \A n \in DOMAIN modes : modes'[n] = modes[n]
      BY <2>2, <2>4
    <3>2. \A n : Loaded(n) => Loaded(n)'
      <4> SUFFICES ASSUME NEW n, Loaded(n) PROVE Loaded(n)'
        OBVIOUS
      <4>1. \A f, c : Serves(f, c)' = Serves(f, c)
        BY <2>1 DEF Serves
      <4>2. \A k \in DOMAIN modes' : \A c \in DOMAIN modes'[k] :
               \E f \in Files : f <= n /\ k \in CliFiles[f].modes /\ c \in CliFiles[f].cmds
        BY <3>1 DEF Loaded
      <4>3. \A f \in Files : f <= n => \A k \in CliFiles[f].modes : \A c \in CliFiles[f].cmds :
               /\ k \in DOMAIN modes' /\ c \in DOMAIN modes'[k]
               /\ Brings(f, k, c) /\ Serves(f, c)' => modes'[k][c] = App(f)
        BY <3>1, <4>1 DEF Loaded
      <4> QED
        BY <4>2, <4>3 DEF Loaded
    <3> QED
      BY <2>1, <3>1, <3>2 DEF FilesInv, Loading, Later
  <2> QED
    BY <2>3, <2>4
<1> QED
  BY <1>2, <1>3, <1>4, <1>5, <1>6, <1>7, Shape

THEOREM FilesKept == ShellSpec => []FilesInv
PROOF
<1>1. CliInit => FilesInv
  <2> SUFFICES ASSUME CliInit PROVE FilesInv
    OBVIOUS
  <2>1. clipc = "sys" /\ modes = <<>> /\ DOMAIN modes = {}
    BY DEF CliInit
  <2> QED
    BY <2>1 DEF FilesInv, Loading
<1>2. PluginInv /\ PluginInv' /\ FilesInv /\ [CliNext]_cliVars => FilesInv'
  BY FilesStep
<1> QED
  BY <1>1, <1>2, PluginsKept, PTL DEF ShellSpec
LEMMA BindingsSound == PluginInv /\ FilesInv => CallbacksBound
PROOF
<1> SUFFICES ASSUME PluginInv, FilesInv PROVE CallbacksBound
  OBVIOUS
<1>1. clipc = "ended" => closed = Reverse(opened)
  BY DEF PluginInv
<1>2. ASSUME NEW m \in DOMAIN modes, NEW c \in DOMAIN modes[m]
      PROVE  modes[m][c] \in ToSet(opened) \ ToSet(closed) /\ c \in Exports[modes[m][c]]
  <2>1. clipc # "ended"
    <3>1. modes # <<>>
      BY <1>2
    <3> QED
      BY <3>1 DEF FilesInv
  <2>2. closed = <<>>
    BY <2>1 DEF PluginInv
  <2>3. ToSet(closed) = {}
    BY <2>2 DEF ToSet
  <2> QED
    BY <1>2, <2>3 DEF FilesInv
<1>3. ASSUME clipc = "prompt", NEW f \in DOMAIN CliFiles, CliFiles[f].plugin # NoPlugin,
             <<"app", CliFiles[f].plugin>> \in disk,
             NEW m \in CliFiles[f].modes, NEW c \in CliFiles[f].cmds,
             Brings(f, m, c), c \in Exports[<<"app", CliFiles[f].plugin>>]
      PROVE  modes[m][c] = <<"app", CliFiles[f].plugin>>
  <2>1. PICK n \in 0..Len(CliFiles) : toload = SubSeq(CliFiles, n + 1, Len(CliFiles)) /\ Loaded(n) /\ toload = <<>>
    BY <1>3 DEF FilesInv, Loading
  <2>2. n = Len(CliFiles)
    <3>1. CliFiles \in Seq(FileRecords) /\ Len(CliFiles) \in Nat
      BY FilesFacts
    <3>2. n + 1 \in 1..(Len(CliFiles) + 1) /\ Len(CliFiles) \in n..Len(CliFiles)
      BY <3>1
    <3>3. Len(SubSeq(CliFiles, n + 1, Len(CliFiles))) = Len(CliFiles) - n
      BY <3>1, <3>2, SubSeqProperties
    <3>4. Len(toload) = 0
      <4>1. toload = <<>>
        BY <2>1
      <4> QED
        BY <4>1
    <3> QED
      BY <2>1, <3>1, <3>3, <3>4
  <2>3. f \in Files /\ f <= n
    BY <2>2, FilesFacts DEF Files
  <2>4. Serves(f, c)
    BY <1>3 DEF Serves, App
  <2> QED
    BY <1>3, <2>1, <2>3, <2>4 DEF Loaded, App
<1> QED
  BY <1>1, <1>2, <1>3 DEF CallbacksBound

------------------------------------------------------------------------------
(***************************************************************************)
(* The search for a command.  While it goes on the user's mode is the one  *)
(* where the line was typed, and the mode it looks in is one that the      *)
(* search comes to.                                                        *)
(***************************************************************************)
SearchInv ==
  /\ clipc = "parse" => active = typed.from
  /\ clipc \in {"prompt", "parse", "eval", "candidate", "shell", "child"} => active \in CliModes
  /\ clipc \in {"parse", "eval"} => climb.m \in Searched(typed.from, typed.word)
  /\ clipc = "eval" => active = climb.m /\ Cardinality(typed.word \cap DOMAIN modes[climb.m]) = 1

LEMMA SearchBegins ==
  ASSUME NEW m \in CliModes, NEW word
  PROVE  m \in Searched(m, word)
PROOF
  BY DEF Searched

\* The mode the parse hook names comes after one that does not have the word.
LEMMA SearchGoesOn ==
  ASSUME NEW from, NEW word, NEW m \in Searched(from, word), DOMAIN modes \subseteq CliModes,
         m \in trees, word \cap DOMAIN modes[m] = {}, hooked, HookUp[m] \in DOMAIN modes
  PROVE  HookUp[m] \in Searched(from, word)
PROOF
<1> SUFFICES ASSUME NEW S \in SUBSET CliModes, from \in S, Encloses(S, word)
             PROVE  HookUp[m] \in S
  BY DEF Searched
<1>1. m \in S
  BY DEF Searched
<1> QED
  BY <1>1 DEF Encloses

LEMMA SearchStep == FilesInv /\ SearchInv /\ [CliNext]_cliVars => SearchInv'
PROOF
<1> SUFFICES ASSUME FilesInv, SearchInv, [CliNext]_cliVars PROVE SearchInv'
  OBVIOUS
<1> USE DEF SearchInv
<1>1. UNCHANGED <<hooked, modes, trees>> => \A from, word : Searched(from, word)' = Searched(from, word)
  BY DEF Searched, Encloses
<1>2. CASE UNCHANGED cliVars
  <2>1. UNCHANGED <<clipc, active, typed, climb, hooked, modes, trees>>
    BY <1>2 DEF cliVars, loadVars, runVars
  <2> QED
    BY <1>1, <2>1
<1>3. CASE \/ PluginLoad \/ PluginLoadFails \/ DirLoaded \/ LoadSyntax \/ GenParseTrees
           \/ CliEof \/ ParseError \/ EvalQuit
  <2>1. clipc' \notin {"prompt", "parse", "eval", "candidate", "shell", "child"}
    BY <1>3 DEF PluginLoad, PluginLoadFails, DirLoaded, LoadSyntax, GenParseTrees, CliEof, ParseError, EvalQuit,
                SyntaxLoadFails, Terminate
  <2> QED
    BY <2>1
<1>4. ASSUME NEW m \in StartModes, StartMode(m) PROVE SearchInv'
  <2>1. m \in CliModes
    BY CliShellAssumption
  <2> QED
    BY <1>4, <2>1 DEF StartMode, SetSyntaxMode, Terminate
<1>5. CASE InitCandidate \/ SigTerm
  BY <1>5 DEF InitCandidate, SigTerm, runVars
<1>6. ASSUME NEW w, Cliread(w) PROVE SearchInv'
  <2>1. /\ clipc' = "parse" /\ typed' = [word |-> w, from |-> active] /\ climb' = [m |-> active, first |-> TRUE]
        /\ active' = active /\ UNCHANGED <<hooked, modes, trees>>
    BY <1>6 DEF Cliread, loadVars
  <2>2. active \in CliModes
    BY <1>6 DEF Cliread
  <2>3. typed'.word = w /\ typed'.from = active /\ climb'.m = active
    BY <2>1
  <2>4. active \in Searched(active, w)
    BY <2>2, SearchBegins
  <2> QED
    BY <1>1, <2>1, <2>2, <2>3, <2>4
<1>7. CASE NoTree \/ EvalPlain \/ Ambiguous \/ ProcRunDone \/ ShellDone
  <2>1. clipc' \in {"prompt", "ended"} /\ clipc \in {"parse", "eval", "shell", "child"} /\ active' = active
    BY <1>7 DEF NoTree, EvalPlain, Ambiguous, ProcRunDone, ShellDone, BackToPrompt, Terminate, runVars
  <2> QED
    BY <2>1
<1>8. CASE NoMatch
  <2>1. /\ clipc = "parse" /\ climb.m \in trees /\ typed.word \cap DOMAIN modes[climb.m] = {}
        /\ active' = active /\ UNCHANGED <<hooked, modes, trees>>
    BY <1>8 DEF NoMatch, Matching, loadVars
  <2>2. CASE hooked /\ HookUp[climb.m] \in DOMAIN modes
    <3>1. clipc' = clipc /\ typed' = typed /\ climb' = [m |-> HookUp[climb.m], first |-> FALSE]
      BY <1>8, <2>2 DEF NoMatch
    <3>2. HookUp[climb.m] \in Searched(typed.from, typed.word)
      BY <2>1, <2>2, SearchGoesOn DEF FilesInv
    <3> QED
      BY <1>1, <2>1, <3>1, <3>2
  <2>3. CASE ~(hooked /\ HookUp[climb.m] \in DOMAIN modes)
    <3>1. clipc' = "prompt"
      BY <1>8, <2>3 DEF NoMatch, BackToPrompt
    <3> QED
      BY <2>1, <3>1
  <2> QED
    BY <2>2, <2>3
<1>9. CASE Match
  <2>1. /\ clipc = "parse" /\ clipc' = "eval" /\ active' = climb.m /\ UNCHANGED <<typed, climb, hooked, modes, trees>>
        /\ Cardinality(typed.word \cap DOMAIN modes[climb.m]) = 1
    BY <1>9 DEF Match, Matching, loadVars
  <2>2. climb.m \in CliModes
    BY <2>1 DEF Searched
  <2> QED
    BY <1>1, <2>1, <2>2
<1>10. ASSUME NEW m \in CliModes, EvalMode(m) PROVE SearchInv'
  BY <1>10 DEF EvalMode, SetSyntaxMode, BackToPrompt
<1>11. ASSUME NEW m, NEW path, Ptpop(m) \/ Ptpush(m, path) PROVE SearchInv'
  BY <1>11 DEF Ptpop, Ptpush, BackToPrompt
<1>12. CASE StartShell \/ ProcRun
  <2>1. clipc' \in {"prompt", "shell", "child"} /\ clipc = "eval" /\ active' = active
    BY <1>12 DEF StartShell, ProcRun, BackToPrompt
  <2> QED
    BY <2>1
<1> QED
  BY <1>2, <1>3, <1>4, <1>5, <1>6, <1>7, <1>8, <1>9, <1>10, <1>11, <1>12 DEF CliNext

(***************************************************************************)
(* A command runs in the nearest mode that has it, whatever the parse hook *)
(* does: clicon_parse() sets the mode only when it has found the command.  *)
(***************************************************************************)
THEOREM CommandsFindTheirMode == ShellSpec => []ModeFollowsCommand
PROOF
<1>1. CliInit => SearchInv
  BY DEF CliInit, SearchInv
<1>2. FilesInv /\ SearchInv /\ [CliNext]_cliVars => SearchInv'
  BY SearchStep
<1>3. SearchInv => ModeFollowsCommand
  BY DEF SearchInv, ModeFollowsCommand
<1> QED
  BY <1>1, <1>2, <1>3, FilesKept, PTL DEF ShellSpec

------------------------------------------------------------------------------
(***************************************************************************)
(* The syntax that is pushed and popped, and the signals.                  *)
(***************************************************************************)
Places == Nodes \cup {Op}
SyntaxInv ==
  /\ pushed \in [CliModes -> [on : BOOLEAN, at : Places, saved : Places]]
  /\ parent \in [CliModes -> [Nodes -> Places]]
  /\ \A m \in CliModes : /\ pushed[m].saved = Op
                         /\ ~pushed[m].on => pushed[m].at = Op
                         /\ \A k \in Kids[pushed[m].at] : parent[m][k] = Op

\* Every word the command offers is a child of the node it stands for now.
LEMMA PlacedAt ==
  ASSUME SyntaxInv, NEW m \in CliModes, NEW n \in Places, NEW on \in BOOLEAN, ~on => n = Op,
         pushed' = [pushed EXCEPT ![m] = [on |-> on, at |-> n, saved |-> Op]],
         parent' = [parent EXCEPT ![m] = [k \in Nodes |-> IF k \in Kids[n] THEN Op ELSE @[k]]]
  PROVE  SyntaxInv'
PROOF
<1>1. PICK p, r : /\ p = [on |-> on, at |-> n, saved |-> Op]
                  /\ r = [k \in Nodes |-> IF k \in Kids[n] THEN Op ELSE parent[m][k]]
  OBVIOUS
<1>2. p \in [on : BOOLEAN, at : Places, saved : Places] /\ p.on = on /\ p.at = n /\ p.saved = Op
  BY <1>1 DEF Places
<1>3. r \in [Nodes -> Places] /\ Kids[n] \subseteq Nodes /\ \A k \in Kids[n] : r[k] = Op
  <2>1. Kids[n] \subseteq Nodes
    BY CliShellAssumption DEF Places
  <2>2. \A k \in Nodes : parent[m][k] \in Places
    BY DEF SyntaxInv
  <2> QED
    BY <1>1, <2>1, <2>2 DEF Places
<1>4. pushed' = [pushed EXCEPT ![m] = p] /\ parent' = [parent EXCEPT ![m] = r]
  BY <1>1
<1>5. /\ pushed'[m] = p /\ parent'[m] = r
      /\ \A k \in CliModes \ {m} : pushed'[k] = pushed[k] /\ parent'[k] = parent[k]
  BY <1>4 DEF SyntaxInv
<1> QED
  BY <1>2, <1>3, <1>4, <1>5 DEF SyntaxInv

SignalInv ==
  ~damaged => /\ clipc = "shell" => sigmask = {}
              /\ clipc \notin {"shell", "dropped"} => sigmask = SignalBlock({})
              /\ clipc \notin {"child", "dropped"} => sigint = "default"
LEMMA DescendFacts ==
  ASSUME NEW at \in Places, NEW path \in SeqOf(Nodes, 2), path # <<>>
  PROVE  Descend(at, path) \in Nodes \cup {Nowhere}
PROOF
<1>1. PICK n \in 0..2 : path \in [1..n -> Nodes]
  BY DEF SeqOf
<1>2. path \in Seq(Nodes) /\ Len(path) = n
  BY <1>1
<1>3. n # 0
  BY <1>2
<1>4. path[Len(path)] \in Nodes
  BY <1>1, <1>2, <1>3
<1> QED
  BY <1>4 DEF Descend

LEMMA PushKeeps ==
  ASSUME SyntaxInv, active \in CliModes, NEW path \in SeqOf(Nodes, 2), Ptpush(active, path)
  PROVE  SyntaxInv'
PROOF
<1>1. PICK n : n = Descend(pushed[active].at, path)
  OBVIOUS
<1>2. pushed[active].at \in Places /\ pushed[active].saved = Op /\ (~pushed[active].on => pushed[active].at = Op)
  BY DEF SyntaxInv
<1>3. n \in Nodes \cup {Nowhere}
  BY <1>1, <1>2, DescendFacts DEF Ptpush
<1>4. CASE n = Nowhere
  <2>1. UNCHANGED <<pushed, parent>>
    BY <1>1, <1>4 DEF Ptpush, pushVars
  <2> QED
    BY <2>1 DEF SyntaxInv
<1>5. CASE n # Nowhere
  <2>1. n \in Places
    BY <1>3, <1>5 DEF Places
  <2>2. (IF pushed[active].on THEN pushed[active].saved ELSE pushed[active].at) = Op
    BY <1>2
  <2>3. /\ pushed' = [pushed EXCEPT ![active] = [on |-> TRUE, at |-> n, saved |-> Op]]
        /\ parent' = [parent EXCEPT ![active] = [k \in Nodes |-> IF k \in Kids[n] THEN Op ELSE @[k]]]
    BY <1>1, <1>5, <2>2 DEF Ptpush
  <2> QED
    BY <2>1, <2>3, PlacedAt
<1> QED
  BY <1>4, <1>5

LEMMA PopKeeps ==
  ASSUME SyntaxInv, active \in CliModes, Ptpop(active)
  PROVE  SyntaxInv'
PROOF
<1>1. CASE ~pushed[active].on
  <2>1. UNCHANGED <<pushed, parent>>
    BY <1>1 DEF Ptpop, pushVars
  <2> QED
    BY <2>1 DEF SyntaxInv
<1>2. CASE pushed[active].on
  <2>1. pushed[active].saved = Op /\ Op \in Places
    BY DEF SyntaxInv, Places
  <2>2. /\ pushed' = [pushed EXCEPT ![active] = [on |-> FALSE, at |-> Op, saved |-> Op]]
        /\ parent' = [parent EXCEPT ![active] = [k \in Nodes |-> IF k \in Kids[Op] THEN Op ELSE @[k]]]
    BY <1>2, <2>1 DEF Ptpop
  <2> QED
    BY <2>1, <2>2, PlacedAt
<1> QED
  BY <1>1, <1>2

LEMMA SyntaxBegins == CliInit => SyntaxInv
PROOF
<1> SUFFICES ASSUME CliInit PROVE SyntaxInv
  OBVIOUS
<1>1. \A n \in Nodes : Up(n) \in Places /\ \A q \in Places : n \in Kids[q] => q = Up(n)
  <2> SUFFICES ASSUME NEW n \in Nodes PROVE Up(n) \in Places /\ \A q \in Places : n \in Kids[q] => q = Up(n)
    OBVIOUS
  <2>1. PICK o \in Places : \A q \in Places : n \in Kids[q] <=> q = o
    BY CliShellAssumption DEF Places
  <2>2. Up(n) \in Places /\ n \in Kids[Up(n)]
    BY <2>1 DEF Up, Places
  <2> QED
    BY <2>1, <2>2
<1>2. Op \in Places /\ Kids[Op] \subseteq Nodes
  BY CliShellAssumption DEF Places
<1>3. parent = [m \in CliModes |-> [n \in Nodes |-> Up(n)]]
  BY DEF CliInit
<1>4. parent \in [CliModes -> [Nodes -> Places]]
  BY <1>1, <1>3
<1>5. pushed = [m \in CliModes |-> [on |-> FALSE, at |-> Op, saved |-> Op]]
  BY DEF CliInit
<1>6. \A m \in CliModes : \A k \in Kids[Op] : parent[m][k] = Op
  BY <1>1, <1>2, <1>3
<1> QED
  BY <1>2, <1>4, <1>5, <1>6 DEF SyntaxInv

LEMMA SyntaxStep == SearchInv /\ SyntaxInv /\ [CliNext]_cliVars => SyntaxInv'
PROOF
<1> SUFFICES ASSUME SearchInv, SyntaxInv, [CliNext]_cliVars PROVE SyntaxInv'
  OBVIOUS
<1>1. UNCHANGED pushVars => SyntaxInv'
  BY DEF pushVars, SyntaxInv
<1>2. CASE UNCHANGED cliVars
  BY <1>1, <1>2 DEF cliVars
<1>3. CASE \/ PluginLoad \/ PluginLoadFails \/ DirLoaded \/ LoadSyntax \/ GenParseTrees \/ InitCandidate
           \/ \E m \in StartModes : StartMode(m)
  BY <1>1, <1>3 DEF PluginLoad, PluginLoadFails, DirLoaded, LoadSyntax, GenParseTrees, InitCandidate, StartMode
<1>4. CASE \/ \E w : Cliread(w)
           \/ CliEof \/ NoTree \/ ParseError \/ NoMatch \/ Ambiguous \/ Match
  BY <1>1, <1>4 DEF Cliread, CliEof, NoTree, ParseError, NoMatch, Ambiguous, Match
<1>5. CASE \/ EvalPlain \/ EvalQuit \/ \E m \in CliModes : EvalMode(m)
           \/ StartShell \/ ShellDone \/ ProcRun \/ ProcRunDone \/ SigTerm
  BY <1>1, <1>5 DEF EvalPlain, EvalQuit, EvalMode, StartShell, ShellDone, ProcRun, ProcRunDone, SigTerm
<1>6. CASE Ptpop(active)
  BY <1>6, PopKeeps DEF SearchInv, Ptpop
<1>7. ASSUME NEW path \in SeqOf(Nodes, 2), Ptpush(active, path) PROVE SyntaxInv'
  BY <1>7, PushKeeps DEF SearchInv, Ptpush
<1> QED
  BY <1>2, <1>3, <1>4, <1>5, <1>6, <1>7 DEF CliNext

LEMMA SignalStep == SignalInv /\ [CliNext]_cliVars => SignalInv'
PROOF
<1> SUFFICES ASSUME SignalInv, [CliNext]_cliVars PROVE SignalInv'
  OBVIOUS
<1> USE DEF SignalInv
<1>1. UNCHANGED quiet => SignalBlock({})' = SignalBlock({})
  BY DEF SignalBlock
<1>2. CASE UNCHANGED cliVars
  BY <1>1, <1>2 DEF cliVars, sigVars
<1>3. ASSUME UNCHANGED sigVars, clipc \notin {"shell", "child", "dropped"}, clipc' \notin {"shell", "child"}
      PROVE  SignalInv'
  BY <1>1, <1>3 DEF sigVars
<1>4. CASE \/ PluginLoad \/ PluginLoadFails \/ DirLoaded \/ LoadSyntax \/ GenParseTrees \/ InitCandidate
           \/ \E m \in StartModes : StartMode(m)
  BY <1>3, <1>4 DEF PluginLoad, PluginLoadFails, DirLoaded, LoadSyntax, GenParseTrees, InitCandidate, StartMode,
                    SyntaxLoadFails, Terminate
<1>5. CASE \/ \E w : Cliread(w)
           \/ CliEof \/ NoTree \/ ParseError \/ NoMatch \/ Ambiguous \/ Match
  BY <1>3, <1>5 DEF Cliread, CliEof, NoTree, ParseError, NoMatch, Ambiguous, Match, BackToPrompt, Terminate
<1>6. CASE EvalPlain \/ EvalQuit \/ \E m \in CliModes : EvalMode(m)
  BY <1>3, <1>6 DEF EvalPlain, EvalQuit, EvalMode, BackToPrompt, Terminate
<1>7. ASSUME NEW m, NEW path, Ptpop(m) \/ Ptpush(m, path) PROVE SignalInv'
  BY <1>3, <1>7 DEF Ptpop, Ptpush, BackToPrompt
<1>8. CASE StartShell
  <2>1. CASE sigmask' = {} /\ clipc' = "shell"
    BY <1>8, <2>1 DEF StartShell
  <2>2. CASE BackToPrompt /\ sigmask' = sigmask
    BY <1>1, <1>8, <2>2 DEF StartShell, BackToPrompt
  <2> QED
    BY <1>8, <2>1, <2>2 DEF StartShell
<1>9. CASE ShellDone
  <2>1. clipc = "shell" /\ sigmask' = SignalBlock(sigmask) /\ clipc' = "prompt" /\ UNCHANGED <<quiet, sigint, damaged>>
    BY <1>9 DEF ShellDone, BackToPrompt
  <2> QED
    BY <1>1, <2>1
<1>10. CASE ProcRun
  <2>1. CASE sigint' = "proc" /\ clipc' = "child" /\ UNCHANGED <<sigmask, damaged>>
    BY <1>1, <1>10, <2>1 DEF ProcRun
  <2>2. CASE damaged' = TRUE
    BY <2>2
  <2> QED
    BY <1>10, <2>1, <2>2 DEF ProcRun
<1>11. CASE ProcRunDone
  <2>1. clipc = "child" /\ sigint' = "default" /\ clipc' = "prompt" /\ UNCHANGED <<quiet, sigmask, damaged>>
    BY <1>11 DEF ProcRunDone, BackToPrompt
  <2> QED
    BY <1>1, <2>1
<1>12. CASE SigTerm
  BY <1>12 DEF SigTerm, sigVars
<1> QED
  BY <1>2, <1>4, <1>5, <1>6, <1>7, <1>8, <1>9, <1>10, <1>11, <1>12 DEF CliNext

(***************************************************************************)
(* The prompt is sound for any plugins and syntax files, whatever failed   *)
(* on the way: commands are bound to open plugins, a pop restores what was *)
(* pushed over, and the signals are as they were, except after a pipe()    *)
(* that failed.                                                            *)
(***************************************************************************)
THEOREM PromptStaysSound == ShellSpec => []PromptSound
PROOF
<1>1. CliInit => SearchInv /\ SyntaxInv /\ SignalInv
  <2>1. CliInit => SearchInv
    BY DEF CliInit, SearchInv
  <2>2. CliInit => SignalInv
    BY DEF CliInit, SignalInv
  <2> QED
    BY <2>1, <2>2, SyntaxBegins
<1>2. FilesInv /\ SearchInv /\ SyntaxInv /\ SignalInv /\ [CliNext]_cliVars => SearchInv' /\ SyntaxInv' /\ SignalInv'
  BY SearchStep, SyntaxStep, SignalStep
<1>3. SyntaxInv => PopRestores
  BY DEF SyntaxInv, PopRestores
<1>4. SignalInv => SignalsKept
  BY DEF SignalInv, SignalsKept
<1>5. PluginInv /\ FilesInv /\ SyntaxInv /\ SignalInv => PromptSound
  BY <1>3, <1>4, BindingsSound DEF PromptSound
<1> QED
  BY <1>1, <1>2, <1>5, PluginsKept, FilesKept, PTL DEF ShellSpec
===============================================================================
