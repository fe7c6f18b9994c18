--------------------------- MODULE SpecTranslate ---------------------------
(***************************************************************************)
(* The database specification in its three forms: a YANG tree, the list of *)
(* keys with their variables that the databases are read with, and the     *)
(* command tree of the CLI.  yang2key() makes the keys of a YANG tree,     *)
(* key2yang() the tree of a file of keys, and yang2cli() the commands of   *)
(* either; key2spec_key() and dbkey2yang() then look up a database key     *)
(* such as a.0.b in the first two.                                         *)
(*                                                                         *)
(* A name is a word, a key a sequence of [name, vec] (vec for "name[]"), a *)
(* line of the specification a record [key, vars, vector].                 *)
(***************************************************************************)
EXTENDS Integers, Sequences, FiniteSets, SequencesExt

CONSTANTS
  Words,         \* names of containers, lists and leaves
  KeySeqs,       \* values of the key statement of a list
  GenTypes,      \* CLICON_CLI_GENMODEL_TYPE: subset of {"NONE", "VARS", "ALL"}
  Completion,    \* CLICON_CLI_GENMODEL_COMPLETION
  Module,        \* parent of the top statements
  NoLine, NoNode,
  MaxStmts,      \* bound: number of YANG statements
  MaxLines       \* bound: number of lines of a file of keys

ASSUME SpecTranslateAssumption == MaxStmts \in Nat /\ MaxLines \in Nat /\ Completion \in BOOLEAN

VARIABLES
  yang,      \* the YANG specification: a sequence of statements
  file,      \* the file of keys: a sequence of lines
  result     \* what the translation has made of one or the other

specVars == <<yang, file, result>>

NoResult == [st |-> "none"]
SpecInit == yang = <<>> /\ file = <<>> /\ result = NoResult

Stmt(kind, name, up, config, keys) == [kind |-> kind, name |-> name, up |-> up, config |-> config, keys |-> keys]
Substatements(t, n) == SelectSeq([i \in 1..Len(t) |-> i], LAMBDA i : t[i].up = n)
SpecNode(k) == k \in {"container", "list", "leaf", "leaf-list"}

\* yang_find() of a leaf, yang_find_specnode(): the first child that fits.
FirstKid(t, n, Fits(_)) ==
  LET s == SelectSeq(Substatements(t, n), Fits) IN IF s = <<>> THEN NoNode ELSE s[1]
FindLeaf(t, n, name) == FirstKid(t, n, LAMBDA i : t[i].kind = "leaf" /\ t[i].name = name)
FindSpecnode(t, n, name) == FirstKid(t, n, LAMBDA i : SpecNode(t[i].kind) /\ t[i].name = name)

\* yang_key_match()
KeyMatch(t, y) == t[y].up # Module /\ t[t[y].up].kind = "list" /\ t[y].name \in ToSet(t[t[y].up].keys)
\* The variable of a leaf: ys_populate_leaf() marks it if it is a key.
LeafVar(t, y) == [name |-> t[y].name, unique |-> t[y].kind = "leaf" /\ KeyMatch(t, y)]

----------------------------------------------------------------------------
(* From YANG to keys.                                                      *)

\* cli2db_genkey()
Genkey(keys, vars) == IF keys = <<>> THEN NoLine ELSE [key |-> keys, vars |-> vars, vector |-> FALSE]
\* db_spec2str(): the line as a string.
Spec2str(ds) == [key |-> ds.key, vars |-> ds.vars]

\* db_spec_tailadd(): the variables of a line with the same key are added to it.
MergeVars(old, new) ==
  FoldLeft(LAMBDA vs, v : IF \E u \in ToSet(vs) : u.name = v.name THEN vs ELSE Append(vs, v), old, new)
MutantTailAdd(list, ds) ==
  IF \E i \in DOMAIN list : list[i].key = ds.key THEN list ELSE Append(list, ds)
TailAdd(list, ds) ==
  LET same == {i \in DOMAIN list : list[i].key = ds.key}
  IN IF same = {} THEN Append(list, ds)
     ELSE LET i == CHOOSE i \in same : TRUE
          IN [list EXCEPT ![i] = [@ EXCEPT !.vars = MergeVars(@, ds.vars), !.vector = ds.vector]]

\* yang_dbkey_set(), which asserts that the node has none yet.
DbkeySet(s, y, ds) ==
  IF s.dbkey[y] # NoLine THEN [s EXCEPT !.st = "abort"] ELSE [s EXCEPT !.dbkey[y] = Spec2str(ds)]

\* Progress of the translation below a node: s is [st, list, dbkey].
Add(s, y, ds) ==
  IF s.st # "ok" THEN s
  ELSE IF ds = NoLine THEN [s EXCEPT !.st = "error"]
  ELSE DbkeySet([s EXCEPT !.list = TailAdd(@, ds)], y, ds)

Yang2keyContainer(t, y, keys, vars, s) ==
  LET k == Append(keys, [name |-> t[y].name, vec |-> FALSE])
  IN [s |-> Add(s, y, Genkey(k, vars)), keys |-> k, vars |-> vars]

Yang2keyLeaf(t, y, keys, vars, fromlist, s) ==
  IF ~fromlist /\ KeyMatch(t, y) THEN [s |-> s, keys |-> keys, vars |-> vars]
  ELSE LET v == Append(vars, LeafVar(t, y))
       IN [s |-> Add(s, y, Genkey(keys, v)), keys |-> keys, vars |-> v]

\* The leaves of the key come first, whatever their place in the list.
Yang2keyList(t, y, keys, vars, s) ==
  LET k == Append(keys, [name |-> t[y].name, vec |-> TRUE])
      r == FoldLeft(LAMBDA a, n :
             IF FindLeaf(t, y, n) = NoNode THEN [a EXCEPT !.s.st = "error"]
             ELSE Yang2keyLeaf(t, FindLeaf(t, y, n), k, a.vars, TRUE, a.s),
             [s |-> s, keys |-> k, vars |-> vars], t[y].keys)
  IN [r EXCEPT !.s = Add(@, y, Genkey(k, r.vars))]

Yang2keyLeafList(t, y, keys, vars, s) ==
  LET v == Append(vars, LeafVar(t, y))
      ds == Genkey(keys, v)
  IN [s |-> Add(s, y, IF ds = NoLine THEN ds ELSE [ds EXCEPT !.vector = TRUE]), keys |-> keys, vars |-> v]

\* Statements that have no keys.
Skipped == {"augment", "rpc", "grouping"}

RECURSIVE Yang2keyStmt(_, _, _, _, _)
Yang2keyStmt(t, y, keys, vars, s) ==
  LET here == CASE t[y].kind = "container" -> Yang2keyContainer(t, y, keys, vars, s)
                [] t[y].kind = "leaf" -> Yang2keyLeaf(t, y, keys, vars, FALSE, s)
                [] t[y].kind = "list" -> Yang2keyList(t, y, keys, vars, s)
                [] t[y].kind = "leaf-list" -> Yang2keyLeafList(t, y, keys, vars, s)
                [] OTHER -> [s |-> s, keys |-> keys, vars |-> vars]
  IN IF s.st # "ok" \/ ~t[y].config \/ t[y].kind \in Skipped THEN s
     ELSE FoldLeft(LAMBDA a, c : Yang2keyStmt(t, c, here.keys, here.vars, a), here.s, Substatements(t, y))

Yang2key(t) ==
  LET s == FoldLeft(LAMBDA a, y : Yang2keyStmt(t, y, <<>>, <<>>, a),
                    [st |-> "ok", list |-> <<>>, dbkey |-> [i \in DOMAIN t |-> NoLine]], Substatements(t, Module))
  IN IF s.st = "ok" /\ s.list = <<>> THEN [s EXCEPT !.st = "error"] ELSE s

----------------------------------------------------------------------------
(* From a file of keys to YANG.                                            *)

\* dbspec_parse_line(): a word that is no variable, has no name or no known
\* type is skipped with a warning; a default that cannot be parsed fails.
ParseLine(list, line) ==
  IF \E i \in DOMAIN line.vars : line.vars[i].cls = "baddefault" THEN NoLine
  ELSE LET good == SelectSeq(line.vars, LAMBDA v : v.cls = "ok")
       IN TailAdd(list, [key |-> line.key, vector |-> FALSE,
            vars |-> [i \in DOMAIN good |-> [name |-> good[i].name, unique |-> good[i].unique]]])
\* db_spec_parse_file(): it stops at a line that fails and keeps the others.
ParseFile(f) ==
  FoldLeft(LAMBDA a, l : LET list == ParseLine(a.list, l)
                         IN IF ~a.more THEN a ELSE IF list = NoLine THEN [a EXCEPT !.more = FALSE] ELSE [a EXCEPT !.list = list],
           [list |-> <<>>, more |-> TRUE], f).list

\* key2yang() makes the nodes of one key.  The parent moves on at lists only;
\* a new list gets the first unique variable of the line as its key.
Yn(a, stmt, line) == [a EXCEPT !.t = Append(@, stmt), !.dbkey = Append(@, line)]
KeyNode(a, ds, e) ==
  LET old == FindSpecnode(a.t, a.yp, e.name)
      uniq == SelectSeq(ds.vars, LAMBDA v : v.unique)
      node == IF old # NoNode THEN old ELSE Len(a.t) + 1
      list == Yn(Yn(a, Stmt("list", e.name, a.yp, TRUE, <<uniq[1].name>>), NoLine),
                 Stmt("leaf", uniq[1].name, node, TRUE, <<>>), Spec2str(ds))
      new == IF old # NoNode THEN a
             ELSE IF e.vec THEN list
             ELSE Yn(a, Stmt("container", e.name, a.yp, TRUE, <<>>), NoLine)
  IN IF a.st # "ok" THEN a
     ELSE IF e.vec /\ uniq = <<>> THEN [a EXCEPT !.st = "error"]
     ELSE [new EXCEPT !.ys = node, !.yp = IF e.vec THEN node ELSE @]
KeyLine(a, ds) ==
  LET b == FoldLeft(LAMBDA x, e : KeyNode(x, ds, e), [a EXCEPT !.ys = NoNode, !.yp = Module], ds.key)
      leaf(x, v) == IF v.unique THEN x
                    ELSE Yn(x, Stmt(IF ds.vector THEN "leaf-list" ELSE "leaf", v.name, x.ys, TRUE, <<>>), Spec2str(ds))
  IN IF b.st # "ok" THEN b ELSE FoldLeft(leaf, b, ds.vars)
Key2yang(list) ==
  FoldLeft(KeyLine, [st |-> "ok", t |-> <<>>, dbkey |-> <<>>, ys |-> NoNode, yp |-> Module], list)

----------------------------------------------------------------------------
(* From YANG to commands: [words, spec], spec the argument of cli_set().   *)

Word(name) == [name |-> name, var |-> FALSE, expand |-> NoLine]
\* yang2cli_var_sub(): a variable, and what expand_dbvar_auto() completes it
\* with; its ranges, patterns and enumerations are left out.
VarSub(t, y, dbkey) == [name |-> t[y].name, var |-> TRUE, expand |-> IF Completion THEN dbkey[y] ELSE NoLine]
\* yang2cli_var(): all types of a union stand at the same place of the command.
Var(t, y, dbkey) == VarSub(t, y, dbkey)
\* yang2cli_leaf()
LeafWords(t, y, dbkey, gt) ==
  IF gt = "NONE" THEN <<Var(t, y, dbkey)>> ELSE <<Word(t[y].name), Var(t, y, dbkey)>>

\* yang2cli_list(): only the last leaf of the key has the callback.
ListWords(t, y, dbkey, gt) ==
  FoldLeft(LAMBDA w, n : w \o LeafWords(t, FindLeaf(t, y, n), dbkey, IF gt = "VARS" THEN "NONE" ELSE gt),
           <<Word(t[y].name)>>, t[y].keys)
MutantListSpec(t, y, dbkey) == dbkey[FindLeaf(t, y, t[y].keys[1])]
ListSpec(t, y, dbkey) == dbkey[FindLeaf(t, y, t[y].keys[Len(t[y].keys)])]

\* yang2cli_container() has the callback, yang2cli_choice() has none.
ContainerCommand(t, y, dbkey, path) == [words |-> Append(path, Word(t[y].name)), spec |-> dbkey[y]]
ListCommand(t, y, dbkey, gt, path) ==
  [words |-> path \o ListWords(t, y, dbkey, gt), spec |-> ListSpec(t, y, dbkey)]
LeafCommand(t, y, dbkey, gt, path) == [words |-> path \o LeafWords(t, y, dbkey, gt), spec |-> dbkey[y]]
ChoiceWords(t, y, path) == Append(path, Word(t[y].name))

RECURSIVE Yang2cliStmt(_, _, _, _, _)
Yang2cliStmt(t, y, dbkey, gt, path) ==
  LET below(p, S) == UNION {Yang2cliStmt(t, c, dbkey, gt, p) : c \in S}
      kids == ToSet(Substatements(t, y))
  IN IF ~t[y].config \/ t[y].kind \in Skipped THEN {}
     ELSE CASE t[y].kind = "container" ->
                 LET c == ContainerCommand(t, y, dbkey, path) IN {c} \cup below(c.words, kids)
            [] t[y].kind = "list" ->
                 LET c == ListCommand(t, y, dbkey, gt, path)
                 IN {c} \cup below(c.words, {k \in kids : t[k].name \notin ToSet(t[y].keys)})
            [] t[y].kind \in {"leaf", "leaf-list"} -> {LeafCommand(t, y, dbkey, gt, path)}
            [] t[y].kind \in {"choice", "case"} -> below(ChoiceWords(t, y, path), kids)
            [] OTHER -> below(path, kids)
Yang2cli(t, dbkey, gt) == UNION {Yang2cliStmt(t, y, dbkey, gt, <<>>) : y \in ToSet(Substatements(t, Module))}

----------------------------------------------------------------------------
(* Looking up a database key, a sequence of names and indexes.             *)

Index == "0"
\* dbspec_key_match(): "[]" stands for the dot and the digits of an index.
Tokens(key) == FlattenSeq([i \in DOMAIN key |-> IF key[i].vec THEN <<key[i].name, Index>> ELSE <<key[i].name>>])
Key2specKey(list, dbkey) ==
  LET s == SelectSeq(list, LAMBDA ds : Tokens(ds.key) = dbkey) IN IF s = <<>> THEN NoLine ELSE s[1]

\* yang_dbkey_vec(): below a list the first word is an index.
RECURSIVE DbkeyVec(_, _, _)
DbkeyVec(t, n, vec) ==
  LET list == n # Module /\ t[n].kind = "list"
      rest == IF list THEN Tail(vec) ELSE vec
      ys == FindSpecnode(t, n, rest[1])
  IN IF vec = <<>> THEN NoNode
     ELSE IF list /\ Len(vec) = 1 THEN n
     ELSE IF ys = NoNode \/ Len(rest) = 1 THEN ys
     ELSE DbkeyVec(t, ys, Tail(rest))
Dbkey2yang(t, dbkey) == DbkeyVec(t, Module, dbkey)

----------------------------------------------------------------------------
(* A specification is written and read.                                    *)

\* The data node a statement belongs to, past choices and cases.
RECURSIVE DataUp(_, _)
DataUp(t, n) == IF n # Module /\ t[n].kind \in {"choice", "case"} THEN DataUp(t, t[n].up) ELSE n
FreshName(t, up, name) == \A i \in DOMAIN t : DataUp(t, t[i].up) = DataUp(t, up) => t[i].name # name

\* One more statement, as YANG allows; a list may lack the leaves of its key.
AddStmt(kind, name, up, config, keys, leaves) ==
  /\ result = NoResult /\ file = <<>> /\ Len(yang) < MaxStmts
  /\ up # Module => yang[up].kind \in {"container", "list", "choice", "case", "grouping"}
  /\ LET inchoice == up # Module /\ yang[up].kind = "choice"
     IN (kind = "case" => inchoice) /\ ~(kind = "choice" /\ inchoice)
  /\ kind = "grouping" => up = Module
  /\ FreshName(yang, up, name)
  /\ yang' = Append(yang, Stmt(kind, name, up, config, keys)) \o
             (IF leaves THEN [i \in DOMAIN keys |-> Stmt("leaf", keys[i], Len(yang) + 1, TRUE, <<>>)] ELSE <<>>)
  /\ UNCHANGED <<file, result>>

AddLine(key, vars) ==
  /\ result = NoResult /\ yang = <<>> /\ Len(file) < MaxLines
  /\ file' = Append(file, [key |-> key, vars |-> vars])
  /\ UNCHANGED <<yang, result>>

\* yang_spec_main(), then yang2cli().
YangSpecMain(gt) ==
  /\ result = NoResult /\ yang # <<>>
  /\ LET s == Yang2key(yang)
     IN result' = [st |-> s.st, t |-> yang, list |-> s.list,
                   cmds |-> IF s.st = "ok" THEN Yang2cli(yang, s.dbkey, gt) ELSE {}]
  /\ UNCHANGED <<yang, file>>
\* dbspec_key_main(), then yang2cli().
DbspecKeyMain(gt) ==
  /\ result = NoResult /\ file # <<>>
  /\ LET list == ParseFile(file)
         k == Key2yang(list)
     IN result' = IF list = <<>> THEN [NoResult EXCEPT !.st = "error"]
                  ELSE [st |-> k.st, t |-> k.t, list |-> list, cmds |-> IF k.st = "ok" THEN Yang2cli(k.t, k.dbkey, gt) ELSE {}]
  /\ UNCHANGED <<yang, file>>

FileKeys == {<<[name |-> "a", vec |-> v], [name |-> "b", vec |-> w]>> : v, w \in BOOLEAN}
            \cup {<<[name |-> w, vec |-> v]>> : w \in Words, v \in BOOLEAN}
FileVars == {<<[name |-> "k", unique |-> TRUE, cls |-> "ok"], [name |-> "x", unique |-> FALSE, cls |-> c]>> :
               c \in {"ok", "notvar", "baddefault"}}
            \cup {<<[name |-> "y", unique |-> FALSE, cls |-> "ok"]>>}

SpecNext ==
  \/ \E kind \in {"container", "leaf", "leaf-list", "choice", "case", "grouping"}, name \in Words,
        up \in {Module} \cup DOMAIN yang, config \in BOOLEAN :
          (kind \in {"container", "leaf"} \/ config) /\ AddStmt(kind, name, up, config, <<>>, FALSE)
  \/ \E name \in Words, up \in {Module} \cup DOMAIN yang, keys \in KeySeqs, leaves \in BOOLEAN :
        AddStmt("list", name, up, TRUE, keys, leaves)
  \/ \E key \in FileKeys, vars \in FileVars : AddLine(key, vars)
  \/ \E gt \in GenTypes : YangSpecMain(gt) \/ DbspecKeyMain(gt)

----------------------------------------------------------------------------
RECURSIVE Above(_, _)
Above(t, n) == IF n = Module THEN <<>> ELSE Append(Above(t, t[n].up), n)
\* Can the node be configured?
Visible(t, n) == \A a \in ToSet(Above(t, n)) : t[a].config /\ t[a].kind \notin Skipped
\* Its key by the position in the tree, and the keys of the lists around it.
KeyOfNode(t, n) ==
  LET s == SelectSeq(Above(t, n), LAMBDA a : t[a].kind \in {"container", "list"})
  IN [i \in DOMAIN s |-> [name |-> t[s[i]].name, vec |-> t[s[i]].kind = "list"]]
Uniques(t, n) ==
  LET s == SelectSeq(Above(t, n), LAMBDA a : t[a].kind = "list")
  IN FlattenSeq([i \in DOMAIN s |-> t[s[i]].keys])
DataNodes(t) == {n \in DOMAIN t : SpecNode(t[n].kind) /\ Visible(t, n)}
NamesOf(vars) == [i \in DOMAIN vars |-> vars[i].name]

(***************************************************************************)
(* The keys that yang2key() makes are exactly those of the nodes that can  *)
(* be configured, each once; a line has the keys of all lists around it,   *)
(* the outermost first, as its unique variables and the leaves of the node *)
(* as the others, unless two of these lists have a key of the same name.   *)
(* It fails exactly for a tree with nothing to configure, a list without   *)
(* the leaves of its key or a leaf outside all containers.  Every database *)
(* key is found again in the list, and in the tree where no choice hides   *)
(* the node.                                                               *)
(***************************************************************************)
DbspecExact ==
  yang # <<>> /\ result # NoResult =>
    LET t == result.t
        list == result.list
        dataparents == {n \in DataNodes(t) : t[n].kind \in {"container", "list"}}
    IN /\ result.st # "abort"
       /\ (result.st = "ok") =
            (/\ DataNodes(t) # {}
             /\ \A n \in DataNodes(t) : KeyOfNode(t, n) # <<>>
             /\ \A n \in DataNodes(t) : \A k \in ToSet(t[n].keys) : FindLeaf(t, n, k) # NoNode)
       /\ result.st = "ok" =>
            /\ {list[i].key : i \in DOMAIN list} = {KeyOfNode(t, n) : n \in dataparents}
            /\ Cardinality(DOMAIN list) = Cardinality(dataparents)
            /\ \A n \in dataparents :
                 LET ds == Key2specKey(list, Tokens(KeyOfNode(t, n)))
                     uniq == Uniques(t, n)
                     leaves == {m \in DataNodes(t) : t[m].kind \in {"leaf", "leaf-list"} /\ KeyOfNode(t, m) = KeyOfNode(t, n)
                                                /\ ~KeyMatch(t, m)}
                 IN /\ ds # NoLine /\ ds.key = KeyOfNode(t, n)
                    /\ IsInjective(uniq) =>
                         /\ NamesOf(SelectSeq(ds.vars, LAMBDA v : v.unique)) = uniq
                         /\ ToSet(NamesOf(SelectSeq(ds.vars, LAMBDA v : ~v.unique))) = {t[m].name : m \in leaves}
                    /\ (\A a \in ToSet(Above(t, n)) : t[a].kind # "choice") => Dbkey2yang(t, Tokens(ds.key)) = n

\* In every line no list and no unique variable, or one of each, and no name
\* that is a list in one line and a container in another.
OneList(list) ==
  /\ \A l \in ToSet(list) :
       LET lists == SelectSeq(l.key, LAMBDA e : e.vec)
           uniq == SelectSeq(l.vars, LAMBDA v : v.unique)
       IN Len(lists) <= 1 /\ Len(uniq) = Len(lists)
  /\ \A e, f \in UNION {ToSet(l.key) : l \in ToSet(list)} : e.name = f.name => e = f
VarNames(words) == {words[i].name : i \in {j \in DOMAIN words : words[j].var}}

(***************************************************************************)
(* The generated commands fit the specification: each sets a key of the    *)
(* list, the user has entered every unique variable of it, and a variable  *)
(* is completed from the database only when all others the completion      *)
(* needs have been entered before it; and every leaf has its command.      *)
(* For a file of keys this holds as long as a line has one list and one    *)
(* unique variable, or none of either, and no name is both list and        *)
(* container.                                                              *)
(***************************************************************************)
CommandsUsable ==
  result # NoResult /\ result.st = "ok" /\ (file # <<>> => OneList(result.list)) =>
    LET t == result.t
    IN /\ \A c \in result.cmds : c.spec # NoLine =>
            /\ \E l \in ToSet(result.list) : l.key = c.spec.key /\ ToSet(NamesOf(c.spec.vars)) \subseteq ToSet(NamesOf(l.vars))
            /\ {v.name : v \in {u \in ToSet(c.spec.vars) : u.unique \/ yang # <<>>}} \subseteq VarNames(c.words)
            /\ \A i \in DOMAIN c.words : c.words[i].expand # NoLine /\ yang # <<>> =>
                 ToSet(NamesOf(c.words[i].expand.vars)) \subseteq VarNames(SubSeq(c.words, 1, i))
       /\ \A n \in DataNodes(t) : t[n].kind \in {"leaf", "leaf-list"} =>
            \E c \in result.cmds : c.spec # NoLine /\ t[n].name \in VarNames(c.words)
                 /\ t[n].name \in ToSet(NamesOf(c.spec.vars))
                 /\ (yang # <<>> => c.spec.key = KeyOfNode(t, n))
=============================================================================
