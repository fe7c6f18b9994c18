------------------------------- MODULE XmlMap -------------------------------
(***************************************************************************)
(* A database is saved as an XML file and loaded again: db2xml() enters    *)
(* the records one by one into a tree, in the order in which the database  *)
(* iterates over its keys, and xml2db() walks the tree and writes records. *)
(* The client's save and load requests, the start-up with -c and the       *)
(* archive all go this way.                                                *)
(*                                                                         *)
(* A key such as a.0.c is <<"a", "0", "c">>, the key a[].c of the          *)
(* specification <<"a", "[]", "c">>.  A record is a sequence of variables. *)
(***************************************************************************)
EXTENDS Integers, Sequences, FiniteSets, SequencesExt

CONSTANTS
  Lines,        \* the specification: [key, vars, vector]; a variable is [name, unique, def]
  EntryIndexes, \* indexes of list entries
  Values,       \* values; "" is empty, Markup has a "<" in it
  Markup,
  NoValue,      \* no value, no body
  MaxRecords    \* bound: records in the database

ASSUME XmlMapAssumption == MaxRecords \in Nat /\ {"", Markup} \cap EntryIndexes = {}

VARIABLES
  source,    \* the database that is saved: key -> record
  left,      \* keys that db2xml() has not entered yet
  xml,       \* the tree: a sequence of [name, up, val], up = 0 at the top
  target,    \* the database that is loaded
  stage      \* "edit", "save", "saved", "loaded", "refused"

xmlVars == <<source, left, xml, target, stage>>

XmlInit == source = <<>> /\ left = {} /\ xml = <<>> /\ target = <<>> /\ stage = "edit"

NoSpec == [key |-> <<>>, vars |-> <<>>, vector |-> FALSE]
\* key2spec_key(): the line of a database key.
SpecKey(key) == [i \in DOMAIN key |-> IF key[i] \in EntryIndexes THEN "[]" ELSE key[i]]
SpecOf(key) == LET s == SelectSeq(Lines, LAMBDA l : l.key = SpecKey(key)) IN IF s = <<>> THEN NoSpec ELSE s[1]
\* key_isvector()
IsVector(key) == key # <<>> /\ Last(key) = "[]"
UniqueVars(l) == SelectSeq(l.vars, LAMBDA v : v.unique)
HasVar(rec, name) == \E i \in DOMAIN rec : rec[i].name = name

\* cvec_merge() with the default values, at the end of db_lv_set().
MergeDefaults(rec, l) ==
  FoldLeft(LAMBDA r, v : IF v.def = NoValue \/ HasVar(r, v.name) THEN r
                         ELSE Append(r, [name |-> v.name, unique |-> v.unique, val |-> v.def]), rec, l.vars)

----------------------------------------------------------------------------
(* From the database to XML.                                               *)

ChildrenOf(x, n) == SelectSeq([i \in 1..Len(x) |-> i], LAMBDA i : x[i].up = n)
\* xml_find(): the first child with the name.
XmlFind(x, n, name) ==
  LET s == SelectSeq(ChildrenOf(x, n), LAMBDA i : x[i].name = name) IN IF s = <<>> THEN 0 ELSE s[1]
\* xml_new()
XmlNew(x, n, name, val) == Append(x, [name |-> name, up |-> n, val |-> val])

\* xml_xfind_vec(): the keys are looked for in order, each after the one before.
RECURSIVE KeysAmong(_, _, _)
KeysAmong(x, kids, cvv) ==
  LET s == SelectSeq([i \in 1..Len(kids) |-> i], LAMBDA i : x[kids[i]].name = cvv[1].name)
  IN cvv = <<>> \/ (s # <<>> /\ x[kids[s[1]]].val = cvv[1].val
                    /\ KeysAmong(x, SubSeq(kids, s[1] + 1, Len(kids)), Tail(cvv)))
MutantXfindVec(x, n, name, cvv) == XmlFind(x, n, name)
XfindVec(x, n, name, cvv) ==
  LET s == SelectSeq(ChildrenOf(x, n), LAMBDA i : x[i].name = name /\ KeysAmong(x, ChildrenOf(x, i), cvv))
  IN IF s = <<>> THEN 0 ELSE s[1]

\* One name of the key: a is [x, xnp, xn, prevspec, uvr].  FindOrNew goes to
\* the element of that name below xnp and makes it if there is none.
FindOrNew(a, name) ==
  LET old == XmlFind(a.x, a.xnp, name)
      x == IF old = 0 THEN XmlNew(a.x, a.xnp, name, NoValue) ELSE a.x
      n == IF old = 0 THEN Len(x) ELSE old
  IN [a EXCEPT !.x = x, !.xnp = n, !.xn = n]

\* A list entry: the unique variables that no outer list has, with the values
\* of the record at the same places, tell the entries apart.
ListEntry(a, key, n, l, rec) ==
  LET u == UniqueVars(l)
      uvr0 == [i \in 1..(Len(u) - Len(a.uvr)) |->
                 [name |-> u[Len(a.uvr) + i].name, unique |-> TRUE, val |-> rec[Len(a.uvr) + i].val]]
      old == XfindVec(a.x, a.xnp, key[n - 1], uvr0)
      top == XmlNew(a.x, a.xnp, key[n - 1], NoValue)
      x == IF old # 0 THEN a.x
           ELSE FoldLeft(LAMBDA y, v : XmlNew(y, Len(top), v.name, v.val), top, uvr0)
      node == IF old # 0 THEN old ELSE Len(top)
  IN IF Len(u) <= Len(a.uvr) THEN [a EXCEPT !.prevspec = TRUE]
     ELSE [a EXCEPT !.x = x, !.xnp = node, !.xn = node, !.uvr = @ \o uvr0, !.prevspec = TRUE]

KeyPart(a, key, n, rec) ==
  LET l == SpecOf(SubSeq(key, 1, n))
      up == IF a.prevspec THEN a ELSE FindOrNew(a, key[n - 1])
  IN IF l = NoSpec THEN [up EXCEPT !.prevspec = FALSE]
     ELSE IF IsVector(l.key) THEN ListEntry(a, key, n, l, rec)
     ELSE FindOrNew([up EXCEPT !.prevspec = TRUE], key[n])

\* var2xml_all(): the variables that are not keys, below the element.
Var2xmlAll(x, n, rec) ==
  FoldLeft(LAMBDA y, v : IF v.unique THEN y ELSE XmlNew(y, n, v.name, v.val), x, rec)

\* dbkey2xml(); it passes over the keys a.n and a.n.<content>, which hold the
\* indexes of a list and are left out here.
Dbkey2xml(key, rec, x) ==
  LET a == FoldLeft(LAMBDA s, n : KeyPart(s, key, n, rec),
                    [x |-> x, xnp |-> 0, xn |-> 0, prevspec |-> TRUE, uvr |-> <<>>],
                    [i \in 1..Len(key) |-> i])
  IN Var2xmlAll(a.x, a.xn, rec)

----------------------------------------------------------------------------
(* The file, and from XML to the database.                                 *)

\* clicon_xml2cbuf() does not escape a value and xml_parse() fails at a "<" in
\* it; an empty value comes back as an element without a body.
Parses(x) == \A i \in DOMAIN x : x[i].val # Markup
Reparsed(x) == [i \in DOMAIN x |-> IF x[i].val = "" THEN [x[i] EXCEPT !.val = NoValue] ELSE x[i]]

Leaf(x, n) == x[n].val # NoValue
\* xml_find_body()
FindBody(x, n, name) == LET i == XmlFind(x, n, name) IN IF i = 0 THEN NoValue ELSE x[i].val

\* key2spec(): the first line with this key or this list; a line that goes on
\* with the key lets the walk go on.
Key2spec(base) == SelectSeq(Lines, LAMBDA l : l.key = base \/ l.key = Append(base, "[]"))
Partial(base) == \E i \in DOMAIN Lines : IsPrefix(base, Lines[i].key)

\* xml2db_transform_key(), which xml2db_1() calls with isvector = 0 only: the
\* unique variables, then the leaves that the specification knows, then the
\* default values.
TransformKey(x, n, l, uv) ==
  LET leaf(r, c) ==
        LET v == SelectSeq(l.vars, LAMBDA w : w.name = x[c].name)
            i == CHOOSE j \in DOMAIN r : r[j].name = x[c].name
        IN IF ~Leaf(x, c) THEN r
           ELSE IF ~l.vector /\ HasVar(r, x[c].name) THEN [r EXCEPT ![i].val = x[c].val]
           ELSE IF v = <<>> THEN r
           ELSE Append(r, [name |-> x[c].name, unique |-> v[1].unique, val |-> x[c].val])
  IN MergeDefaults(FoldLeft(leaf, uv, ChildrenOf(x, n)), l)

\* xml2db_1(): a is [db, ok].  A list entry pushes its unique variables for
\* what is below it and is not written itself; the key has no index.
RECURSIVE Xml2db1(_, _, _, _, _, _)
Xml2db1(x, n, uv, base0, key0, a) ==
  LET name == x[n].name
      found == Key2spec(Append(base0, name))
      l == found[1]
      key == Append(key0, name)
      base == IF found = <<>> THEN Append(base0, name) ELSE l.key
      new == SelectSeq(UniqueVars(l), LAMBDA v : ~HasVar(uv, v.name))
      pushed == [i \in 1..Len(new) |-> [name |-> new[i].name, unique |-> TRUE, val |-> FindBody(x, n, new[i].name)]]
      loop(u, b) == FoldLeft(LAMBDA s, c : IF Leaf(x, c) \/ ~s.ok THEN s ELSE Xml2db1(x, c, u, base, key, s),
                             b, ChildrenOf(x, n))
  IN IF found = <<>> THEN IF Partial(base) THEN loop(uv, a) ELSE a
     ELSE IF ~IsVector(base)
     THEN loop(uv, [a EXCEPT !.db = (key :> TransformKey(x, n, l, uv)) @@ @])
     ELSE IF \E i \in DOMAIN pushed : pushed[i].val = NoValue THEN [a EXCEPT !.ok = FALSE]
     ELSE loop(uv \o pushed, a)

\* xml2db() stops at the first failure, and returns 0 then too.
Xml2db(x) ==
  FoldLeft(LAMBDA s, c : IF s.ok THEN Xml2db1(x, c, <<>>, <<>>, <<>>, s) ELSE s,
           [db |-> <<>>, ok |-> TRUE], ChildrenOf(x, 0)).db

----------------------------------------------------------------------------
\* The keys of the specification with all indexes; the value of a list's key
\* goes with the index, as lists are indexed by it.
DbKeys ==
  UNION {{k \in [DOMAIN Lines[i].key -> EntryIndexes \cup ToSet(Lines[i].key)] : SpecKey(k) = Lines[i].key /\ "[]" \notin ToSet(k)}
         : i \in DOMAIN Lines}
IndexesOf(key) == SelectSeq(key, LAMBDA w : w \in EntryIndexes)

\* A record is set by db_lv_set(): a list entry takes the index as the value of
\* its last key, the variables that are not keys the values vals or none.
PutRecord(key, vals) ==
  LET l == SpecOf(key)
      ix == IndexesOf(key)
      uniq == [i \in 1..Len(UniqueVars(l)) |-> [name |-> UniqueVars(l)[i].name, unique |-> TRUE, val |-> ix[i]]]
      plain == SelectSeq(l.vars, LAMBDA v : ~v.unique)
  IN /\ stage = "edit" /\ key \notin DOMAIN source /\ Cardinality(DOMAIN source) < MaxRecords
     /\ Len(vals) <= (IF l.vector THEN 2 ELSE Len(plain))
     /\ source' = (key :> MergeDefaults(uniq \o [i \in DOMAIN vals |-> [name |-> plain[1].name, unique |-> FALSE, val |-> vals[i]]], l))
                  @@ source
     /\ UNCHANGED <<left, xml, target, stage>>

\* save_db_to_xml(), db2xml(), db_regexp()
SaveDbToXml ==
  /\ stage = "edit" /\ source # <<>>
  /\ stage' = "save" /\ left' = DOMAIN source
  /\ UNCHANGED <<source, xml, target>>
\* dbpairs2xml(): the next pair that the iteration has found.
Dbpairs2xml(key) ==
  /\ stage = "save" /\ key \in left
  /\ xml' = Dbkey2xml(key, source[key], xml)
  /\ left' = left \ {key}
  /\ stage' = IF left' = {} THEN "saved" ELSE "save"
  /\ UNCHANGED <<source, target>>
\* load_xml_to_db()
LoadXmlToDb ==
  /\ stage = "saved"
  /\ IF Parses(xml) THEN stage' = "loaded" /\ target' = Xml2db(Reparsed(xml))
     ELSE stage' = "refused" /\ UNCHANGED target
  /\ UNCHANGED <<source, left, xml>>

XmlNext ==
  \/ \E key \in DbKeys, vals \in SeqOf(Values, 2) : PutRecord(key, vals)
  \/ SaveDbToXml
  \/ \E key \in left : Dbpairs2xml(key)
  \/ LoadXmlToDb

----------------------------------------------------------------------------
\* The element of a node, by names and, for a list entry, its index; and the
\* elements a key stands for.
RECURSIVE PathOf(_)
PathOf(n) ==
  LET key == SelectSeq(ChildrenOf(xml, n), LAMBDA i : xml[i].name \in {"k", "m"})
  IN IF n = 0 THEN <<>>
     ELSE PathOf(xml[n].up) \o <<xml[n].name>> \o [i \in DOMAIN key |-> xml[key[i]].val]
Elements == {n \in DOMAIN xml : xml[n].val = NoValue}
PathsOf(key) == {SubSeq(key, 1, i) : i \in {j \in DOMAIN key : j = Len(key) \/ key[j + 1] \notin EntryIndexes}}
LeavesOf(n) == LET s == SelectSeq(ChildrenOf(xml, n), LAMBDA i : xml[i].val # NoValue /\ xml[i].name \notin {"k", "m"})
               IN [i \in DOMAIN s |-> [name |-> xml[s[i]].name, val |-> xml[s[i]].val]]
VarsOf(rec) == LET s == SelectSeq(rec, LAMBDA v : ~v.unique) IN [i \in DOMAIN s |-> [name |-> s[i].name, val |-> s[i].val]]

\* The saved tree has one element for every record and for every container
\* and list entry around one, at its place, and the element of a record has
\* exactly the variables of the record as leaves.
SavedExactly ==
  stage = "saved" =>
    /\ {PathOf(n) : n \in Elements} = UNION {PathsOf(k) : k \in DOMAIN source}
    /\ \A n, m \in Elements : PathOf(n) = PathOf(m) => n = m
    /\ \A n \in Elements :
         LeavesOf(n) = IF PathOf(n) \in DOMAIN source THEN VarsOf(source[PathOf(n)]) ELSE <<>>

InList(key) == ToSet(key) \cap EntryIndexes # {}
NoEmpty(rec) == \A i \in DOMAIN rec : rec[i].val # ""
\* A record that is in no list and has no empty value is loaded as it was
\* saved, and no other record outside lists.
ContainersLoaded ==
  stage = "loaded" =>
    /\ \A k \in DOMAIN source : ~InList(k) /\ NoEmpty(source[k]) => k \in DOMAIN target /\ target[k] = source[k]
    /\ \A k \in DOMAIN target : SpecOf(k) # NoSpec => k \in DOMAIN source

(***************************************************************************)
(* Whatever order the database gives its keys in, the tree that is saved   *)
(* is the database: no entry is mistaken for one with an equal key in      *)
(* another list, none appears twice and no variable at another place.  And *)
(* what is saved outside lists is loaded again, also below a container     *)
(* that has no line of its own.                                            *)
(***************************************************************************)
SaveExact == SavedExactly /\ ContainersLoaded

(***************************************************************************)
(* "Load a saved XML file into a db": a database without empty values is   *)
(* the same after it has been saved and loaded.                            *)
(***************************************************************************)
LoadRestores ==
  stage = "loaded" /\ (\A k \in DOMAIN source : NoEmpty(source[k])) => target = source
=============================================================================
