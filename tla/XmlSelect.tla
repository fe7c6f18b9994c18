----------------------------- MODULE XmlSelect -----------------------------
(***************************************************************************)
(* The part of a configuration that get-config returns: netconf_filter()   *)
(* reads the database as an XML tree and cuts it down by a subtree filter  *)
(* (netconf_filter.c, which prunes the tree while it walks over it) or     *)
(* looks for the elements of an XPath (clicon_xsl.c, two vectors that are  *)
(* filled from each other step by step).                                   *)
(*                                                                         *)
(* An element is [name, kids, body].  A tree that is read from a database  *)
(* has no attributes.  A filter has none that matter: its attributes are   *)
(* compared with themselves.  A node is the sequence of positions that     *)
(* leads to it from the top, <<>>.                                         *)
(***************************************************************************)
EXTENDS Integers, Sequences, FiniteSets, SequencesExt

CONSTANTS
  Docs,        \* configurations, as the children of the top element
  Subtrees,    \* subtree filters, as the children of <configuration>
  Xpaths,      \* selectors: sequences of paths, for p1 | p2
  NoBody       \* no body, no tree

ASSUME XmlSelectAssumption == \A xp \in Xpaths : xp # <<>>

VARIABLES
  stored,      \* the database as a tree
  query,       \* the filter of the request
  reply        \* [st, data]

selectVars == <<stored, query, reply>>
NoQuery == [kind |-> "none"]
NoReply == [st |-> "none", data |-> <<>>]
SelectInit == stored = NoBody /\ query = NoQuery /\ reply = NoReply

Top(name, kids) == [name |-> name, kids |-> kids, body |-> NoBody]
ChildNr(x) == Len(x.kids) + (IF x.body = NoBody THEN 0 ELSE 1)
\* leafstring(): the body of an element that has nothing else.
LeafString(x) == IF x.kids = <<>> THEN x.body ELSE NoBody
\* xml_find(): the position of the first child of the name, or 0.
FindChild(x, name) == SelectInSeq(x.kids, LAMBDA c : c.name = name)

----------------------------------------------------------------------------
(* The subtree filter.                                                     *)

ContentMatch(filter, parent) ==
  \A i \in DOMAIN filter.kids :
    LET fstr == LeafString(filter.kids[i])
        s == FindChild(parent, filter.kids[i].name)
    IN fstr # NoBody => s # 0 /\ LeafString(parent.kids[s]) \in {fstr, NoBody}
Containments(filter) == SelectSeq(filter.kids, LAMBDA c : LeafString(c) = NoBody)

\* After xml_prune() of the child at i the walk goes on behind sprev.
MutantAfterPrune(i, sprev) == i
AfterPrune(i, sprev) == sprev

\* select_siblings() and its loop over the children of parent, of which s and
\* sprev are the position reached and the one kept last.
RECURSIVE SelectSiblings(_, _)
RECURSIVE PruneLoop(_, _, _, _)
PruneLoop(filter, kids, s, sprev) ==
  LET i == s + 1
      f == FindChild(filter, kids[i].name)
      sub == SelectSiblings(filter.kids[f], kids[i])
      pruned == PruneLoop(filter, RemoveAt(kids, i), AfterPrune(i, sprev), sprev)
  IN IF i > Len(kids) THEN kids
     ELSE IF f = 0 THEN pruned
     ELSE IF LeafString(filter.kids[f]) # NoBody THEN PruneLoop(filter, kids, i, i)
     ELSE IF sub.remove THEN pruned
     ELSE PruneLoop(filter, [kids EXCEPT ![i] = sub.x], i, i)
SelectSiblings(filter, parent) ==
  IF ChildNr(filter) = 0 THEN [x |-> parent, remove |-> FALSE]
  ELSE IF ~ContentMatch(filter, parent) THEN [x |-> parent, remove |-> TRUE]
  ELSE IF Containments(filter) = <<>> THEN [x |-> parent, remove |-> FALSE]
  ELSE [x |-> [parent EXCEPT !.kids = PruneLoop(filter, @, 0, 0)], remove |-> FALSE]

\* xml_filter() does not look at remove_s.
XmlFilter(filter, x) == SelectSiblings(filter, x).x

----------------------------------------------------------------------------
(* XPath.  A path is [steps, attr, pred]: a step is [recurse, names], the  *)
(* names that its pattern matches; attr says that an attribute is selected *)
(* at the end, which no element has; pred is the expression in brackets.   *)

RECURSIVE NodeAt(_, _)
NodeAt(x, p) == IF p = <<>> THEN x ELSE NodeAt(x.kids[p[1]], Tail(p))
Offspring(x, p) == [i \in 1..Len(NodeAt(x, p).kids) |-> Append(p, i)]

\* recursive_find() does not go below an element that matches.
RECURSIVE RecursiveFind(_, _, _)
RecursiveFind(x, p, names) ==
  FlattenSeq([i \in DOMAIN Offspring(x, p) |->
    LET c == Offspring(x, p)[i] IN IF NodeAt(x, c).name \in names THEN <<c>> ELSE RecursiveFind(x, c, names)])

\* One round of the loop of xpath_exec(): v1 is filled from v0.
MutantXpathStep(x, v0, step) ==
  FlattenSeq([i \in DOMAIN v0 |->
    IF step.recurse THEN RecursiveFind(x, v0[i], step.names)
    ELSE LET s == SelectSeq(Offspring(x, v0[i]), LAMBDA c : NodeAt(x, c).name \in step.names)
         IN IF s = <<>> THEN s ELSE <<s[1]>>])
XpathStep(x, v0, step) ==
  FlattenSeq([i \in DOMAIN v0 |->
    IF step.recurse THEN RecursiveFind(x, v0[i], step.names)
    ELSE SelectSeq(Offspring(x, v0[i]), LAMBDA c : NodeAt(x, c).name \in step.names)])

\* xpath_expr(): an index counts in the whole vector; a tag is looked for with
\* xml_find(), so only the first child of that name counts.
XpathExpr(x, v0, pred) ==
  CASE pred.kind = "none" -> v0
    [] pred.kind = "index" -> IF pred.n < Len(v0) THEN <<v0[pred.n + 1]>> ELSE <<>>
    [] pred.kind = "tag" -> SelectSeq(v0, LAMBDA p : LET n == NodeAt(x, p)
                                                         c == FindChild(n, pred.tag)
                                                     IN c # 0 /\ n.kids[c].body = pred.val)
    [] OTHER -> <<>>
\* xpath_exec(), after xpath_loop() has cut the expression off.
XpathExec(x, path) ==
  LET v == FoldLeft(LAMBDA v0, step : XpathStep(x, v0, step), << <<>> >>, path.steps)
  IN XpathExpr(x, IF path.attr THEN <<>> ELSE v, path.pred)
\* xpath_internal(): the results of all alternatives; a malformed expression
\* ends the loop.
Malformed(path) == path.pred.kind = "malformed"
XpathInternal(x, xp) ==
  LET bad == SelectInSeq(xp, Malformed)
      n == IF bad = 0 THEN Len(xp) ELSE bad - 1
  IN FlattenSeq([i \in 1..n |-> XpathExec(x, xp[i])])
\* xpath_each(): the result behind the one that came before.
XpathEach(x, xp, prev) ==
  LET v == XpathInternal(x, xp)
      i == IF prev = NoBody THEN 0 ELSE SelectInSeq(v, LAMBDA p : p = prev)
  IN IF i < Len(v) THEN v[i + 1] ELSE NoBody

----------------------------------------------------------------------------
Replied(data) == reply' = [st |-> "ok", data |-> data]
Refused == reply' = [st |-> "error", data |-> <<>>]
Asked(q) == stored # NoBody /\ query = NoQuery /\ query' = q /\ UNCHANGED stored

\* db2xml_key(): the tree of the database.
ReadRegistry(doc) == stored = NoBody /\ stored' = Top("clicon", doc) /\ UNCHANGED <<query, reply>>

\* netconf_xpath(); a selector is missing, malformed or followed.
NetconfXpath(xp) ==
  /\ Asked([kind |-> "xpath", sel |-> xp])
  /\ IF \E i \in DOMAIN xp : Malformed(xp[i]) THEN Refused
     ELSE Replied([i \in DOMAIN XpathInternal(stored, xp) |-> NodeAt(stored, XpathInternal(stored, xp)[i])])
\* netconf_filter() without a filter, with one without <configuration>, with
\* one of a type that is not served, and with a subtree.
GetAll ==
  Asked([kind |-> "all"]) /\ Replied(IF stored.kids = <<>> THEN <<>> ELSE <<Top("configuration", stored.kids)>>)
EmptyFilter == Asked([kind |-> "empty"]) /\ Replied(<<>>)
BadFilter == Asked([kind |-> "bad"]) /\ Refused
NetconfFilter(kids) ==
  LET xc == XmlFilter(Top("configuration", kids), Top("configuration", stored.kids))
  IN /\ Asked([kind |-> "subtree", sel |-> kids])
     /\ Replied(IF ChildNr(xc) = 0 THEN <<>> ELSE <<xc>>)

SelectNext ==
  \/ \E doc \in Docs : ReadRegistry(doc)
  \/ \E xp \in Xpaths : NetconfXpath(xp)
  \/ \E kids \in Subtrees : NetconfFilter(kids)
  \/ GetAll \/ EmptyFilter \/ BadFilter

----------------------------------------------------------------------------
\* What a filter selects of an element, in the terms of RFC 4741: content
\* that differs deselects the element, containment nodes choose among the
\* children, and a filter without them selects all.
RECURSIVE Selected(_, _)
Chosen(filter, c) ==
  \E i \in DOMAIN filter.kids :
    /\ filter.kids[i].name = c.name
    /\ LeafString(filter.kids[i]) = NoBody => ContentMatch(filter.kids[i], c)
Selected(filter, x) ==
  LET kept == SelectSeq(x.kids, LAMBDA c : Chosen(filter, c))
      sub(c) == LET f == filter.kids[FindChild(filter, c.name)]
                IN IF LeafString(f) # NoBody THEN c ELSE Selected(f, c)
  IN IF Containments(filter) = <<>> THEN x
     ELSE [x EXCEPT !.kids = [i \in DOMAIN kept |-> sub(kept[i])]]

(***************************************************************************)
(* "Match according to Section 6 of RFC 4741": a subtree filter in which   *)
(* no name comes twice, and whose content matches at the top, keeps        *)
(* exactly what it selects, although children are pruned from the vector   *)
(* that is being walked over.  Content that does not match at the top is   *)
(* not covered: xml_filter ignores that result and nothing is pruned.      *)
(***************************************************************************)
FilterExact ==
  query.kind = "subtree" =>
    LET f == Top("configuration", query.sel)
        x == Top("configuration", stored.kids)
        want == Selected(f, x)
    IN ContentMatch(f, x) => reply.data = IF want.kids = <<>> THEN <<>> ELSE <<want>>

\* All nodes below the top, the names on the way to one, and the nodes that a
\* path leads to: the names fall into one piece per step, of one name or, for
\* //, up to the first name that matches.
RECURSIVE NodesBelow(_, _)
NodesBelow(x, p) == {p} \cup UNION {NodesBelow(x, Append(p, i)) : i \in DOMAIN NodeAt(x, p).kids}
NamesTo(x, p) == [i \in DOMAIN p |-> NodeAt(x, SubSeq(p, 1, i)).name]
LeadsTo(steps, names) ==
  \E cut \in [0..Len(steps) -> 0..Len(names)] :
    /\ cut[0] = 0 /\ cut[Len(steps)] = Len(names)
    /\ \A s \in DOMAIN steps :
         /\ cut[s - 1] < cut[s] /\ (~steps[s].recurse => cut[s] = cut[s - 1] + 1)
         /\ names[cut[s]] \in steps[s].names
         /\ \A k \in (cut[s - 1] + 1)..(cut[s] - 1) : names[k] \notin steps[s].names
Before(p, q) == IsStrictPrefix(p, q)
                \/ \E n \in DOMAIN p \cap DOMAIN q : SubSeq(p, 1, n - 1) = SubSeq(q, 1, n - 1) /\ p[n] < q[n]
NodesOf(x, path) ==
  SetToSortSeq({p \in NodesBelow(x, <<>>) : LeadsTo(path.steps, NamesTo(x, p))}, Before)

(***************************************************************************)
(* An XPath returns the elements it leads to, each once and in the order   *)
(* of the document, and of those the ones that the expression in brackets  *)
(* chooses; xpath_each() goes through the same ones, and comes to an end.  *)
(***************************************************************************)
XpathExact ==
  query.kind = "xpath" /\ reply.st = "ok" =>
    LET want == FlattenSeq([i \in DOMAIN query.sel |->
                  LET p == query.sel[i] IN IF p.attr THEN <<>> ELSE XpathExpr(stored, NodesOf(stored, p), p.pred)])
    IN /\ reply.data = [i \in DOMAIN want |-> NodeAt(stored, want[i])]
       /\ IsInjective(want) => \A i \in DOMAIN want :
            XpathEach(stored, query.sel, IF i = 1 THEN NoBody ELSE want[i - 1]) = want[i]
       /\ IsInjective(want) /\ want # <<>> => XpathEach(stored, query.sel, Last(want)) = NoBody
=============================================================================
