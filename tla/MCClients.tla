------------------------------ MODULE MCClients ------------------------------
(***************************************************************************)
(* The clients, what they say to the backend and the data they share with  *)
(* it: messages, lists in the database, the netconf session, the shell and *)
(* the commands of the CLI, the specification and the XML files.  The      *)
(* modules share no variable, so one run checks them side by side: the     *)
(* initial state chooses the part that moves.                              *)
(***************************************************************************)
EXTENDS MsgChannel, ListDb, NetconfSession, CliShell, CliSession, SpecTranslate, XmlMap, XmlSelect

VARIABLE part

channelOnly == <<listVars, netconfVars, cliVars, sessionVars, specVars, xmlVars, selectVars>>
listOnly    == <<channelVars, netconfVars, cliVars, sessionVars, specVars, xmlVars, selectVars>>
netconfOnly == <<channelVars, listVars, cliVars, sessionVars, specVars, xmlVars, selectVars>>
shellOnly   == <<channelVars, listVars, netconfVars, sessionVars, specVars, xmlVars, selectVars>>
sessionOnly == <<channelVars, listVars, netconfVars, cliVars, specVars, xmlVars, selectVars>>
specOnly    == <<channelVars, listVars, netconfVars, cliVars, sessionVars, xmlVars, selectVars>>
xmlOnly     == <<channelVars, listVars, netconfVars, cliVars, sessionVars, specVars, selectVars>>
selectOnly  == <<channelVars, listVars, netconfVars, cliVars, sessionVars, specVars, xmlVars>>
clientsVars == <<part, channelVars, channelOnly>>

\* The parts that do not move have one initial state each.
ClientsInit ==
  /\ part \in {"channel", "list", "netconf", "shell", "session", "spec", "xml", "select"}
  /\ ChannelInit /\ ListInit /\ NetconfInit /\ CliInit /\ CliSessionInit /\ SpecInit /\ XmlInit /\ SelectInit
  /\ part # "netconf" => candFile
  /\ part # "shell" => disk = PluginFiles /\ ~quiet
  /\ part # "session" => autocommit /\ db["candidate"] # Missing

\* Bounds on top of those of the modules: a third operation on a list begins
\* when no other is under way; a session that gets two messages gets no request
\* that is only answered, two sessions get one each that touches the candidate
\* and read it whole; a fourth command of a CLI is an edit of one item, beside
\* other such edits; a third record makes a database of plain values.
ListBound == listOps' = 3 => Cardinality({c \in ListClients : lclient'[c].pc # "idle"}) <= 1
TouchCandidate == {<<t>> : t \in {"edit-config", "replace-config", "copy-config", "delete-config", "commit", "discard-changes"}}
NetconfBound ==
  /\ (\A s \in Sessions : net'[s].sent # <<>>) =>
        \A s \in Sessions : ToSet(net'[s].sent) \subseteq TouchCandidate /\ Len(net'[s].wire) \in {0, 3}
  /\ \A s \in Sessions : Len(net'[s].sent) > 1 =>
        ToSet(net'[s].sent) \subseteq TouchCandidate \cup {<<t>> : t \in {"create-subscription", "close-session", "unparsable"}}
                                                 \cup {<<"app", "commit">>, <<"unknown", "unknown">>, <<"unknown", "commit">>}
SessionBound ==
  commands' = 4 => \A c \in Clis : cli'[c].pc = "busy" =>
                     Len(cli'[c].todo) <= 2 /\ \A i \in DOMAIN cli'[c].todo : cli'[c].todo[i].op \in {"set", "del"}
XmlBound ==
  Cardinality(DOMAIN source') = 3 => \A k \in DOMAIN source' : \A i \in DOMAIN source'[k] : source'[k][i].val \notin {"", Markup}

ClientsNext ==
  /\ UNCHANGED part
  /\ \/ part = "channel" /\ ChannelNext /\ UNCHANGED channelOnly
     \/ part = "list" /\ ListNext /\ ListBound /\ UNCHANGED listOnly
     \/ part = "netconf" /\ NetconfNext /\ NetconfBound /\ UNCHANGED netconfOnly
     \/ part = "shell" /\ CliNext /\ UNCHANGED shellOnly
     \/ part = "session" /\ CliSessionNext /\ SessionBound /\ UNCHANGED sessionOnly
     \/ part = "spec" /\ SpecNext /\ UNCHANGED specOnly
     \/ part = "xml" /\ XmlNext /\ XmlBound /\ UNCHANGED xmlOnly
     \/ part = "select" /\ SelectNext /\ UNCHANGED selectOnly

ClientsSpec == ClientsInit /\ [][ClientsNext]_clientsVars

Symmetry == Permutations(ListClients) \cup Permutations(OuterKeys) \cup Permutations(Sessions) \cup Permutations(Clis)

MCNames == {<<>>, <<"a">>, <<"a", "b">>}
MCTexts == {<<"hello">>, <<"neither">>, <<"unparsable">>} \cup {<<t>> : t \in KnownTags}
           \cup {<<"unknown", "app">>, <<"app", "unknown">>, <<"app", "commit">>, <<"unknown", "unknown">>,
                 <<"unknown", "commit">>, <<"unknown", "edit-config">>}

MCPluginFiles == {"sys", "app"} \X {"master", "p"}
MCExports ==
  [p \in PluginFiles |->
     CASE p = <<"sys", "master">> -> {"plugin_parse_hook", "quit", "shell", "run", "mode"}
       [] p = <<"app", "master">> -> {"quit", "show", "plugin_parse_hook"}
       [] p = <<"sys", "p">> -> {"show", "edit", "top"}
       [] OTHER -> {"show", "edit", "top", "mode"}]
MCCliFiles == <<[modes |-> {"top", "sub"}, plugin |-> "p", cmds |-> {"show", "edit", "top"}],
                [modes |-> {"top"}, plugin |-> NoPlugin, cmds |-> {"quit", "shell", "run", "mode"}]>>
MCHookUp == [m \in CliModes |-> CASE m = "sub" -> "top" [] m = "new" -> "sub" [] OTHER -> NoMode]
MCKids == [n \in Nodes \cup {Op} |-> CASE n = Op -> {"a", "b"} [] n = "a" -> {"c"} [] n = "c" -> {"d"} [] OTHER -> {}]
MCBelow == [i \in Items |-> IF i = "p" THEN {"c"} ELSE {}]
MCFill == [i \in Items |-> IF i = "p" THEN {"d"} ELSE {}]
MCKeySeqs == {<<"k">>, <<"k", "l">>}

Key(name) == [name |-> name, unique |-> TRUE, def |-> NoValue]
Plain(name, def) == [name |-> name, unique |-> FALSE, def |-> def]
Line(key, vars, vector) == [key |-> key, vars |-> vars, vector |-> vector]
MCLines ==
  <<Line(<<"a", "[]">>, <<Key("k")>>, FALSE),
    Line(<<"a", "[]", "b", "[]">>, <<Key("k"), Key("m"), Plain("y", NoValue)>>, FALSE),
    Line(<<"a", "[]", "c">>, <<Key("k"), Plain("z", NoValue)>>, FALSE),
    Line(<<"d">>, <<Plain("x", NoValue)>>, TRUE),
    Line(<<"e", "f">>, <<Plain("y", "0")>>, FALSE)>>

El(name, kids) == [name |-> name, kids |-> kids, body |-> NoBody]
Text(name, body) == [name |-> name, kids |-> <<>>, body |-> body]
\* Entries with a key k, another leaf v, an empty element or an inner element a.
MCEntries ==
  {El("b", kids) : kids \in {<<>>, <<Text("k", "1")>>, <<El("a", <<Text("k", "1")>>), Text("v", "1")>>}} \cup
  {El("a", kids) : kids \in {<<>>} \cup {<<Text("k", w)>> : w \in {"1", "2"}}
                          \cup {<<Text("k", w), Text("v", "1")>> : w \in {"1", "2"}}
                          \cup {<<Text("k", "1"), El("v", <<>>)>>, <<El("a", <<Text("k", "1")>>), Text("v", "1")>>,
                                 <<El("a", <<Text("k", "2")>>), El("b", <<>>), El("a", <<Text("k", "1")>>)>>}}
MCDocs == SeqOf(MCEntries, 2) \cup {<<x, y, z>> : x, y, z \in {El("b", <<Text("k", "1")>>), El("a", <<Text("k", "2")>>), El("c", <<>>)}}
MCFilterElements ==
  {El(n, kids) : n \in {"a", "b"},
                 kids \in {<<>>, <<Text("k", "1")>>, <<El("k", <<>>)>>, <<Text("k", "1"), El("v", <<>>)>>,
                          <<El("a", <<Text("k", "1")>>)>>, <<El("a", <<El("k", <<>>)>>), El("v", <<>>)>>}}
MCSubtrees == {<<>>, <<Text("k", "1")>>} \cup {<<f>> : f \in MCFilterElements}
              \cup {<<f, g>> : f \in {e \in MCFilterElements : e.name = "a"},
                              g \in {e \in MCFilterElements : e.name = "b" /\ Len(e.kids) < 2}}
Path(steps, pred) == [steps |-> steps, attr |-> FALSE, pred |-> pred]
Go(name) == [recurse |-> FALSE, names |-> name]
Deep(name) == [recurse |-> TRUE, names |-> name]
MCPaths ==
  {Path(s, p) : s \in {<<>>, <<Go({"a"})>>, <<Deep({"a"})>>, <<Go({"a"}), Go({"a"})>>, <<Deep({"a"}), Deep({"a"})>>,
                       <<Deep({"a", "b"}), Go({"k"})>>, <<Deep({"k"})>>, <<Go({"b"}), Deep({"k", "v"})>>},
               p \in {NoQuery, [kind |-> "index", n |-> 0], [kind |-> "index", n |-> 1],
                     [kind |-> "tag", tag |-> "k", val |-> "1"], [kind |-> "attr"], [kind |-> "malformed"]}}
MCXpaths == {<<p>> : p \in MCPaths} \cup {<<[p EXCEPT !.attr = TRUE]>> : p \in {q \in MCPaths : q.pred = NoQuery}}
            \cup {<<Path(<<Go({"a"})>>, NoQuery), p>> : p \in MCPaths}
==============================================================================
