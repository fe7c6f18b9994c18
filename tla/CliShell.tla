------------------------------ MODULE CliShell ------------------------------
(***************************************************************************)
(* One CLI process (cli_main.c, cli_plugin.c): it loads the plugins of two *)
(* directories and the syntax files, binds every command to a function,    *)
(* reads commands in a syntax mode, looks for them there and in the modes  *)
(* the master plugin's parse hook names, and evaluates them.  Commands     *)
(* change the mode, push a sub-tree of the syntax to the top and pop it,   *)
(* run a program or a shell, or leave.                                     *)
(*                                                                         *)
(* CLIgen, the functions of the plugins and what the user types are        *)
(* external: a typed word is the set of commands it abbreviates, and the   *)
(* parse hook is a function on mode names.                                 *)
(***************************************************************************)
EXTENDS Integers, Sequences, FiniteSets, SequencesExt

CONSTANTS
  PluginFiles,   \* the plugins on disk: a set of <<directory, name>>
  Exports,       \* [PluginFiles -> functions the plugin defines]
  CliFiles,      \* the .cli files in order: [modes, plugin, cmds]
  CliModes,      \* names of modes, with and without a syntax
  HookUp,        \* plugin_parse_hook(): [CliModes -> CliModes \cup {NoMode}]
  StartModes,    \* values of CLICON_CLI_MODE to try
  NoMode, NoPlugin,
  Nodes, Kids,   \* the syntax below the command that is pushed: [Nodes \cup {Op} -> SUBSET Nodes]
  Op,            \* that command, "set"
  MaxTyped       \* bound: number of commands typed

ASSUME CliShellAssumption ==
  /\ PluginFiles \subseteq {"sys", "app"} \X STRING /\ IsFiniteSet(PluginFiles) /\ NoPlugin \notin PluginFiles
  /\ Exports \in [PluginFiles -> SUBSET STRING]
  /\ CliFiles \in Seq([modes : SUBSET CliModes, plugin : STRING \cup {NoPlugin}, cmds : SUBSET STRING])
  /\ HookUp \in [CliModes -> CliModes \cup {NoMode}] /\ NoMode \notin CliModes /\ StartModes \subseteq CliModes
  /\ Kids \in [Nodes \cup {Op} -> SUBSET Nodes] /\ Op \notin Nodes /\ "nowhere" \notin Nodes \cup {Op}
  \* The syntax is a tree: every node is the child of one.
  /\ \A n \in Nodes : \E o \in Nodes \cup {Op} : \A q \in Nodes \cup {Op} : n \in Kids[q] <=> q = o
  /\ MaxTyped \in Nat

Signals == {"TSTP", "QUIT", "CHLD", "INT"}
Commands == UNION {CliFiles[f].cmds : f \in DOMAIN CliFiles}

VARIABLES
  clipc,      \* where main() stands
  disk,       \* the plugins that are there
  toload,     \* plugins (then syntax files) still to load
  plugins,    \* stx_plugins, the head first
  hooked,     \* is stx_parse_hook set?
  modes,      \* stx_modes: [mode -> [command -> plugin that defines its function]]
  trees,      \* modes whose parse tree is registered in CLIgen
  active,     \* stx_active_mode
  typed,      \* the command line: [word, from: the mode it was typed in]
  climb,      \* the mode in which clicon_parse() now looks, and the result so far
  quiet,      \* -q
  sigmask, sigint,  \* blocked signals, handler of SIGINT
  pushed,     \* [mode -> [on, at: node whose children the command has, saved]]
  parent,     \* co_up: [mode -> [Nodes -> Nodes \cup {Op}]]
  opened, closed,   \* plugins opened by dlopen() and those closed, in order
  damaged,    \* was the signal mask restored from a variable never set?
  typings

loadVars == <<disk, toload, plugins, hooked, modes, trees, opened, closed>>
runVars == <<active, typed, climb>>
sigVars == <<quiet, sigmask, sigint, damaged>>
pushVars == <<pushed, parent>>
cliVars == <<clipc, loadVars, runVars, sigVars, pushVars, typings>>

MasterFirst(dir) ==
  LET here == {p \in disk : p[1] = dir}
      master == here \cap {<<dir, "master">>}
  IN SetToSeq(master) \o SetToSeq(here \ master)

NoTyping == [word |-> {}, from |-> NoMode]
NotClimbing == [m |-> NoMode, first |-> TRUE]
Up(n) == CHOOSE o \in Nodes \cup {Op} : n \in Kids[o]

\* cli_signal_block()
SignalBlock(mask) == mask \cup (IF quiet THEN Signals \ {"INT"} ELSE Signals)

\* main() up to cli_syntax_load(): signals are blocked.
CliInit ==
  /\ disk \in SUBSET PluginFiles
  /\ quiet \in BOOLEAN
  /\ clipc = "sys" /\ toload = MasterFirst("sys")
  /\ plugins = <<>> /\ hooked = FALSE /\ modes = <<>> /\ trees = {}
  /\ active = NoMode /\ typed = NoTyping /\ climb = NotClimbing
  /\ sigmask = SignalBlock({}) /\ sigint = "default" /\ damaged = FALSE
  /\ pushed = [m \in CliModes |-> [on |-> FALSE, at |-> Op, saved |-> Op]]
  /\ parent = [m \in CliModes |-> [n \in Nodes |-> Up(n)]]
  /\ opened = <<>> /\ closed = <<>> /\ typings = 0

----------------------------------------------------------------------------
(* Loading.                                                                *)

\* syntax_unload(): the head of the list first, and the modes with them.
SyntaxUnload ==
  /\ plugins' = <<>> /\ modes' = <<>> /\ hooked' = FALSE
  /\ closed' = closed \o plugins

\* cli_syntax_load() fails: quit.  main() goes to done and terminates.
SyntaxLoadFails ==
  /\ SyntaxUnload
  /\ clipc' = "ended"
  /\ UNCHANGED <<disk, toload, trees, opened>>

\* INSQ(): a new plugin comes first in the list.
Insq(p) == plugins' = <<p>> \o plugins

\* cli_plugin_load() of the next plugin in cli_plugin_load_dir().  A plugin
\* whose plugin_init() fails is closed again without its plugin_exit().
PluginLoad ==
  /\ clipc \in {"sys", "app"} /\ toload # <<>>
  /\ LET p == Head(toload)
     IN /\ Insq(p)
        /\ hooked' = IF p[2] = "master" THEN "plugin_parse_hook" \in Exports[p] ELSE hooked
        /\ opened' = Append(opened, p)
  /\ toload' = Tail(toload)
  /\ UNCHANGED <<clipc, disk, modes, trees, closed, runVars, sigVars, pushVars, typings>>
PluginLoadFails ==
  /\ clipc \in {"sys", "app"} /\ toload # <<>>
  /\ SyntaxLoadFails
  /\ UNCHANGED <<runVars, sigVars, pushVars, typings>>

\* A directory is done: the application's plugins follow the system's, then
\* the syntax files.
DirLoaded ==
  /\ clipc \in {"sys", "app"} /\ toload = <<>>
  /\ \/ clipc = "sys" /\ clipc' = "app" /\ toload' = MasterFirst("app")
     \/ clipc = "app" /\ clipc' = "files" /\ toload' = CliFiles
  /\ UNCHANGED <<disk, plugins, hooked, modes, trees, opened, closed, runVars, sigVars, pushVars, typings>>

\* plugin_find_cli(): the first of the list with the name.
PluginFind(name) ==
  LET first == SelectInSeq(plugins, LAMBDA p : p[2] = name)
  IN IF first = 0 THEN NoPlugin ELSE plugins[first]

\* load_str2fn(): the named plugin first, then the global name space, where
\* dlsym() finds the master plugins in the order they were opened.
LoadStr2fn(handle, fname) ==
  LET first == SelectInSeq(opened, LAMBDA p : p[2] = "master" /\ fname \in Exports[p])
  IN IF handle # NoPlugin /\ fname \in Exports[handle] THEN handle
     ELSE IF first = 0 THEN NoPlugin
     ELSE opened[first]

\* Can cli_load_syntax() load the file?  Its plugin, if it names one, and all
\* functions have to be found, and it has to name a mode.
Loadable(f) ==
  /\ f.plugin # NoPlugin => PluginFind(f.plugin) # NoPlugin
  /\ \A c \in f.cmds : LoadStr2fn(IF f.plugin = NoPlugin THEN NoPlugin ELSE PluginFind(f.plugin), c) # NoPlugin
  /\ f.modes # {}

\* syntax_append(): the commands of the file are merged into each of its modes.
SyntaxAppend(f) ==
  LET handle == IF f.plugin = NoPlugin THEN NoPlugin ELSE PluginFind(f.plugin)
      bound == [c \in f.cmds |-> LoadStr2fn(handle, c)]
      old(m) == IF m \in DOMAIN modes THEN modes[m] ELSE <<>>
  IN [m \in DOMAIN modes \cup f.modes |->
        IF m \in f.modes
        THEN [c \in DOMAIN old(m) \cup f.cmds |-> IF c \in DOMAIN old(m) THEN old(m)[c] ELSE bound[c]]
        ELSE modes[m]]
LoadSyntax ==
  /\ clipc = "files" /\ toload # <<>>
  /\ \/ /\ Loadable(Head(toload))
        /\ modes' = SyntaxAppend(Head(toload))
        /\ toload' = Tail(toload)
        /\ UNCHANGED <<clipc, disk, plugins, hooked, trees, opened, closed>>
     \/ SyntaxLoadFails  \* as above, or the file cannot be read or parsed
  /\ UNCHANGED <<runVars, sigVars, pushVars, typings>>

\* All files are loaded: gen_parse_tree() for every mode.
GenParseTrees ==
  /\ clipc = "files" /\ toload = <<>>
  /\ IF modes = <<>>
     THEN SyntaxLoadFails
     ELSE trees' = DOMAIN modes /\ clipc' = "mode" /\ UNCHANGED <<disk, toload, plugins, hooked, modes, opened, closed>>
  /\ UNCHANGED <<runVars, sigVars, pushVars, typings>>

\* cli_set_syntax_mode(): the mode is created if there is none of that name,
\* without a parse tree.
SetSyntaxMode(m) ==
  /\ modes' = IF m \in DOMAIN modes THEN modes ELSE [n \in DOMAIN modes \cup {m} |-> IF n = m THEN <<>> ELSE modes[n]]
  /\ active' = m

\* done: cli_terminate() with cli_plugin_finish().
Terminate ==
  /\ SyntaxUnload
  /\ clipc' = "ended"
  /\ UNCHANGED <<disk, toload, trees, opened>>

\* main() sets the mode and then checks that it has a tree.
StartMode(m) ==
  /\ clipc = "mode"
  /\ IF m \in trees
     THEN SetSyntaxMode(m) /\ clipc' = "candidate" /\ UNCHANGED <<disk, toload, plugins, hooked, trees, opened, closed>>
     ELSE Terminate /\ UNCHANGED active
  /\ UNCHANGED <<typed, climb, sigVars, pushVars, typings>>

\* init_candidate_db(): when it fails main() returns and nothing is unloaded.
InitCandidate ==
  /\ clipc = "candidate"
  /\ clipc' \in {"prompt", "dropped"}
  /\ UNCHANGED <<loadVars, runVars, sigVars, pushVars, typings>>

----------------------------------------------------------------------------
(* Reading, finding and evaluating commands.                               *)

\* cli_interactive(): clicon_cliread() returns a line, or the end of input.
Cliread(w) ==
  /\ clipc = "prompt" /\ typings < MaxTyped
  /\ typings' = typings + 1
  /\ typed' = [word |-> w, from |-> active]
  /\ climb' = [m |-> active, first |-> TRUE]
  /\ clipc' = "parse"
  /\ UNCHANGED <<loadVars, active, sigVars, pushVars>>
CliEof ==
  /\ clipc = "prompt"
  /\ Terminate
  /\ UNCHANGED <<runVars, sigVars, pushVars, typings>>

BackToPrompt == clipc' = "prompt" /\ typed' = NoTyping /\ climb' = NotClimbing

\* No parse tree for the mode: an error that ends the loop when it is the
\* first mode, and the CG_NOMATCH of the mode before otherwise.
NoTree ==
  /\ clipc = "parse" /\ climb.m \notin trees
  /\ IF climb.first
     THEN Terminate /\ UNCHANGED runVars
     ELSE BackToPrompt /\ UNCHANGED <<loadVars, active>>
  /\ UNCHANGED <<sigVars, pushVars, typings>>

\* cliread_parse() returns CG_ERROR or CG_EOF.
ParseError ==
  /\ clipc = "parse" /\ climb.m \in trees
  /\ Terminate
  /\ UNCHANGED <<runVars, sigVars, pushVars, typings>>

Matching == typed.word \cap DOMAIN modes[climb.m]

\* CG_NOMATCH: the parse hook may name another mode to look in.
MutantNoMatch ==
  /\ clipc = "parse" /\ climb.m \in trees /\ Matching = {}
  /\ IF hooked /\ HookUp[climb.m] \in DOMAIN modes
     THEN /\ climb' = [m |-> HookUp[climb.m], first |-> FALSE]
          /\ active' = HookUp[climb.m]
          /\ UNCHANGED <<clipc, typed>>
     ELSE BackToPrompt /\ UNCHANGED active
  /\ UNCHANGED <<loadVars, sigVars, pushVars, typings>>
NoMatch ==
  /\ clipc = "parse" /\ climb.m \in trees /\ Matching = {}
  /\ IF hooked /\ HookUp[climb.m] \in DOMAIN modes
     THEN climb' = [m |-> HookUp[climb.m], first |-> FALSE] /\ UNCHANGED <<clipc, typed>>
     ELSE BackToPrompt
  /\ UNCHANGED <<loadVars, active, sigVars, pushVars, typings>>

Ambiguous ==
  /\ clipc = "parse" /\ climb.m \in trees /\ Cardinality(Matching) > 1
  /\ BackToPrompt
  /\ UNCHANGED <<loadVars, active, sigVars, pushVars, typings>>

\* CG_MATCH: the mode is set to where the command was found, then the
\* command is evaluated; clicon_parse() returns the match whatever it did.
Match ==
  /\ clipc = "parse" /\ climb.m \in trees /\ Cardinality(Matching) = 1
  /\ active' = climb.m
  /\ clipc' = "eval"
  /\ UNCHANGED <<loadVars, typed, climb, sigVars, pushVars, typings>>

TheCommand == CHOOSE c \in Matching : TRUE

\* A command of the application that leaves this state alone.
EvalPlain ==
  /\ clipc = "eval" /\ TheCommand = "show"
  /\ BackToPrompt
  /\ UNCHANGED <<loadVars, active, sigVars, pushVars, typings>>
\* cli_set_mode()
EvalMode(m) ==
  /\ clipc = "eval" /\ TheCommand = "mode"
  /\ SetSyntaxMode(m)
  /\ BackToPrompt
  /\ UNCHANGED <<disk, toload, plugins, hooked, trees, opened, closed, sigVars, pushVars, typings>>
\* cli_quit() sets exiting; the loop ends.
EvalQuit ==
  /\ clipc = "eval" /\ TheCommand = "quit"
  /\ Terminate
  /\ UNCHANGED <<runVars, sigVars, pushVars, typings>>

\* The node a path of command words leads to from the children of node at.
Nowhere == "nowhere"
Descend(at, path) ==
  IF path[1] \in Kids[at] /\ \A i \in 2..Len(path) : path[i] \in Kids[path[i - 1]]
  THEN path[Len(path)]
  ELSE Nowhere

\* cli_ptpush(): the children of the node found become the command's own;
\* only the first push saves what the command had.
Ptpush(m, path) ==
  /\ clipc = "eval" /\ TheCommand = "edit" /\ path # <<>>
  /\ LET n == Descend(pushed[m].at, path)
     IN IF n = Nowhere THEN UNCHANGED pushVars
        ELSE /\ pushed' = [pushed EXCEPT ![m] = [on |-> TRUE, at |-> n, saved |-> IF @.on THEN @.saved ELSE @.at]]
             /\ parent' = [parent EXCEPT ![m] = [k \in Nodes |-> IF k \in Kids[n] THEN Op ELSE @[k]]]
  /\ BackToPrompt
  /\ UNCHANGED <<loadVars, active, sigVars, typings>>
\* cli_ptpop()
Ptpop(m) ==
  /\ clipc = "eval" /\ TheCommand = "top"
  /\ IF ~pushed[m].on THEN UNCHANGED pushVars
     ELSE LET n == pushed[m].saved
          IN /\ pushed' = [pushed EXCEPT ![m] = [on |-> FALSE, at |-> n, saved |-> n]]
             /\ parent' = [parent EXCEPT ![m] = [k \in Nodes |-> IF k \in Kids[n] THEN Op ELSE @[k]]]
  /\ BackToPrompt
  /\ UNCHANGED <<loadVars, active, sigVars, typings>>

----------------------------------------------------------------------------
(* Programs started from the CLI.                                          *)

\* cli_start_shell(): pending signals are flushed, all are unblocked for the
\* time of system(), then blocked again, whatever it returned.
StartShell ==
  /\ clipc = "eval" /\ TheCommand = "shell"
  /\ \/ sigmask' = {} /\ clipc' = "shell" /\ UNCHANGED <<typed, climb>>
     \/ BackToPrompt /\ UNCHANGED sigmask  \* no such user, or no home directory
  /\ UNCHANGED <<loadVars, active, quiet, sigint, damaged, pushVars, typings>>
ShellDone ==
  /\ clipc = "shell"
  /\ sigmask' = SignalBlock(sigmask)
  /\ BackToPrompt
  /\ UNCHANGED <<loadVars, active, quiet, sigint, damaged, pushVars, typings>>

\* clicon_proc_run() under cli_run().  When pipe() fails the mask and the
\* handler are "restored" from variables that were not set.
ProcRun ==
  /\ clipc = "eval" /\ TheCommand = "run"
  /\ \/ sigint' = "proc" /\ clipc' = "child" /\ UNCHANGED <<typed, climb, sigmask, damaged>>
     \/ /\ sigmask' \in {{}, Signals} /\ sigint' = "default" /\ damaged' = TRUE
        /\ BackToPrompt
  /\ UNCHANGED <<loadVars, active, quiet, pushVars, typings>>
\* The child has ended, or fork() failed: both go through done.
MutantProcRunDone ==
  /\ clipc = "child"
  /\ sigint' \in {"default", "proc"}
  /\ BackToPrompt
  /\ UNCHANGED <<loadVars, active, quiet, sigmask, damaged, pushVars, typings>>
ProcRunDone ==
  /\ clipc = "child"
  /\ sigint' = "default"
  /\ BackToPrompt
  /\ UNCHANGED <<loadVars, active, quiet, sigmask, damaged, pushVars, typings>>

\* SIGTERM, or ctrl-C in quiet mode: exit() without cli_terminate().
SigTerm ==
  /\ clipc \in {"prompt", "shell", "child"}
  /\ clipc' = "dropped"
  /\ UNCHANGED <<loadVars, runVars, sigVars, pushVars, typings>>

CliNext ==
  \/ PluginLoad \/ PluginLoadFails \/ DirLoaded \/ LoadSyntax \/ GenParseTrees \/ InitCandidate
  \/ \E m \in StartModes : StartMode(m)
  \/ (\E w \in SUBSET Commands : Cardinality(w) <= 2 /\ Cliread(w)) \/ CliEof \/ NoTree \/ ParseError \/ NoMatch \/ Ambiguous \/ Match
  \/ EvalPlain \/ EvalQuit \/ (\E m \in CliModes : EvalMode(m))
  \/ Ptpop(active) \/ \E path \in SeqOf(Nodes, 2) : Ptpush(active, path)
  \/ StartShell \/ ShellDone \/ ProcRun \/ ProcRunDone \/ SigTerm

ShellSpec == CliInit /\ [][CliNext]_cliVars

----------------------------------------------------------------------------
\* Does file f bring command c to mode m before any other file does?
Brings(f, m, c) ==
  /\ m \in CliFiles[f].modes /\ c \in CliFiles[f].cmds
  /\ \A i \in 1..(f - 1) : m \in CliFiles[i].modes => c \notin CliFiles[i].cmds

\* Every plugin that was opened is closed, the last one first, when the CLI
\* ends by itself; until then every command a user can type is bound to a
\* plugin that is open, and where the syntax file that brings it names a plugin
\* of both directories, to the application's.
CallbacksBound ==
  /\ clipc = "ended" => closed = Reverse(opened)
  /\ \A m \in DOMAIN modes : \A c \in DOMAIN modes[m] :
        modes[m][c] \in ToSet(opened) \ ToSet(closed) /\ c \in Exports[modes[m][c]]
  /\ clipc = "prompt" => \A f \in DOMAIN CliFiles : CliFiles[f].plugin # NoPlugin =>
       LET app == <<"app", CliFiles[f].plugin>>
       IN app \in disk => \A m \in CliFiles[f].modes, c \in CliFiles[f].cmds :
            Brings(f, m, c) /\ c \in Exports[app] => modes[m][c] = app

\* A set of modes that clicon_parse() does not leave while it looks for a word:
\* with a mode that does not have it, the one the parse hook names is in it.
Encloses(S, word) ==
  \A m \in S : m \in trees /\ word \cap DOMAIN modes[m] = {} /\ hooked /\ HookUp[m] \in DOMAIN modes => HookUp[m] \in S
\* The modes it looks in, the search for a word typed in mode m.
Searched(m, word) == {n \in CliModes : \A S \in SUBSET CliModes : m \in S /\ Encloses(S, word) => n \in S}

(***************************************************************************)
(* A command is evaluated in the nearest mode that has it, and that mode   *)
(* is then the active one; a line that is not found anywhere, or is        *)
(* ambiguous, leaves the user in the mode where it was typed, however far  *)
(* the search went.                                                        *)
(***************************************************************************)
ModeFollowsCommand ==
  /\ clipc = "eval" =>
       /\ active \in Searched(typed.from, typed.word)
       /\ Cardinality(typed.word \cap DOMAIN modes[active]) = 1
  /\ clipc = "parse" => active = typed.from

\* A pop brings back the syntax that was loaded, and every word the command
\* offers, pushed or not, has the command as its parent ("set correct parent").
PopRestores ==
  \A m \in CliModes :
    /\ ~pushed[m].on => pushed[m].at = Op
    /\ \A k \in Kids[pushed[m].at] : parent[m][k] = Op
\* The signals the prompt has blocked and its handler of SIGINT.
SignalsKept ==
  clipc = "prompt" /\ ~damaged => sigmask = SignalBlock({}) /\ sigint = "default"

(***************************************************************************)
(* Whatever plugins were loaded or failed to, and whatever commands ran,   *)
(* pushed syntax, started shells or programs and failed on the way, the    *)
(* user comes back to a prompt whose commands are bound to open plugins,   *)
(* whose syntax a pop restores, and with the signals as they were; except  *)
(* after a pipe() that failed.                                             *)
(***************************************************************************)
PromptSound == CallbacksBound /\ PopRestores /\ SignalsKept
=============================================================================
