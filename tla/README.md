# A TLA+ model of CLICON

CLICON is a toolkit for configuration managers.  Its heart is the backend
daemon (`src/apps/config`): clients (a CLI, a netconf server) edit a *candidate*
database through it and then *commit* it, which makes plugins change the managed
system and makes the candidate the new *running* database.

## Inventory

| component | state | operations | what makes it correct |
|---|---|---|---|
| commit and validate transactions (`config_commit.c`) | running and candidate database, the managed system, the difference, the commit vector, loop indices | diff, hooks, generic and plugin validation, commit loops in three orders, rollback loops, two file copies | system and running move together or not at all; an error changes nothing; only checked values reach running; priorities are kept |
| plugin hooks (`config_plugin.c`) | loaded plugins | begin, complete, end, abort; loading; downcalls | every plugin that saw a transaction sees its end |
| difference and dependencies (`config_dbdiff.c`, `config_dbdep.c`) | registered dependencies | diff of two databases, matching, sorted commit vector | every changed key and every matching dependency once, in order |
| event loop (`clicon_event.c`) | list of descriptors, list of timers | register, unregister, select, dispatch | never follows a freed entry, never blocks, starves nobody |
| sessions (`config_client.c`, `config_socket.c`, `config_handle.c`) | list of clients, sockets, subscriptions | accept, one handler per message, remove client, notify | lists and sockets in step; every request answered |
| candidate lock (`config_lock.c`) | the process that holds it | lock, unlock, release by kill | edits of others are kept out |
| client rpc (`clicon_proto.c`, `clicon_proto_client.c`, `clicon_proto_encode.c`) | a connection per request | connect, send, receive, close; packing | one answer for each request, framing kept |
| snapshots and start-up (`config_lib.c`, `config_main.c`, `clicon_sig.c`) | archive files, startup file, pidfile, socket | start, stop, zap, rotate, save, load, reset | one daemon serves and is found; the archive is in order; damage is not papered over |
| databases and values (`clicon_qdb.c`, `clicon_dbutil.c`, `clicon_lvalue.c`) | keys of a qdbm file; for lists an index per entry | get, set, merge, delete, allocate an index | an operation changes the entry it names and nothing else |
| messages (`clicon_proto_encode.c`) | cells on a socket | one encoder and decoder per message | what is sent is what is decoded |
| netconf client (`apps/netconf`) | input buffer, session | framing, rpcs, subtree filter, XPath | answers in order; the reply is what was asked for |
| CLI (`apps/cli`) | plugins, modes, command trees, signals | load, parse, evaluate, edit, commit, shell | commands run in the right mode; edits are atomic; the prompt comes back |
| specification (`clicon_yang*.c`, `clicon_dbspec_key.c`, `cli_generate.c`) | YANG tree, list of keys, commands | translate, look up | the three forms say the same |
| XML (`clicon_xml.c`, `clicon_xml_map.c`, `clicon_xsl.c`) | trees | save, load, select | what is saved is the database |
| memory (`clicon_chunk.c`) | blocks, chunks, groups | allocate, release, release a group | no chunk has two owners, none leaks |
| logging, processes, options, hash, strings | log callback, option table | log, run a program, lookup | mostly left out |

The backend is one thread.  It is hard all the same: a transaction is a long
sequence of calls into foreign code, each of which may fail when others have
already had their effect; the event loop walks a list that its own callbacks
shorten; clients come and go at any time.  `hazards` in `PROJECT.json` lists the
places where this bites.

## Modules

### AtomicCommit: the promise

A configuration (`store`) and the system (`system`) that change in one step, or
not at all, between a request and its answer.  `Lose` is the end of the promise:
it stands for the failures `candidate_commit` cannot repair, named below.

### CandidateCommit: the transaction

One step per call that may fail.  `pc` names the place in `candidate_commit` (or
`candidate_validate`):

    begin -> generic -> validate -> complete -> commit ----------> copy -> copyback -> end
                                            \-> delete -> set -/
    commit, copy fail:   rollback                  -> abort     (order 0)
    delete fails:        undelete                  -> abort     (orders 1, 2)
    set, copy fail:      unset -> readd            -> abort     (orders 1, 2)

* `running` and `candidate` are functions from keys to values, or `NoFile`, or
  `Torn` after a copy that was cut short.  `Start` fails on the last two
  (`stat`, `db_diff`).
* `df`, `vec1`, `vec2` are `struct dbdiff`; they are not updated when
  `GenericValidate` adds default values to the candidate, as in the code.
* `ddvec` is the commit vector.  `qsort` leaves the order of equal priorities
  open, so the model takes every such order.
* `i` and `j` are the loop indices (from 1).  Each loop is a `...Step` and a
  `...Done` action; `CommitOp`, `RollbackOp`, `DeleteOp`, `UndeleteOp`, `SetOp`,
  `UnsetOp`, `ReaddOp` are the operations the seven loops compute.
* `sys` records what the plugins did to the system.  The plugins are not part of
  the repository: a callback does what its operation says or fails and changes
  nothing.
* `before` and `faults` are history variables.  `faults` records what the
  code does not repair: `write` and `read` (running cut short), `copyback`
  (copy of running to candidate failed), `callback` (a rollback callback failed
  and is ignored), `undelete` (the delete loop's rollback deletes again), `end`
  (a plugin's end hook failed).

Between transactions `Change`, `Discard`, `Rm`, `InitDb` are the client's edits.
The transaction is taken from candidate to running, as all callers in the event
loop do.  Dependencies are on keys (`DBDEP_KEY`).

### ConfigSession: event loop, clients, lock

Client processes connect, send one request, wait, close, or die.  The loop calls
`Select`, then walks its list: `Skip`, `Accept` or a handler for each entry.
`Proceed` is the end of every callback: entries removed, `_ee_unreg` looked at.
`Answer` writes the reply; a write to a client that has gone raises SIGPIPE,
which nothing in the repository handles, so the backend ends.  A database is
abstracted to who wrote it last; a transaction is one step here (it runs in one
callback), with the outcomes that CandidateCommit shows: on error the candidate
may have defaults and running may be old, new or cut short.  Requests name the
candidate database.  `NoAnswer` lists the operations whose silent exits may be
taken, `AcceptMayFail` allows `accept` to fail.  Process numbers are not reused.

### The rest of the backend

* **Lifecycle** (`config_main.c`, `config_plugin.c`, `config_lib.c`, the tail of
  `from_client_commit`): a process that runs `main()` is a record with the stage
  it has come to.  `Exec` starts one with a command line; each action of
  `LifeStep` is a call of `main()` with its failure; `Crash` may come at any
  stage and also in the middle of a file copy, which leaves the file `Cut`.  Any
  number of processes may start and end at once; `overlapped` remembers that two
  did, until a process starts when all others are gone.
  `ClientCommit` with `Rotate` is a commit with its snapshot and its copy to
  startup.
* **Notify** (`config_handle.c`, `clicon_log.c`, `cli_notification_register`):
  `ceSubs` and `hsSubs` are the two lists of subscriptions, `walk` the set of targets an event
  still has to reach, which are told in the order of their places, `told` and `due` count notifications.  A socket holds
  `SocketSpace` of them, then the write waits.
* **EventTimers** (`clicon_event.c`): the sorted list of timers; a round of the
  loop serves descriptors or one timer.
* **DbDiff** (`config_dbdiff.c`, `config_dbdep.c`): two databases with a list in
  a list, edited by setting and deleting entries of both lists, by making the
  candidate anew and by copying running over it.  `next` is the next index of each
  list, as `A.n` is.  Deleting an entry of the outer list leaves the keys of the
  list inside it, as `db_lv_vec_del` does: these leftovers are items, too, and both
  algorithms meet them.  A commit goes through the loops
  of the code one round at a time (`doing`, with `i1` and `i2` as the loop
  variables): `DiffVector1` sorts and `MergeFirst`, `MergeSecond`, `MergeBoth` go
  through both lists at once; `DiffVector` lists and `CompareFirst`,
  `CompareSecond` look each item up in the other list; `CommitVec`, `MatchDep`
  and `SortVec` build the vector of the dependencies; `DiffFree` ends the commit, or
  is a failure on the way.
* **Chunk** (`clicon_chunk.c`): `heap` holds free lists, reference counts, groups
  and entries; `live` is what the program holds.  Any allocation of a block may
  fail, by its first or by its second mapping; when the second fails the header is
  unmapped with the size of a block (`Tears`), and for a class larger than a page
  (`Large`) any other blocks may go with it (`torn`).  The model ends there.

### The clients and the data

* **MsgChannel** (`clicon_proto.c`, `clicon_proto_encode.c`,
  `clicon_proto_client.c`): every encoder and decoder as the cells it writes and
  reads.  The header's length counts modulo `LenMod`.
* **ListDb** (`clicon_lvalue.c`, `clicon_qdb.c`): every access to a key is a step
  of the process that makes it, the CLI's or the backend's.
* **NetconfSession** (`netconf_main.c`, `netconf_rpc.c`, `netconf_lib.c`): reads
  bring any part of what the peer has written; `at` is the element of the rpc that
  the dispatcher has come to, `errs` the complete error messages that the elements
  before it left in the buffer.  The element that ends the rpc decides whether these
  are written (`FailsWith`) or thrown away (`Ok`, `Data`).  What an element does is a
  program of calls to the backend, between which other sessions and the CLI get
  their turn.
* **XmlSelect** (`netconf_filter.c`, `clicon_xsl.c`, `netconf_filter()`): the
  pruning walk of the subtree filter and the vectors of XPath, compared with a
  definition of what each selects.
* **CliShell** (`cli_main.c`, `cli_plugin.c`, `clicon_proc.c`): loading, binding,
  the search for a command through the modes, pushed syntax, shells, programs and
  their signals.
* **CliSession** (`cli_common.c`): the commands that change or publish a
  configuration as programs of requests, in several CLIs at once, with and
  without the daemon.  A commit ends in any of the ways in which CandidateCommit
  shows that `candidate_commit` can (`CommitEnds`): refused before running is
  written, with some of the default values in the candidate; or after it, with a
  success, or with an error when the copy back has failed, and either file may be
  cut.
* **SpecTranslate** (`clicon_yang2key.c`, `clicon_dbspec_key.c`,
  `cli_generate.c`): a YANG tree or a file of keys grows statement by statement
  and is then translated.
* **XmlMap** (`clicon_xml_map.c`): records are entered into the tree in any order,
  as the hash table gives them; the load walks the tree.

What is outside the repository is external and free: CLIgen (a typed word is the
set of commands it abbreviates), plugins (their functions succeed or fail), the
kernel (reads, writes and allocations come in pieces or fail), users.

### MCCandidateCommit, MCConfigSession, MCSessions, MCBackend, MCClients

The small instances.  The modules of MCBackend and those of MCClients share no
variable; an initial state chooses the part that moves (`part`) and the others
stand still, so that one run checks them all without multiplying their states.
MCSessions keeps to two views of ConfigSession (`Views`): in the first all
processes and connections take part, with the messages that matter to the walk
(kill, and debug for one that is simply answered), while nobody has locked or
edited anything; the second has every operation, with two connections, accepted one
after the other, once a process has died or while no client waits.

### The proofs

`TransactionProofs` is about CandidateCommit and AtomicCommit,
`ConfigSessionProofs` about ConfigSession, `BackendProofs` about Lifecycle,
Notify, Chunk and DbDiff, `ListProofs` about ListDb, `ChannelProofs` about MsgChannel, `ShellProofs`
about CliShell, `ClientProofs` about NetconfSession and CliSession.
`SequenceLemmas` holds what they need about sequences without repetition, least
elements and induction over a set of numbers.  See Proofs, below.

## Runs

| run | shows |
|---|---|
| `commit_order_0` | order 0: system and running stay together, an error changes nothing, hooks are closed, running is written last |
| `commit_order_2` | order 2: the transaction implements AtomicCommit, its loops stay inside the vector, only checked values reach running, priorities are kept |
| `commit_undelete` | violated: a failed deletion is not undone, against the comment at `config_commit.c:526` |
| `commit_revert` | violated: an error answer although the commit took place, against the comment at `config_commit.c:346` |
| `sessions` | three processes, four connections: no dangling entry, lists in step, no blocking read, no SIGPIPE unless a client vanished; all edits by two processes: the lock excludes |
| `session_answered` | every request is answered, whatever the others do |
| `session_no_answer` | violated once `db_init` may fail: the client waits for ever |
| `diff_leftover` | violated: a change inside an entry that was deleted and made again is not in the difference, against the comment at `config_dbdiff.c:386` |
| `start_race` | violated: a daemon is past its look at the pidfile while another one serves, against the comment at `config_main.c:515` |
| `backend` | Lifecycle, Notify, EventTimers, DbDiff, Chunk |
| `clients` | MsgChannel, ListDb, NetconfSession, XmlSelect, CliShell, CliSession, SpecTranslate, XmlMap |
| `load_lists` | violated: a database with a list entry is not the same after a save and a load, against the comment at `clicon_xml_map.c:867` |

Properties of the transaction: `InSync` (between messages the system is what
running says), `ErrorChangesNothing`, `RunningInSpec` (only checked values with
defaults), `RunningFollowsSystem` (running is written last, with what the plugins
were given), `PriorityOrder`, `HooksClosed`, `InBounds` (array bounds of the
loops), `ImplementsAtomicCommit`.  They hold in all three orders (they are
proved, below); each run checks those its order puts at risk.  Order 1 goes
through the loops of order 2 with one operation less for a change; the run
`commit_undelete` explores it.

| property | says |
|---|---|
| `ServerReachable` | the daemon that serves is the one pidfile and socket lead to, whatever crashed before, once a process has begun alone and no two have overlapped since |
| `DamageStays` | a database cut by a crash is not taken for a whole one; only `-I` makes a new one |
| `ArchiveInOrder` | a lower snapshot is a later commit, even after a rotation that failed half-way |
| `AllSubscribersTold`, `WalkEnds` | every subscriber gets every event that matches and the log is not silenced; the backend does not stay in a write to clients that listen |
| `TimerCalled` | a timer that is due is called, unless descriptors keep coming ready |
| `DiffExact`, `DependentsCalled` | the difference of the items in two lists, leftovers among them, is complete and has nothing twice, whatever their indexes; every plugin that depends on it is called, once, in order, and for nothing else |
| `HeapSound` | no chunk has two owners, blocks are unmapped at the right time, groups are exact, wherever memory ran out, unless that tore other blocks |
| `MessagesIntact` | a message is decoded as it was sent; one that is too long does not take the next with it |
| `ListsIndexed`, `OperationsExact` | index keys and entries belong together; an operation changes what it names and nothing else |
| `AnsweredInOrder`, `CandidateKept` | netconf answers each request with one write and in order, and the write is one reply or as many errors as its elements can have; nobody is told ok and left without a candidate |
| `FilterExact`, `XpathExact` | get-config returns what a filter that matches at the top selects, in document order |
| `ModeFollowsCommand`, `PromptSound` | a command runs in the nearest mode that has it; plugins, syntax and signals are sound at the prompt |
| `AutocommitAtomic` | an edit with autocommit that runs alone is published whole or not at all, and candidate and running agree, however the commit ended |
| `EditsSettle` | edits with autocommit of several CLIs publish and throw away each other's changes, but none is left half way |
| `DatabasesExist` | commands that remove and remake a database leave one |
| `DbspecExact`, `CommandsUsable` | the keys are those of the tree; every leaf has a command that can name its record |
| `SaveExact` | the saved tree is the database, whatever order its keys come in; containers are loaded as saved |

Several of these have conditions, and each condition is a weakness of the code
that the model has: two starts that overlap (`overlapped`: the pidfile is read long before it
is written), a torn heap, two processes in the same list, a body that arrives in pieces, an
end tag cut in two by a read, a failed send that ends the walk over the
subscribers, a `pipe()` that fails (the signal mask is then restored from a
variable never set), content that does not match at the top of a subtree filter, a
copy that is cut short in a commit.  The first has a run of its
own that shows what goes wrong (`start_race`), as have the leftovers that
`DiffExact` counts as items (`diff_leftover`).

*Bounds.*  Transaction: two keys, one of them with two commit dependencies of
different priority and a validating one; four values (without defaults, with
them, another valid one, an invalid one); two plugins.  Two keys give differences
with an addition and a deletion at once, and a vector of four entries has a
first, a middle and a last place to fail.  `OneFault` follows a fault that the
code does not repair to the end of its transaction, one at a time: no property
promises anything after it.  Sessions: three processes and four connections let
one client kill another while a third has an entry between them and a closed
connection is still in the list.  Backend: three runs of `main()` by two
processes, so that one starts while the other is on its way, or after it has served
or has crashed at any stage, and a third after both are gone; an archive of three and
two commits, so that a rotation shifts something; two sockets and room for one
notification, so that a write waits; two keys of each list and three edits,
so that entries get different indexes in the two databases (of edits and
dependencies there are four at most), and five edits of one entry and one inside
it, so that an entry is made, deleted and made again beside its leftovers
(`DiffBound`); four blocks of two classes, one large block
and five calls, so that memory runs out in the middle of a request.
Clients: lengths modulo 8, so that the longer messages wrap around; two processes
and three operations in a list within a list, so that an index is freed and used
again; two requests in two sessions, of one or two elements; three modes; four
commands of two CLIs, the starts among them, so that both are in an edit at once; trees of three statements; three records, of which one may
be in a list inside a list.  `Symmetry` permutes the processes of ListDb,
NetconfSession and CliSession and the outer keys of ListDb, which no action tells
apart.  On top of the bounds of the modules, MCBackend and MCClients keep apart
what would only multiply: a third start, and starts that overlap, come with few
options and without commits (`LifeBound`); of two events, a plugin's subscription
and an empty filter any two (`NotifyBound`); a third operation on a list begins when no
other is under way (`ListBound`); two netconf sessions that both got a message get
one each that touches the candidate, and read it whole (`NetconfBound`); a fourth
command of a CLI is an edit of one item, beside other such edits (`SessionBound`); three
records to save are plain values (`XmlBound`).

*Fairness.*  The transaction needs none: nothing is said of it but safety.
`WF_vars(EventLoop)`: the loop only waits in `select`.
`WF_vars(Receive(p))`: a client blocked in `read` returns when there is data.
`TimersFairness`: the daemon goes round its loop.  `NotifyFairness`: the backend
goes on with its walk when the socket has room, and a client at its prompt reads
the sockets it has registered.  The parts that stand still have none of these
actions enabled, so the fairness of one does not constrain another.  Nothing is
assumed about clients sending, nor about plugins succeeding.  All runs but those
of the transaction have `CHECK_DEADLOCK FALSE`: all clients may be dead, and a
bound may be used up.

## Disagreements found

Six are runs (`violation`, with their findings).  Others the model shows too, or
showed while it was written; where a property meets them they are conditions of it:

* `lv_matchvar` compares one way twice (`clicon_lvalue.c:385`) although "'equal'
  means that all variables are the same": a variable that is only added to a list
  entry is no difference, and no plugin hears of it (`DiffExact`).
* Stopping a stream sends the request on a new connection, which has no
  subscription (`cli_common.c:2135`; `clicon_proto_client.c:398` says "0: stop
  existing notification stream"): the old one goes on, unread.
* `chunk_new_block` maps a header with `sizeof(chunk_block_t)`; when the second
  `mmap` fails it unmaps the header with the size of the block
  (`clicon_chunk.c:144`), and what is mapped behind it goes too, although
  `clicon_chunk.h:70` calls what a block points to "Allocated memory block"
  (`torn`, excepted by `HeapSound`).
* `netconf_rpc_dispatch` goes on with the next element after one that nobody knows
  (`netconf_rpc.c:1206`), although :1143 says "Look at first tag": one rpc is
  answered with several errors, or with the success of a later element
  (`AnsweredInOrder` counts them).
* `xml_filter` ignores that the top itself is to be removed
  (`netconf_filter.c:186`), although :70 says "Match according to Section 6 of RFC
  4741": a filter whose content does not match at the top returns everything
  (excepted by `FilterExact`).
* A netconf request that fails without an error text runs into
  `assert(cbuf_len(xf_err))` (`netconf_main.c:126`).
* `<filter type="subtree">`, which `netconf_rpc.c` gives as example, is refused.

## Proofs

Each theorem holds for all constants that satisfy the named assumptions of its
module; TLC checks on every run that the instance satisfies them.  The proofs are
of the module's own specification (`Spec`, `LifeSpec`, `ChannelSpec`, ...): its
initial states and steps without the bounds that MCBackend and MCClients add.

### The transaction (TransactionProofs)

From `ConstantsOK` and `FillOK`: finitely many keys and dependencies, filling in
defaults twice is filling in once.

* `TypeCorrect`: `Spec => []TypeOK`, and `ArrayBounds`: `Spec => []InBounds`.
  Types alone are not inductive: an index out of range reads no entry, and a
  candidate that is cut short cannot be updated.  `BoundInv` adds the bounds of
  every loop and `Whole`: from the diff to the copy the candidate is a database
  and running is the one the diff was made of.
* `OnlyCheckedValues`: `Spec => []RunningInSpec`.  The copy to running copies the
  whole candidate while validation only looks at `df`.  `CheckedInv` carries the
  three facts that make this right: `df` covers every key that differs, the part
  of `df` the loop has passed is in spec, and the candidate differs from `vec2`
  only by defaults.
* `ErrorIsHarmless`: `Spec => []ErrorChangesNothing`, from `ErrorInv`: in every
  phase that can still end in an error running is what it was, unless a write
  failed in the middle of the copy.
* `NoPluginLeftInside`: `Spec => []HooksClosed`, which is inductive as it stands.

The second part proves what the loops do to the system, for a commit vector of
any length and a callback that fails at any entry:

* `SystemFollowsRunning`: `Spec => []InSync`.  `InSync` speaks of the moments
  between messages only; the invariant has to say how far each of the seven loops
  has come.  `VecInv`: the commit vector has every entry whose key differs, once,
  in row order.  `NewInv`: the entries a forward loop has passed have their new
  value.  `SyncInv`, as long as no fault is beyond repair: the entries a forward
  loop has not reached, and those a rollback loop has passed, have their old value
  (`OldInv`), the rest of the system was never touched (`Kept`), and running is
  what the difference was made of.  The delete loop needs the split by `Del`: what
  it deletes is brought back by `readd`, what it passes over by `unset`.
* `CopyComesLast`: `Spec => RunningFollowsSystem`, from `NewInv` at the copy and
  from the fact that the candidate is `vec2` up to defaults.
* `PrioritiesRespected`: `Spec => PriorityOrder`, from `NewInv` and the sorted
  vector.

The third proves `CommitIsAtomic`: `Spec => ImplementsAtomicCommit`.
`SystemView` is the key: in every phase the mapped system is the image of running,
so a step that does not write running is a stutter, a request or an answer; the
copy to running is the step `Switch`.

### The sessions (ConfigSessionProofs)

From `SessionConstants`, for any number of processes and finitely many connections.

* `SessionTypes`, `EntriesLive` (`[]NoDanglingEntry`), `ListsInStep`
  (`[]ListsAgree`), `LoopNeverBlocks` (`[]NeverBlocks`) and `PoliteClientsSurvived`
  (`[]SurvivesPoliteClients`) come from one invariant, `SessionInv`.  A callback
  may remove entries the walk has not come to, so `NoDanglingEntry` alone is not
  inductive.  `Lists` ties the entries, the client list and the open connections
  together and says that none is in a list twice; `Unserved` says that what
  `select` found readable and the walk has not reached is still readable, which is
  what keeps `read` from blocking; `Ends` ties the two ends of a connection, and
  `Requested` says that a client that lives has one request under way at most,
  which is why an answer to it cannot raise SIGPIPE.
* `LockKept`: `Spec => LockExcludes`.  It holds of every step, handler by handler,
  and needs no invariant; steps outside the handlers leave lock and databases alone
  (`OutsideHandlers`).

### The rest of the backend (BackendProofs)

From `LifecycleAssumption`, `NotifyAssumption`, `ChunkAssumption` and
`DiffAssumption`.

* `ServerFound`: `LifeSpec => []ServerReachable`, for any number of processes and
  runs of `main()`, of which any may overlap: the property itself says that it is
  about processes that did not, since the last one that began alone.  `Turns`, under
  that condition, is the strengthening: two processes are on the move together only
  when one ousts the other, and what starts while one serves has not yet gone past
  the pidfile.
* `SnapshotsOrdered`: `LifeSpec => []ArchiveInOrder`, for an archive of any length.
  `ArchiveInv` adds that every entry is one of the commits made so far, so that
  the next is later than all; `RotateKeepsOrder` covers a rename that fails
  anywhere.  `CutStaysCut`: `LifeSpec => DamageStays`.
* `NobodyForgotten`: `NotifySpec => []AllSubscribersTold`, for any subscriptions.
  `NothingLost` balances the books: what a connection has been told and what the
  walk still holds for it make up what is due.  `Placed` says that the targets of
  a walk have different places, so one of them is always the next.
* `HeapStaysSound`: `ChunkSpec => []HeapSound`, for any size classes, labels and
  calls, wherever memory runs out, as long as no other block was torn.  `HeapSafe` is
  the invariant: every chunk in use
  is held once, by a caller, a group, a name or an entry (`Apart`), in a block that
  is mapped and counts it (`Memory`, `Mapped`), and the entries of a group are what
  was allocated under its label (`Grouped`, `Filled`), also where a request failed
  after some of the chunks it needs.
* `DifferenceComplete`: `DiffSpec => []DiffExact`, for any values, edits and indexes.
  `DiffInv` is the invariant.  `SoundDb` says what is left of the unique variables
  when deleted entries leave theirs behind: no two entries of the outer list have
  the same, items under one index have the same outer value, leftovers too, and no
  index is given away before it is taken; items inside may be twins of each other.
  `Contributed` says what the items passed so far add to the difference: with twins
  one of them is compared, and which one is left open.  For the merge, `Frontier` says that what one pointer has
  passed is smaller than what the other still has before it, and `Exact` that the
  difference so far is what the items passed so far contribute; `Comparing` is the
  same for the second algorithm, which passes items in any order.
* `VectorComplete`: `DiffSpec => []DependentsCalled`, for any dependencies and
  priorities.  `VecOK` is what holds of the vector in any order (so the sort, a
  permutation, keeps it); `Passed` are the pairs of difference and dependency that
  the loops have been at, and `Heard` says that each of these has its call.

### The lists (ListProofs)

From `ListAssumption`.

* `ListsStayIndexed`: `ListDbSpec => []ListsIndexed`.  `ListInv` holds as long as
  changes of one list do not overlap and no access fails.  `ChangesStand` says for
  every place of an operation which of index key, record and `A.n` are written
  already.  `IndexesFit` bounds `A.n`: with each operation that may still raise
  it, it is at most the number of operations begun.
* `OperationsDoWhatTheySay`: `ListDbSpec => OperationsExact`, for an operation that
  runs alone.  `Doing` relates what a reader would see in the middle of it to what
  was there before: nothing but the outer entry is new until the last write.
  `Fresh` is needed for that entry: an index that has not been given to an entry
  has nothing inside it.

### The messages (ChannelProofs)

From `ChannelAssumption`, for any strings and numbers, any modulus of the length
and any size of the pieces.

* Every encoder fits its decoder (`OneStrSound`, `CopySound`, `NumSound`,
  `ChangeSound`, `CallSound`, `SaveSound`, `OkSound`), unless the length wraps.
  `At(b, p, t)` says that a part lies in a body at a place; `AtStr` is the lemma on
  the end of a string.
* `MessagesStayIntact`: `ChannelSpec => []MessagesIntact`.  The property speaks of
  the next header and of what was decoded; the invariant has to speak of
  everything on the way.  `Streams` is the smallest set of sequences of whole
  frames with the messages in them.  `ChannelInv`: in a direction that no short
  read has broken, the pipe and what is still to be written are the rest of the
  message whose header has been read, and then a stream; and if every message
  fits, what was decoded, that message and those in the stream are what was sent.

### The clients (ShellProofs, ClientProofs)

From `CliShellAssumption`, `NetconfAssumption` and `CliSessionAssumption`.

* `CommandsFindTheirMode`: `ShellSpec => []ModeFollowsCommand`.  `SearchInv` keeps
  the mode that is looked in among those the search comes to from where the line
  was typed, and the user's mode where it was until the command is found.
* `PromptStaysSound`: `ShellSpec => []PromptSound`, from four invariants.
  `PluginInv`: the list is what was opened, last first, the application's plugins
  behind the system's in the order of loading, and all of them there when the
  syntax files are read.  `FilesInv`: after n syntax files the modes hold exactly
  the commands of these, and the first file that brings a command binds it.
  `SyntaxInv`: what was saved by a push is the top, and the parents of what is
  offered are the top.  `SignalInv`: the signals at each place, unless `pipe()`
  failed.
* `CandidateStays`: `NetconfSpec => []CandidateKept`.  `NetInv`: a missing candidate
  has a session that is about to make it, cannot go on, or has told its peer of an
  error in the `delete-config` it was at.
* `AnswersKeepOrder`: `NetconfSpec => []AnsweredInOrder`, for messages of any number
  and text and any split of the stream into reads.  `OrderInv`: what is buffered, in
  hand and on the wire is the rest of the messages, three pieces each; no read ends
  between the halves of an end tag unless `split` says so; each request that was
  read has one answer, in its place, or is in hand.  `HandSound` bounds the errors
  that wait by the elements passed, which is what `Worded` needs.  `AnsweredInOrder` compares the
  places of requests and answers in the stream instead of filtering it: `SelectSeq`
  has no meaning to the provers.
* `CandidatesRemade`: `CliSessionSpec => []DatabasesExist`.  `DbsPresent` says of a
  database that is missing in the middle of commands that some CLI's next call
  makes it.
* `EditsAllOrNothing`: `CliSessionSpec => AutocommitAtomic`.  `EditStands` says how
  far an edit has come that no other CLI disturbs: before its change the databases
  are the ones it began with, before its commit candidate is the edited one, and
  before its restoration running is as it was or has the edit with its default
  values.

### Only model-checked

* Liveness: `RequestsAnswered`, `WalkEnds`, `TimerCalled`.  Fairness and
  ENABLED are beyond the prover.
* `DbspecExact`, `CommandsUsable`, `SaveExact`, `FilterExact`, `XpathExact`:
  SpecTranslate, XmlMap and XmlSelect translate recursive C functions with
  recursive operators, about which the prover cannot reason.

## Not modelled

* The grammars and lexers (YANG, dbspec, XML), the text of XML, YANG types: text
  processing.  A parsed file is a tree here.
* `clicon_lvmap.c`, `clicon_dbmatch.c` and the show commands of the CLI: they
  print records by format strings.
* The byte layout of a value in a record; the hash table, the option table,
  strings, SHA-1, error texts.
* `xml_edit` in `netconf_filter.c`, which nothing calls.
* Plugins: their functions are outcomes.  `plugin_downcall`, the Python bindings,
  `dbctrl` and the examples.

## Plan

What is left is a composition of CliSession with ConfigSession, so that the
requests of a command meet the lock and the event loop themselves.
