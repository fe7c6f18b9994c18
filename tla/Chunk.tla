------------------------------- MODULE Chunk -------------------------------
(***************************************************************************)
(* The memory allocator of clicon_chunk.c.  Memory comes in blocks of a    *)
(* size class, cut into chunks; a free chunk waits in the list of its      *)
(* class, and a block whose last chunk is released is unmapped.  A chunk   *)
(* may carry a label, usually the name of the function that allocates it,  *)
(* and unchunk_group() releases all chunks of a label.  The allocator      *)
(* keeps its own entries, groups and names of groups in chunks of the same *)
(* heap.                                                                   *)
(***************************************************************************)
EXTENDS Integers, Sequences, FiniteSets, SequencesExt

CONSTANTS
  Blocks,      \* blocks that mmap() can give
  ClassOf,     \* [Blocks -> size class]
  PerBlock,    \* [size class -> ch_nchkperblk]
  Large,       \* size classes whose blocks are larger than a page
  EntClass,    \* class of a chunk_grpent_t and of a chunk_group_t
  Labels,      \* names of groups
  NameClass,   \* [Labels -> class that its name needs]
  NoLabel, Nil,
  MaxCalls     \* bound: number of calls

Classes == DOMAIN PerBlock

ChunksOf(b) == {<<b, i>> : i \in 1..PerBlock[ClassOf[b]]}
Chunks == UNION {ChunksOf(b) : b \in Blocks}

ASSUME ChunkAssumption ==
  /\ ClassOf \in [Blocks -> Classes] /\ PerBlock \in [Classes -> Nat \ {0}]
  /\ Large \subseteq Classes /\ \A k \in Large : PerBlock[k] = 1
  /\ EntClass \in Classes /\ NameClass \in [Labels -> Classes] /\ NoLabel \notin Labels /\ MaxCalls \in Nat
  /\ Nil \notin Chunks /\ Nil \notin Chunks \X Chunks /\ Nil \notin Chunks \X Labels

Class(c) == ClassOf[c[1]]

VARIABLES
  heap,    \* the structures of the allocator, below
  live,    \* what the program holds: [chunk -> its label]
  lost,    \* chunks nobody knows any more
  torn,    \* mapped blocks whose memory is not there any more
  calls

chunkVars == <<heap, live, lost, torn, calls>>

(***************************************************************************)
(* heap.free    ch_free: [class -> free chunks, the head first]            *)
(* heap.ref     cb_ref: [Blocks -> number of used chunks]                  *)
(* heap.mapped  blocks that are mapped                                     *)
(* heap.ent     c_grpent: [Chunks -> entry or Nil]                         *)
(* heap.of      ce_cnk and ce_grp: [Chunks -> <<chunk, group>> or Nil]     *)
(* heap.ents    cg_ent: [Chunks -> entries of the group, the head first]   *)
(* heap.name    cg_name: [Chunks -> <<chunk of the name, label>> or Nil]   *)
(* heap.groups  chunk_grp: all groups, the head first                      *)
(***************************************************************************)
EmptyHeap ==
  [free |-> [k \in Classes |-> <<>>], ref |-> [b \in Blocks |-> 0], mapped |-> {},
   ent |-> [c \in Chunks |-> Nil], of |-> [c \in Chunks |-> Nil],
   ents |-> [c \in Chunks |-> <<>>], name |-> [c \in Chunks |-> Nil], groups |-> <<>>]

ChunkInit == heap = EmptyHeap /\ live = <<>> /\ lost = {} /\ torn = {} /\ calls = 0

Used(h) == (UNION {ChunksOf(b) : b \in h.mapped}) \ (UNION {ToSet(h.free[k]) : k \in Classes})

----------------------------------------------------------------------------
\* chunk_new_block(): the chunks are put in the free list one by one.
ChunkNewBlock(h, b) ==
  LET n == PerBlock[ClassOf[b]]
  IN [h EXCEPT !.mapped = @ \cup {b}, !.free[ClassOf[b]] = [i \in 1..n |-> <<b, n + 1 - i>>] \o @]

\* chunk_release_block(): the chunks are taken out of the free list one by one.
Unlinked(free, b) ==
  FoldLeft(LAMBDA s, c : RemoveFirst(s, c), free, [i \in 1..PerBlock[ClassOf[b]] |-> <<b, i>>])
ChunkReleaseBlock(h, b) ==
  [h EXCEPT !.mapped = @ \ {b}, !.free[ClassOf[b]] = Unlinked(@, b)]

\* chunk_alloc(): the head of the free list, from a new block if it is empty.
TakeChunk(h, k) ==
  LET c == Head(h.free[k])
  IN [ok |-> TRUE, c |-> c, h |-> [h EXCEPT !.free[k] = Tail(@), !.ref[c[1]] = @ + 1]]
ChunkAlloc(h, k) ==
  LET spare == {b \in Blocks \ h.mapped : ClassOf[b] = k}
  IN IF h.free[k] # <<>> THEN TakeChunk(h, k)
     ELSE IF spare # {} THEN TakeChunk(ChunkNewBlock(h, CHOOSE b \in spare : TRUE), k)
     ELSE [ok |-> FALSE, c |-> Nil, h |-> h]

\* The two ends of unchunk(): the chunk goes to the free list, and after its
\* entry is gone its block may be released.
PutFree(h, c) == [h EXCEPT !.free[Class(c)] = <<c>> \o @]
MutantUnref(h, c) ==
  LET g == [h EXCEPT !.ref[c[1]] = @ - 1]
  IN IF g.ref[c[1]] <= 1 THEN ChunkReleaseBlock(g, c[1]) ELSE g
Unref(h, c) ==
  LET g == [h EXCEPT !.ref[c[1]] = @ - 1]
  IN IF g.ref[c[1]] = 0 THEN ChunkReleaseBlock(g, c[1]) ELSE g
UnchunkPlain(h, c) == Unref(PutFree(h, c), c)

\* The entry of chunk c is taken out of its group and released.
ReleaseEntry(h, c) ==
  LET e == h.ent[c]
      g == h.of[e][2]
  IN [UnchunkPlain([h EXCEPT !.ents[g] = RemoveFirst(@, e), !.of[e] = Nil], e) EXCEPT !.ent[c] = Nil]
\* A group without entries goes with its name.
ReleaseGroup(h, g) ==
  [UnchunkPlain(UnchunkPlain([h EXCEPT !.groups = RemoveFirst(@, g)], h.name[g][1]), g) EXCEPT !.name[g] = Nil]

\* unchunk(): a group that has become empty goes too, unless keep is set
\* (dont_unchunk_group).
Unchunk(h, c, keep) ==
  LET g == h.of[h.ent[c]][2]
      h1 == PutFree(h, c)
      h2 == ReleaseEntry(h1, c)
  IN IF h.ent[c] = Nil THEN Unref(h1, c)
     ELSE IF keep \/ h2.ents[g] # <<>> THEN Unref(h2, c)
     ELSE Unref(ReleaseGroup(h2, g), c)

Groups(h, label) == {g \in ToSet(h.groups) : h.name[g][2] = label}

\* The group that is made of chunk g, its name in chunk n.
NewGroup(h, g, n, label) ==
  [h EXCEPT !.groups = <<g>> \o @, !.name[g] = <<n, label>>, !.ents[g] = <<>>]
\* The entry that puts chunk c in group g.
Link(h, c, e, g) ==
  [h EXCEPT !.ent[c] = e, !.of[e] = <<c, g>>, !.ents[g] = <<e>> \o @]

\* When no block can be had, chunk_new_block() unmaps the header it has got
\* with the size of a block: for a large class whatever lies after the page of
\* the header goes too, blocks and their headers among it.
Tears(h, k) == IF k \in Large THEN h.mapped ELSE {}

Success(h, c) == [ok |-> TRUE, h |-> h, c |-> c, lost |-> {}, tears |-> {}]
Failure(h, lostNow, tears) == [ok |-> FALSE, h |-> h, c |-> Nil, lost |-> lostNow, tears |-> tears]
\* chunk(): the chunk, the group with its name if it is new, and the entry.
\* The error path gives back what it has, but not a group without a name.
ChunkNew(h, k, label) ==
  LET a == ChunkAlloc(h, k)
      old == Groups(h, label)
      b == ChunkAlloc(a.h, EntClass)
      n == ChunkAlloc(b.h, NameClass[label])
      e == ChunkAlloc(IF old # {} THEN a.h ELSE n.h, EntClass)
      grp == IF old # {} THEN CHOOSE g \in old : TRUE ELSE b.c
      h1 == IF old # {} THEN e.h
            ELSE NewGroup(e.h, b.c, n.c, label)
      back == IF old # {} THEN a.h ELSE UnchunkPlain(UnchunkPlain(n.h, n.c), b.c)
  IN IF ~a.ok THEN Failure(h, {}, Tears(h, k))
     ELSE IF label = NoLabel THEN Success(a.h, a.c)
     ELSE IF old = {} /\ ~b.ok THEN Failure(Unchunk(a.h, a.c, FALSE), {}, Tears(a.h, EntClass))
     ELSE IF old = {} /\ ~n.ok THEN Failure(Unchunk(b.h, a.c, FALSE), {b.c}, Tears(b.h, NameClass[label]))
     ELSE IF ~e.ok 
            THEN Failure(Unchunk(back, a.c, FALSE), {}, Tears(IF old # {} THEN a.h ELSE n.h, EntClass))
     ELSE Success(Link(h1, a.c, e.c, grp), a.c)

\* unchunk_group(): the entries from the head, then the group.
ReleaseMember(h, e) == Unchunk(h, h.of[e][1], TRUE)
ReleaseMembers(h, s) == FoldLeft(ReleaseMember, h, s)
UnchunkGroup(h, label) ==
  LET g == CHOOSE x \in Groups(h, label) : TRUE
  IN IF Groups(h, label) = {} THEN h ELSE ReleaseGroup(ReleaseMembers(h, h.ents[g]), g)

----------------------------------------------------------------------------
(* The calls a program makes.  With memory of a block gone the next use of *)
(* it ends the process, or finds what was mapped there since: the model    *)
(* says no more of it.                                                     *)

Called == torn = {} /\ calls < MaxCalls /\ calls' = calls + 1
LabelOf(h, c) == IF h.ent[c] = Nil THEN NoLabel ELSE h.name[h.of[h.ent[c]][2]][2]
Hold(f, c, label) == [x \in DOMAIN f \cup {c} |-> IF x = c THEN label ELSE f[x]]
Drop(f, S) == [x \in DOMAIN f \ S |-> f[x]]

\* chunk(), chunkdup(), chunk_sprintf()
New(k, label) ==
  /\ Called
  /\ LET r == ChunkNew(heap, k, label)
     IN /\ heap' = r.h
        /\ live' = IF r.ok THEN Hold(live, r.c, label) ELSE live
        /\ lost' = lost \cup r.lost
        /\ torn' \in SUBSET r.tears

\* rechunk(), chunk_strncat(): only a chunk that has to move gets the label
\* of the call.
Rechunk(c, k, label) ==
  /\ Called /\ c \in DOMAIN live
  /\ IF k = Class(c) THEN UNCHANGED <<heap, live, lost, torn>>
     ELSE LET r == ChunkNew(heap, k, label)
          IN /\ heap' = IF r.ok THEN Unchunk(r.h, c, FALSE) ELSE r.h
             /\ live' = IF r.ok THEN Hold(Drop(live, {c}), r.c, label) ELSE live
             /\ lost' = lost \cup r.lost
             /\ torn' \in SUBSET r.tears

Free(c) ==
  /\ Called /\ c \in DOMAIN live
  /\ heap' = Unchunk(heap, c, FALSE)
  /\ live' = Drop(live, {c})
  /\ UNCHANGED <<lost, torn>>

FreeGroup(label) ==
  /\ Called
  /\ heap' = UnchunkGroup(heap, label)
  /\ live' = Drop(live, {c \in DOMAIN live : live[c] = label})
  /\ UNCHANGED <<lost, torn>>

ChunkNext ==
  \/ \E k \in Classes, l \in Labels \cup {NoLabel} : New(k, l) \/ \E c \in Chunks : Rechunk(c, k, l)
  \/ (\E c \in Chunks : Free(c)) \/ (\E l \in Labels : FreeGroup(l))

ChunkSpec == ChunkInit /\ [][ChunkNext]_chunkVars

----------------------------------------------------------------------------
\* No two owners share a chunk: what the program holds, the entries, the
\* groups, their names and what was lost are different chunks, and together
\* all that is not in a free list.
ChunksAccounted ==
  LET g == ToSet(heap.groups)
      e == UNION {ToSet(heap.ents[x]) : x \in g}
      n == {heap.name[x][1] : x \in g}
      parts == <<DOMAIN live, e, g, n, lost>>
  IN /\ UNION {parts[i] : i \in 1..5} = Used(heap)
     /\ \A i, j \in 1..5 : i # j => parts[i] \cap parts[j] = {}
\* A block is mapped exactly as long as one of its chunks is in use.
BlocksCounted ==
  /\ \A b \in Blocks : heap.ref[b] = Cardinality(ChunksOf(b) \cap Used(heap))
  /\ heap.mapped = {b \in Blocks : heap.ref[b] > 0}
\* Every chunk the program holds is in the one group of its label.
GroupsExact ==
  /\ \A c \in DOMAIN live : live[c] = LabelOf(heap, c)
  /\ \A l \in Labels : Cardinality(Groups(heap, l)) <= 1
  /\ \A x \in ToSet(heap.groups) : heap.ents[x] # <<>>
        /\ \A e \in ToSet(heap.ents[x]) : heap.of[e][1] \in DOMAIN live /\ heap.ent[heap.of[e][1]] = e

(***************************************************************************)
(* Whatever calls were made and wherever memory ran out, as long as that   *)
(* did not take memory of other blocks away (chunk_new_block unmaps with   *)
(* the wrong size when the second of its two mappings fails), the heap is  *)
(* sound: no chunk has two owners, nothing has leaked but the group whose  *)
(* name could not be allocated, a block is unmapped neither too early nor  *)
(* too late although chunks, entries and names share blocks, and           *)
(* unchunk_group() finds what was allocated under the label and nothing    *)
(* else.                                                                   *)
(***************************************************************************)
HeapSound == torn = {} => ChunksAccounted /\ BlocksCounted /\ GroupsExact
=============================================================================
