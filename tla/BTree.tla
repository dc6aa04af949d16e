------------------------------- MODULE BTree -------------------------------
(***************************************************************************)
(* The copy-on-write B-tree of npkFS (kernel/src/storage/npkfs/btree.rs):  *)
(* insert with splits up to the root, delete with the removal of emptied   *)
(* leaves, lookup and the walk of the sweep, on nodes in blocks.           *)
(*                                                                         *)
(* A key is a content hash, here a number, and stands for its entry.  An   *)
(* internal node keeps all its slots, those beyond `n' with whatever an    *)
(* earlier version of the node left in them; the counts and offsets are    *)
(* the wrapping integers of the release build.  Each operation runs under  *)
(* the store lock and is one action together with the commit that frees    *)
(* the replaced blocks; which free block the allocator picks makes no      *)
(* difference, so it is the lowest.  Device errors and checksums are the   *)
(* business of NpkStore.                                                   *)
(***************************************************************************)
EXTENDS Integers, Sequences, FiniteSets, SequencesExt

CONSTANTS
    Keys,             \* content hashes, positive numbers
    TreeBlocks,       \* blocks of the data area, positive numbers
    MaxLeafEntries,   \* MAX_LEAF_ENTRIES
    MaxInternalKeys,  \* MAX_INTERNAL_KEYS
    MaxTreeDepth      \* MAX_TREE_DEPTH

VARIABLES
    node,      \* contents of the blocks
    btRoot,    \* sb.btree_root, 0 for an empty tree
    used,      \* blocks the bitmap calls allocated
    held,      \* history: keys inserted and not deleted since
    stranded   \* history: an operation left blocks to nobody

btVars == <<node, btRoot, used, held, stranded>>

-----------------------------------------------------------------------------
(* Nodes.                                                                  *)

NoNode == [kind |-> "free"]
Leaf(keys) == [kind |-> "leaf", keys |-> keys]

\* An internal node whose slots beyond the entries are zero
Internal(ents, right) ==
    [kind |-> "internal", n |-> Len(ents), right |-> right,
     ent |-> [i \in 1 .. MaxInternalKeys |-> IF i <= Len(ents) THEN ents[i] ELSE <<0, 0>>]]

\* read_header: the count is clamped to the node's capacity
Count(nd) == Min({nd.n, MaxInternalKeys})

\* internal_child at slot i.  The offset of slot -1 wraps around to that of
\* right_child in the header.
InternalChild(nd, i) == IF i = -1 THEN nd.right ELSE nd.ent[i + 1][2]

\* The first slot, from 0, whose key is greater than k, else the number of slots
FirstAbove(k, keys) == Min({i \in 0 .. Len(keys) - 1 : k < keys[i + 1]} \cup {Len(keys)})

\* find_child_with_idx: the index
ChildIdx(nd, k) == FirstAbove(k, [i \in 1 .. Count(nd) |-> nd.ent[i][1]])

ChildAt(nd, i) == IF i < Count(nd) THEN InternalChild(nd, i) ELSE nd.right

\* The descent of lookup, insert and delete: the nodes passed with the index
\* of the child taken, and the block it ends at
RECURSIVE Descent(_, _, _)
Descent(b, k, path) ==
    IF b \in TreeBlocks /\ node[b].kind = "internal" /\ Len(path) < MaxTreeDepth - 1
      THEN LET i == ChildIdx(node[b], k)
           IN  Descent(ChildAt(node[b], i), k, Append(path, <<b, i>>))
      ELSE [path |-> path, end |-> b]

\* lookup
Found(k) ==
    LET b == Descent(btRoot, k, <<>>).end
    IN  /\ b \in TreeBlocks /\ node[b].kind = "leaf"
        /\ \E i \in 1 .. Len(node[b].keys) : node[b].keys[i] = k

\* Child pointers of an internal node as `walk' takes them, left to right
Children(nd) ==
    SelectSeq([i \in 1 .. Count(nd) + 1 |-> ChildAt(nd, i - 1)], LAMBDA c : c # 0)

\* walk: the entries below b, and the nodes, down to depth d
RECURSIVE WalkEntries(_, _), WalkNodes(_, _)
WalkEntries(b, d) ==
    CASE node[b].kind = "leaf" -> node[b].keys
      [] node[b].kind = "internal" /\ d > 0 ->
           LET below == Children(node[b])
           IN  FlattenSeq([i \in DOMAIN below |-> WalkEntries(below[i], d - 1)])
      [] OTHER -> <<>>
WalkNodes(b, d) ==
    {b} \cup IF node[b].kind = "internal" /\ d > 0
               THEN UNION {WalkNodes(c, d - 1) : c \in Range(Children(node[b]))}
               ELSE {}

-----------------------------------------------------------------------------
(* An operation under way: the blocks it wrote, those it took and replaced. *)

Begin == [node |-> node, used |-> used, old |-> {}, root |-> btRoot, full |-> FALSE]

\* bitmap.alloc(1)
NewBlock(T) == Min((TreeBlocks \ T.used) \cup {Max(TreeBlocks) + 1})

\* write_node of `nd' to a new block
WriteNode(T, nd) ==
    IF T.used = TreeBlocks
      THEN [T EXCEPT !.full = TRUE]
      ELSE [T EXCEPT !.node[NewBlock(T)] = nd, !.used = @ \cup {NewBlock(T)}]

Replaces(T, b) == [T EXCEPT !.old = @ \cup {b}]

WithChild(nd, i, child) ==
    IF i < Count(nd) THEN [nd EXCEPT !.ent[i + 1][2] = child] ELSE [nd EXCEPT !.right = child]

\* fixup_path: the new child's block goes up the path
RECURSIVE FixupPath(_, _, _)
FixupPath(T, path, child) ==
    IF path = <<>> \/ T.full
      THEN [T EXCEPT !.root = child]
      ELSE LET b == path[Len(path)][1]
               nd == WithChild(node[b], path[Len(path)][2], child)
           IN  FixupPath(Replaces(WriteNode(T, nd), b), SubSeq(path, 1, Len(path) - 1), NewBlock(T))

-----------------------------------------------------------------------------
(* Insert.                                                                 *)

\* A key with the halves of a split child goes into a parent that has room:
\* `left' with the key, `right' where the child was.
WithSplit(nd, key, left, right) ==
    LET n == Count(nd)
        pos == ChildIdx(nd, key)
        at(i) == CASE i = pos + 1            -> <<key, left>>
                   [] i = pos + 2 /\ pos < n -> <<nd.ent[pos + 1][1], right>>
                   [] i > pos + 2 /\ i <= n + 1 -> nd.ent[i - 1]
                   [] OTHER                  -> nd.ent[i]
    IN  [nd EXCEPT !.n = n + 1,
                   !.right = IF pos = n THEN right ELSE @,
                   !.ent = [i \in 1 .. MaxInternalKeys |-> at(i)]]

\* split_internal: the entries of a full parent with the new one, and the
\* rightmost child
SplitEntries(nd, key, left, right) ==
    LET pos == ChildIdx(nd, key)
        all == InsertAt(SubSeq(nd.ent, 1, Count(nd)), pos + 1, <<key, left>>)
    IN  IF pos + 1 = Len(all)
          THEN [ents |-> all, right |-> right]
          ELSE [ents |-> [all EXCEPT ![pos + 2][2] = right], right |-> nd.right]

\* fixup_path_split: the halves of a split node go up the path, splitting
\* parents that are full; above the root the tree grows
RECURSIVE FixupPathSplit(_, _, _, _, _)
FixupPathSplit(T, path, left, right, key) ==
    IF T.full THEN T
    ELSE IF path = <<>>
      THEN [WriteNode(T, Internal(<< <<key, left>> >>, right)) EXCEPT !.root = NewBlock(T)]
    ELSE
      LET b == path[Len(path)][1]
          up == SubSeq(path, 1, Len(path) - 1)
          nd == node[b]
          split == SplitEntries(nd, key, left, right)
          mid == Len(split.ents) \div 2
          lower == Internal(SubSeq(split.ents, 1, mid), split.ents[mid + 1][2])
          upper == Internal(SubSeq(split.ents, mid + 2, Len(split.ents)), split.right)
          T1 == WriteNode(T, lower)
      IN  IF Count(nd) < MaxInternalKeys
            THEN FixupPath(Replaces(WriteNode(T, WithSplit(nd, key, left, right)), b), up, NewBlock(T))
            ELSE FixupPathSplit(Replaces(WriteNode(T1, upper), b), up,
                                NewBlock(T), NewBlock(T1), split.ents[mid + 1][1])

\* insert of a key that the leaf at the end of its path does not hold
Inserted(k) ==
    LET d == Descent(btRoot, k, <<>>)
        keys == node[d.end].keys
        with == InsertAt(keys, FirstAbove(k, keys) + 1, k)
        mid == Len(with) \div 2
        T1 == WriteNode(Begin, Leaf(SubSeq(with, 1, mid)))
        T2 == WriteNode(T1, Leaf(SubSeq(with, mid + 1, Len(with))))
    IN  IF btRoot = 0
          THEN FixupPath(WriteNode(Begin, Leaf(<<k>>)), <<>>, NewBlock(Begin))
        ELSE IF Len(keys) < MaxLeafEntries
          THEN FixupPath(Replaces(WriteNode(Begin, Leaf(with)), d.end), d.path, NewBlock(Begin))
        ELSE FixupPathSplit(Replaces(T2, d.end), d.path, NewBlock(Begin), NewBlock(T1), with[mid + 1])

-----------------------------------------------------------------------------
(* Delete.                                                                 *)

\* Mutant: right_child stays on the leaf that was removed.
WithoutChildKeeps(nd, i) ==
    LET n == Count(nd)
    IN  [nd EXCEPT !.n = (n - 1) % 65536,
                   !.ent = [j \in 1 .. MaxInternalKeys |->
                              IF j > i /\ j < n THEN nd.ent[j + 1] ELSE nd.ent[j]]]

\* The parent without child i: slots move down, or the last of them becomes
\* the rightmost child.  The count is a u16.
WithoutChild(nd, i) ==
    LET n == Count(nd)
    IN  [nd EXCEPT !.n = (n - 1) % 65536,
                   !.right = IF i < n THEN @ ELSE InternalChild(nd, n - 1),
                   !.ent = [j \in 1 .. MaxInternalKeys |->
                              IF j > i /\ j < n THEN nd.ent[j + 1] ELSE nd.ent[j]]]

\* remove_from_parent, for the last leaf of `path': a root with one key gives
\* way to the child that is left
RemoveFromParent(T, path) ==
    LET b == path[Len(path)][1]
        i == path[Len(path)][2]
        nd == node[b]
        remaining == IF i > 0 THEN InternalChild(nd, 0)
                     ELSE IF Count(nd) > 0 THEN nd.right ELSE 0
    IN  IF Count(nd) <= 1 /\ Len(path) = 1
          THEN [Replaces(T, b) EXCEPT !.root = remaining]
          ELSE FixupPath(Replaces(WriteNode(T, WithoutChild(nd, i)), b),
                         SubSeq(path, 1, Len(path) - 1), NewBlock(T))

\* delete of a key that the leaf at the end of its path holds.  The new leaf
\* of a tree that becomes empty is written and belongs to nobody.
Deleted(k) ==
    LET d == Descent(btRoot, k, <<>>)
        rest == SelectSeq(node[d.end].keys, LAMBDA x : x # k)
        T == Replaces(Begin, d.end)
    IN  IF rest = <<>> /\ d.path # <<>>
          THEN RemoveFromParent(T, d.path)
          ELSE FixupPath(WriteNode(T, Leaf(rest)), d.path, IF rest = <<>> THEN 0 ELSE NewBlock(T))

-----------------------------------------------------------------------------
(* The operations of the store on the tree.                                *)

\* The commit of a finished operation frees what it replaced.  One that ran
\* out of blocks returns DiskFull: the tree is as before, and the blocks it
\* took stay allocated.
Commit(T, keys) ==
    IF T.full
      THEN /\ used' = T.used /\ stranded' = TRUE
           /\ UNCHANGED <<node, btRoot, held>>
      ELSE LET taken == T.used \ T.old
               lost == T.root = 0 /\ taken # {}
           IN  /\ used' = taken
               /\ node' = [b \in TreeBlocks |-> IF b \in taken THEN T.node[b] ELSE NoNode]
               /\ btRoot' = T.root
               /\ held' = keys
               /\ stranded' = (stranded \/ lost)

\* btree::insert in put_inner.  A descent that ends at no leaf is an error
\* before anything is changed.
BtInsert(k) ==
    /\ ~Found(k)
    /\ btRoot # 0 => node[Descent(btRoot, k, <<>>).end].kind = "leaf"
    /\ Commit(Inserted(k), held \cup {k})

\* unlink: lookup, then btree::delete
BtDelete(k) == Found(k) /\ Commit(Deleted(k), held \ {k})

\* k is the last key under an internal node that is not the root.
LastBelow(k) ==
    LET d == Descent(btRoot, k, <<>>)
    IN  /\ Len(d.path) > 1
        /\ Len(node[d.end].keys) = 1
        /\ Count(node[d.path[Len(d.path)][1]]) = 0

BtInit ==
    /\ node = [b \in TreeBlocks |-> NoNode]
    /\ btRoot = 0 /\ used = {} /\ held = {} /\ stranded = FALSE

BtNext == \E k \in Keys : BtInsert(k) \/ BtDelete(k)
BtSpec == BtInit /\ [][BtNext]_btVars

\* Without deletes that take the last key below an internal node
BtKeptNext == \E k \in Keys : BtInsert(k) \/ (~LastBelow(k) /\ BtDelete(k))
BtKeptSpec == BtInit /\ [][BtKeptNext]_btVars

-----------------------------------------------------------------------------
(* Properties.                                                             *)

\* The tree without the numbers of its blocks and what its unused slots hold
RECURSIVE ShapeAt(_)
ShapeAt(b) ==
    IF node[b].kind # "internal" THEN node[b]
    ELSE LET below == Children(node[b])
         IN  [keys |-> [i \in 1 .. Count(node[b]) |-> node[b].ent[i][1]],
              kids |-> [i \in DOMAIN below |-> ShapeAt(below[i])]]
Shape == IF btRoot = 0 THEN NoNode ELSE ShapeAt(btRoot)

TreeNodes == IF btRoot = 0 THEN {} ELSE WalkNodes(btRoot, MaxTreeDepth)

\* "Forgetting this leaves right_child dangling on a freed leaf"
\* (btree.rs:710-711): no node of the tree points at a block that was freed,
\* whatever is inserted and deleted.
NoDanglingChild == \A b \in TreeNodes : b \in used /\ node[b] # NoNode

\* The tree is the map it stands for.  lookup finds exactly the keys inserted
\* and not deleted since, and the walk of the sweep meets each of them once
\* and in order, across splits, leaves that go, roots that grow and shrink,
\* and operations that run out of blocks; no pointer dangles, and unless an
\* operation ran out of blocks or emptied the tree no block is lost.
TreeSound ==
    /\ {k \in Keys : Found(k)} = held
    /\ NoDanglingChild
    /\ LET entries == IF btRoot = 0 THEN <<>> ELSE WalkEntries(btRoot, MaxTreeDepth)
       IN  /\ Range(entries) = held
           /\ \A i \in 1 .. Len(entries) - 1 : entries[i] < entries[i + 1]
    /\ ~stranded => used = TreeNodes
=============================================================================
