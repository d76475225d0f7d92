------------------------------ MODULE VMATree -------------------------------
(***************************************************************************)
(* The red-black tree of a process's address space (VMATree in vma.rs).    *)
(* Leaves are the segments and the gaps between them, branches hold the    *)
(* addresses that separate them.                                           *)
(*                                                                         *)
(* Addresses count pages.  Nodes are named by their slot in the node       *)
(* storage, 1 .. MaxNodes; slot 0 is temp_node, which is not in a storage  *)
(* page.  A tree is a record                                               *)
(*                                                                         *)
(*   mem   slot -> node                                                    *)
(*   root  slot of the root                                                *)
(*   free  slots of the storage that are not reserved                      *)
(*   bad   temp_node was freed, or written while it was a leaf of the      *)
(*         tree: that leaf is lost or memory is corrupted.  The code goes  *)
(*         on; the model does not, and the tree is not meaningful then     *)
(***************************************************************************)
EXTENDS Integers, Sequences, FiniteSets, FiniteSetsExt

CONSTANTS
  HighestUserAddress,  \* the last address of the address space
  MaxNodes,            \* slots of the node storage that can be allocated
  Lengths              \* lengths of the segments that are mapped

Temp == 0
Null == -1
Address == 0 .. HighestUserAddress

Opposite(side) == IF side = "left" THEN "right" ELSE "left"

Empty(size) == [kind |-> "empty", size |-> size]
Used == [kind |-> "used", size |-> 0]
Branch(pivot, is_temp_null, parent, left, right) ==
  [kind |-> "branch", pivot |-> pivot, temp_null |-> is_temp_null, red |-> FALSE,
   size |-> 0, parent |-> parent, child |-> [left |-> left, right |-> right]]
Placeholder == Empty(0)

IsBranch(t, p) == t.mem[p].kind = "branch"
IsEmptyLeaf(t, p) == t.mem[p].kind = "empty"
IsUsedLeaf(t, p) == t.mem[p].kind = "used"
IsRed(t, p) == IsBranch(t, p) /\ t.mem[p].red
Child(t, p, side) == t.mem[p].child[side]
Parent(t, p) == t.mem[p].parent
SetRed(t, p, red) == [t EXCEPT !.mem[p].red = red]
SideOf(t, p) == IF Child(t, Parent(t, p), "left") = p THEN "left" ELSE "right"
Sibling(t, p) == Child(t, Parent(t, p), Opposite(SideOf(t, p)))

\* NodePtr::free
FreeNode(t, p) ==
  IF p = Temp THEN [t EXCEPT !.bad = TRUE]
  ELSE [t EXCEPT !.mem[p] = Placeholder, !.free = @ \cup {p}]

\* recalculate_max_empty_area_size.  The size of a branch is its
\* max_empty_area_size; that of a used leaf is 0.
Recalculate(t, p) ==
  [t EXCEPT !.mem[p].size =
     Max({t.mem[Child(t, p, "left")].size, t.mem[Child(t, p, "right")].size})]

\* update_max_empty_area_data
RECURSIVE UpdateMaxEmptyArea(_, _)
UpdateMaxEmptyArea(t, p) ==
  IF p = Null THEN t ELSE UpdateMaxEmptyArea(Recalculate(t, p), Parent(t, p))

\* The link to old from its parent, or the root, is set to new.
Relink(t, old, new) ==
  IF Parent(t, old) = Null THEN [t EXCEPT !.root = new]
  ELSE [t EXCEPT !.mem[Parent(t, old)].child[SideOf(t, old)] = new]

\* replace_node
ReplaceNode(t, old, new) ==
  LET u == Relink(t, old, new)
  IN  IF IsBranch(u, new) THEN [u EXCEPT !.mem[new].parent = Parent(t, old)] ELSE u

\* Mutant: the subtree that changes sides keeps its old parent.
RotateKeepsParent(t, p, side) ==
  LET up == Child(t, p, Opposite(side))
      inner == Child(t, up, side)
      t1 == [t EXCEPT !.mem[p].child[Opposite(side)] = inner]
      t2 == Relink([t1 EXCEPT !.mem[up].parent = Parent(t, p)], p, up)
      t3 == [t2 EXCEPT !.mem[up].child[side] = p, !.mem[p].parent = up]
  IN  Recalculate(Recalculate(t3, p), up)

\* left_rotate and right_rotate
Rotate(t, p, side) ==
  LET up == Child(t, p, Opposite(side))
      inner == Child(t, up, side)
      Adopt(u) == IF IsBranch(u, inner) THEN [u EXCEPT !.mem[inner].parent = p] ELSE u
      t1 == Adopt([t EXCEPT !.mem[p].child[Opposite(side)] = inner])
      t2 == Relink([t1 EXCEPT !.mem[up].parent = Parent(t, p)], p, up)
      t3 == [t2 EXCEPT !.mem[up].child[side] = p, !.mem[p].parent = up]
  IN  Recalculate(Recalculate(t3, p), up)

\* get_leaf_containing, from the node p whose range is start .. end
RECURSIVE LeafFrom(_, _, _, _, _, _, _)
LeafFrom(t, addr, p, parent, side, start, end) ==
  IF ~IsBranch(t, p)
  THEN [leaf |-> p, parent |-> parent, side |-> side, start |-> start, end |-> end]
  ELSE IF addr < t.mem[p].pivot
  THEN LeafFrom(t, addr, Child(t, p, "left"), p, "left", start, t.mem[p].pivot - 1)
  ELSE LeafFrom(t, addr, Child(t, p, "right"), p, "right", t.mem[p].pivot, end)

LeafContaining(t, addr) ==
  LeafFrom(t, addr, t.root, Null, "left", 0, HighestUserAddress)

\* min_leaf and max_leaf: the last leaf of the subtree p on one side.
RECURSIVE LastLeaf(_, _, _)
LastLeaf(t, p, side) ==
  IF IsBranch(t, p) THEN LastLeaf(t, Child(t, p, side), side) ELSE p

RECURSIVE FindMin(_, _)
FindMin(t, p) ==
  IF IsBranch(t, Child(t, p, "left")) THEN FindMin(t, Child(t, p, "left")) ELSE p
-----------------------------------------------------------------------------
\* insert

\* fix_insert: the loop from the branch k and, after it, the colour of the root.
RECURSIVE FixInsert(_, _)
FixInsert(t, k) ==
  LET Lower(p, g, side) ==
        LET uncle == Child(t, g, Opposite(side))
            Raise(u, n) == Rotate(SetRed(SetRed(u, Parent(u, n), FALSE), g, TRUE), g, Opposite(side))
            Again(u, n) == IF n = u.root THEN SetRed(u, n, FALSE) ELSE FixInsert(u, n)
        IN  IF IsRed(t, uncle)
            THEN Again(SetRed(SetRed(SetRed(t, uncle, FALSE), p, FALSE), g, TRUE), g)
            ELSE IF SideOf(t, k) = side THEN Again(Raise(t, k), k)
            ELSE Again(Raise(Rotate(t, p, side), p), p)
      parent == Parent(t, k)
  IN  IF IsRed(t, parent) THEN Lower(parent, Parent(t, parent), SideOf(t, parent))
      ELSE SetRed(t, t.root, FALSE)

\* Mutant: the tree is not rebalanced.
LinkInBranchUnbalanced(t, b, parent, side) ==
  UpdateMaxEmptyArea(
    IF parent = Null THEN [t EXCEPT !.root = b]
    ELSE SetRed([t EXCEPT !.mem[parent].child[side] = b], b, TRUE),
    b)

LinkInBranch(t, b, parent, side) ==
  LET linked == SetRed([t EXCEPT !.mem[parent].child[side] = b], b, TRUE)
      t1 == IF parent = Null THEN [t EXCEPT !.root = b]
            ELSE IF Parent(t, parent) # Null THEN FixInsert(linked, b)
            ELSE linked
  IN  UpdateMaxEmptyArea(t1, b)

\* The nth slot that find_and_reserve_node returns.
Slot(t, n) == CHOOSE p \in t.free : Cardinality({q \in t.free : q < p}) = n - 1

\* The nodes with the slots and contents in new are reserved and written.
Write(t, new) ==
  [t EXCEPT !.free = @ \ DOMAIN new,
            !.mem = [p \in DOMAIN t.mem |-> IF p \in DOMAIN new THEN new[p] ELSE @[p]]]

\* Number of nodes that insert reserves.  When it cannot reserve them all it
\* frees those it has and returns OutOfMemory.
NodesNeeded(gap, start, end) ==
  IF gap.start = start /\ end = gap.end THEN 0
  ELSE IF gap.start < start /\ end < gap.end THEN 4
  ELSE 2

InsertWhole(t, gap) ==
  UpdateMaxEmptyArea([t EXCEPT !.mem[gap.leaf] = Used], gap.parent)

\* The segment is at one end of the gap; the gap keeps its node.
InsertAtEdge(t, gap, start, end) ==
  LET used == Slot(t, 1)
      b == Slot(t, 2)
      right == gap.start < start
      t1 == Write(t, [p \in {used, b} |->
              IF p = used THEN Used
              ELSE IF right THEN Branch(start, FALSE, gap.parent, gap.leaf, used)
              ELSE Branch(end + 1, FALSE, gap.parent, used, gap.leaf)])
      t2 == [t1 EXCEPT !.mem[gap.leaf].size = IF right THEN start - gap.start ELSE gap.end - end]
  IN  LinkInBranch(t2, b, gap.parent, gap.side)

\* The segment is inside the gap: first the branch at its end is linked in,
\* then the one at its start.
InsertInside(t, gap, start, end) ==
  LET used == Slot(t, 1)
      empty == Slot(t, 2)
      end_b == Slot(t, 3)
      start_b == Slot(t, 4)
      t1 == Write(t, [p \in {used, empty, end_b, start_b} |->
              IF p = used THEN Used
              ELSE IF p = empty THEN Empty(gap.end - end)
              ELSE IF p = end_b THEN Branch(end + 1, FALSE, gap.parent, used, empty)
              ELSE Placeholder])
      LinkStart(u, at) ==
        LinkInBranch([u EXCEPT !.mem[start_b] = Branch(start, FALSE, at.parent, gap.leaf, at.leaf),
                               !.mem[gap.leaf].size = start - gap.start],
                     start_b, at.parent, at.side)
      Link(u) == LinkStart(u, LeafContaining(u, start))
  IN  Link(LinkInBranch(t1, end_b, gap.parent, gap.side))

\* VMATree::insert when the nodes can be reserved
InsertInto(t, start, end) ==
  LET gap == LeafContaining(t, start)
      need == NodesNeeded(gap, start, end)
  IN  IF need = 0 THEN InsertWhole(t, gap)
      ELSE IF need = 2 THEN InsertAtEdge(t, gap, start, end)
      ELSE InsertInside(t, gap, start, end)
-----------------------------------------------------------------------------
\* delete

\* delete_node_with_zero_or_one_child: the node that moves up, and the tree.
\* The branch p itself is freed by the caller.
Unlink(t, p) ==
  LET left == Child(t, p, "left")
      right == Child(t, p, "right")
      up == IF IsBranch(t, left) THEN left
            ELSE IF IsBranch(t, right) THEN right
            ELSE IF ~t.mem[p].red THEN Temp
            ELSE IF IsUsedLeaf(t, left) THEN left ELSE right
      leaf == IF up = left THEN right ELSE left
      linked == \E q \in DOMAIN t.mem \ (t.free \cup {Temp}) :
                  IsBranch(t, q) /\ Temp \in {Child(t, q, "left"), Child(t, q, "right")}
      t1 == IF up = Temp
            THEN [t EXCEPT !.mem[Temp] = Branch(0, TRUE, Null, left, right),
                           !.bad = @ \/ linked \/ t.root = Temp]
            ELSE FreeNode(t, leaf)
  IN  [node |-> up, tree |-> ReplaceNode(t1, p, up)]

HandleRedSibling(t, p) ==
  Rotate(SetRed(SetRed(t, Sibling(t, p), FALSE), Parent(t, p), TRUE), Parent(t, p), SideOf(t, p))

\* handle_black_sibling_at_least_one_red_child
HandleBlackSibling(t, p) ==
  LET side == SideOf(t, p)
      far == Opposite(side)
      q == Parent(t, p)
      s == Sibling(t, p)
      Finish(u, x) ==
        Rotate(SetRed(SetRed(SetRed(u, x, u.mem[q].red), q, FALSE), Child(u, x, far), FALSE), q, side)
      Turned(u) == Finish(u, Sibling(u, p))
  IN  IF IsRed(t, Child(t, s, far)) THEN Finish(t, s)
      ELSE Turned(Rotate(SetRed(SetRed(t, Child(t, s, side), FALSE), s, TRUE), s, far))

RECURSIVE FixDelete(_, _)
FixDelete(t, p) ==
  LET Black(u, s, q) ==
        IF IsRed(u, Child(u, s, "left")) \/ IsRed(u, Child(u, s, "right"))
        THEN HandleBlackSibling(u, p)
        ELSE IF IsRed(u, q) THEN SetRed(SetRed(u, s, TRUE), q, FALSE)
        ELSE FixDelete(SetRed(u, s, TRUE), q)
      Siblings(u) == Black(u, Sibling(u, p), Parent(u, p))
  IN  IF p = t.root THEN SetRed(t, p, FALSE)
      ELSE Siblings(IF IsRed(t, Sibling(t, p)) THEN HandleRedSibling(t, p) ELSE t)

\* Mutant: the right leaf is not freed.
RebalanceLeaks(t, up) ==
  LET Restore(u, left, right) ==
        FreeNode([u EXCEPT !.mem[up] = u.mem[IF IsUsedLeaf(u, left) THEN left ELSE right]], left)
      Finish(u) == IF u.mem[up].temp_null
                   THEN Restore(u, Child(u, up, "left"), Child(u, up, "right")) ELSE u
  IN  Finish(FixDelete(t, up))

\* The end of delete_branch for a black node: temp_node is overwritten with a
\* copy of one of the leaves, and both leaves are freed.
Rebalance(t, up) ==
  LET Restore(u, left, right) ==
        FreeNode(FreeNode([u EXCEPT !.mem[up] = u.mem[IF IsUsedLeaf(u, left) THEN left ELSE right]],
                          left), right)
      Finish(u) == IF u.mem[up].temp_null
                   THEN Restore(u, Child(u, up, "left"), Child(u, up, "right")) ELSE u
  IN  Finish(FixDelete(t, up))

\* When temp_node, a leaf of the tree by now, is freed or written, what it held
\* is lost.  The rest of the call works on what was overwritten: see bad.
LostLeaf(t) == [t EXCEPT !.bad = TRUE, !.mem[Temp] = Placeholder]

DeleteBranch(t, p) ==
  LET two == IsBranch(t, Child(t, p, "left")) /\ IsBranch(t, Child(t, p, "right"))
      Moved(u, gone) == [u EXCEPT !.mem[p].pivot = u.mem[gone].pivot, !.mem[p].size = u.mem[gone].size]
      Finish(u, gone, up) ==
        IF u.bad THEN LostLeaf(t)
        ELSE UpdateMaxEmptyArea(
               IF t.mem[gone].red THEN FreeNode(u, gone) ELSE Rebalance(FreeNode(u, gone), up),
               Parent(t, gone))
      Cut(gone, r) == Finish(r.tree, gone, r.node)
      Successor(gone) == Cut(gone, Unlink(Moved(t, gone), gone))
  IN  IF two THEN Successor(FindMin(t, Child(t, p, "right"))) ELSE Cut(p, Unlink(t, p))

\* Mutant: only one of the leaves gets the size.
CombineOne(t, p, q) == [t EXCEPT !.mem[p].size = @ + t.mem[q].size]

\* The empty leaves p and q get their combined size.
Combine(t, p, q) ==
  LET size == t.mem[p].size + t.mem[q].size
  IN  [t EXCEPT !.mem[p].size = size, !.mem[q].size = size]

LeftMax(t, p) == LastLeaf(t, Child(t, p, "left"), "right")
RightMin(t, p) == LastLeaf(t, Child(t, p, "right"), "left")

\* The first branch from p up to the root that separates two empty leaves.
RECURSIVE UselessPivot(_, _)
UselessPivot(t, p) ==
  IF p = Null \/ (IsEmptyLeaf(t, LeftMax(t, p)) /\ IsEmptyLeaf(t, RightMin(t, p))) THEN p
  ELSE UselessPivot(t, Parent(t, p))

\* 'gap_join_loop
RECURSIVE JoinGaps(_, _)
JoinGaps(t, addr) ==
  LET Join(u, p) ==
        IF p = Null THEN u
        ELSE JoinGaps(DeleteBranch(Combine(u, LeftMax(u, p), RightMin(u, p)), p), addr)
      Climb(u, parent) == Join(u, UselessPivot(u, parent))
      Start(parent) == Climb(UpdateMaxEmptyArea(t, parent), parent)
  IN  IF t.bad THEN t ELSE Start(LeafContaining(t, addr).parent)

\* VMATree::delete
DeleteFrom(t, addr) ==
  LET Emptied(u, at, sibling) ==
        IF IsEmptyLeaf(u, sibling)
        THEN DeleteBranch(Combine(u, at.leaf, sibling), at.parent) ELSE u
      Joined(u, at) ==
        IF at.parent = Null THEN u
        ELSE JoinGaps(Emptied(u, at, Child(u, at.parent, Opposite(at.side))), addr)
      Found(at) == Joined([t EXCEPT !.mem[at.leaf] = Empty(at.end + 1 - at.start)], at)
  IN  Found(LeafContaining(t, addr))
-----------------------------------------------------------------------------
VARIABLE tree

\* VMATree::new: the size of the first leaf is HIGHEST_USER_ADDRESS.
Init ==
  tree = [mem  |-> [p \in 0 .. MaxNodes |->
                      IF p = 1 THEN Empty(HighestUserAddress) ELSE Placeholder],
          root |-> 1,
          free |-> 2 .. MaxNodes,
          bad  |-> FALSE]

\* Mutant: the end of the gap is not looked at.
InsertPastGap(start, len) ==
  LET end == start + len - 1
      at == LeafContaining(tree, start)
  IN  /\ ~tree.bad
      /\ IsEmptyLeaf(tree, at.leaf)
      /\ NodesNeeded(at, start, end) <= Cardinality(tree.free)
      /\ tree' = InsertInto(tree, start, end)

\* start_try_map_at calls insert when the segment lies inside one gap.
Insert(start, len) ==
  LET end == start + len - 1
      at == LeafContaining(tree, start)
  IN  /\ ~tree.bad
      /\ end <= at.end
      /\ IsEmptyLeaf(tree, at.leaf)
      /\ NodesNeeded(at, start, end) <= Cardinality(tree.free)
      /\ tree' = InsertInto(tree, start, end)

\* UnmapTask::run and MapTask::run delete the segment that contains addr.
Delete(addr) ==
  /\ ~tree.bad
  /\ IsUsedLeaf(tree, LeafContaining(tree, addr).leaf)
  /\ tree' = DeleteFrom(tree, addr)

Next ==
  \/ \E start \in Address, len \in Lengths : Insert(start, len)
  \/ \E addr \in Address : Delete(addr)

Spec == Init /\ [][Next]_tree
-----------------------------------------------------------------------------
\* Every node of the subtree p, with the parent it is reached from and the
\* range of addresses it stands for.
RECURSIVE Nodes(_, _, _, _, _)
Nodes(t, p, parent, start, end) ==
  {[node |-> p, parent |-> parent, start |-> start, end |-> end]} \cup
  (IF IsBranch(t, p)
   THEN Nodes(t, Child(t, p, "left"), p, start, t.mem[p].pivot - 1) \cup
        Nodes(t, Child(t, p, "right"), p, t.mem[p].pivot, end)
   ELSE {})

TreeNodes == Nodes(tree, tree.root, Null, 0, HighestUserAddress)

\* Black branches on the path from p to its leaves, or -1 if that differs.
RECURSIVE BlackHeight(_, _)
BlackHeight(t, p) ==
  LET l == BlackHeight(t, Child(t, p, "left"))
      r == BlackHeight(t, Child(t, p, "right"))
  IN  IF ~IsBranch(t, p) THEN 0
      ELSE IF l # r \/ l = -1 THEN -1
      ELSE l + (IF t.mem[p].red THEN 0 ELSE 1)

TypeOK ==
  /\ DOMAIN tree = {"mem", "root", "free", "bad"}
  /\ DOMAIN tree.mem = 0 .. MaxNodes
  /\ tree.root \in 0 .. MaxNodes
  /\ tree.free \subseteq 1 .. MaxNodes
  /\ tree.bad \in BOOLEAN
  /\ \A p \in 0 .. MaxNodes : tree.mem[p].kind \in {"branch", "empty", "used"}

\* The tree that insert and delete leave, through every rotation and
\* replacement, is a search tree: each node is reached once, each branch knows
\* its parent, and each leaf stands for at least one address.
SearchTree ==
  ~tree.bad =>
    /\ \A n \in TreeNodes : n.start <= n.end
    /\ \A n \in TreeNodes : IsBranch(tree, n.node) => Parent(tree, n.node) = n.parent
    /\ \A m, n \in TreeNodes : m.node = n.node => m = n

\* The tree is balanced after fix_insert and fix_delete: the root is black, a
\* red branch has black children, and all paths have as many black branches.
RedBlack ==
  ~tree.bad =>
    /\ ~IsRed(tree, tree.root)
    /\ \A n \in TreeNodes : IsRed(tree, n.node) =>
         /\ ~IsRed(tree, Child(tree, n.node, "left"))
         /\ ~IsRed(tree, Child(tree, n.node, "right"))
    /\ BlackHeight(tree, tree.root) # -1

\* The size of a gap and the max_empty_area_size of a branch are those of the
\* addresses below it, although rotations and deletions move subtrees; only
\* the leaf that VMATree::new makes is recorded one short.  No two gaps are
\* adjacent: delete joins them across every useless pivot.
AreasExact ==
  ~tree.bad =>
    /\ \A n \in TreeNodes :
         \/ IsUsedLeaf(tree, n.node)
         \/ /\ IsEmptyLeaf(tree, n.node)
            /\ \/ tree.mem[n.node].size = n.end + 1 - n.start
               \/ n.node = tree.root /\ tree.mem[n.node].size = HighestUserAddress
         \/ /\ IsBranch(tree, n.node)
            /\ tree.mem[n.node].size = Max({tree.mem[Child(tree, n.node, "left")].size,
                                            tree.mem[Child(tree, n.node, "right")].size})
    /\ \A m, n \in TreeNodes :
         ~(IsEmptyLeaf(tree, m.node) /\ IsEmptyLeaf(tree, n.node) /\ m.end + 1 = n.start)

\* Drop frees the nodes it reaches from the root: the reserved nodes are
\* exactly those, so insert and delete leak none and free none in use.
ReservedReachable ==
  ~tree.bad =>
    {n.node : n \in TreeNodes} \ {Temp} = (1 .. MaxNodes) \ tree.free

\* delete_branch uses temp_node ("Used in node deletion operations") only
\* when it is not part of the tree, and NodePtr::free is only given nodes of
\* a storage page ("Get NodeStoragePage containing self").
TempNodeApart == ~tree.bad

Segments ==
  {[start |-> n.start, end |-> n.end] : n \in {m \in TreeNodes : IsUsedLeaf(tree, m.node)}}

SegmentsAbs == INSTANCE SegmentMap WITH segs <- Segments, Space <- Address

\* insert adds exactly the requested segment and delete removes exactly the
\* one that contains the address, so the tree implements a set of disjoint
\* segments, up to the deletion that frees or overwrites temp_node while it is
\* a leaf: that one is excepted, since it may lose another segment as well.
ImplementsSegmentMap ==
  /\ SegmentsAbs!Init
  /\ [][SegmentsAbs!Next \/ tree'.bad]_Segments
=============================================================================
