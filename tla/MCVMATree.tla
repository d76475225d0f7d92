----------------------------- MODULE MCVMATree ------------------------------
(***************************************************************************)
(* VMATree on a small address space.  The slots of the nodes are names:    *)
(* the code only follows and compares them.  States are told apart by the  *)
(* tree with its nodes renamed to their positions in it.                   *)
(***************************************************************************)
EXTENDS VMATree

RECURSIVE InOrder(_, _)
InOrder(t, p) ==
  IF IsBranch(t, p)
  THEN InOrder(t, Child(t, p, "left")) \o <<p>> \o InOrder(t, Child(t, p, "right"))
  ELSE <<p>>

\* The position of the node p, or the slot itself when it is not in the tree.
Position(order, p) ==
  LET at == {i \in 1 .. Len(order) : order[i] = p}
  IN  IF at = {} THEN -1 - p ELSE Max(at)

Renamed(order, node) ==
  IF node.kind = "branch"
  THEN [node EXCEPT !.parent = Position(order, @),
                    !.child.left = Position(order, @),
                    !.child.right = Position(order, @)]
  ELSE node

\* The node at each position, where temp_node is, the root, and how many
\* slots are free.
CanonicalTree ==
  LET order == InOrder(tree, tree.root)
  IN  IF tree.bad THEN <<TRUE, Segments>>
      ELSE <<[i \in 1 .. Len(order) |-> Renamed(order, tree.mem[order[i]])],
             Position(order, Temp), Position(order, tree.root),
             Cardinality(tree.free)>>
=============================================================================
