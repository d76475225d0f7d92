-------------------------- MODULE MCPhysicalMemory --------------------------
(***************************************************************************)
(* Three adjacent entries on page boundaries, the first not usable, up to  *)
(* MaxPages pages of PageSize bytes.                                       *)
(***************************************************************************)
EXTENDS PhysicalMemory

CONSTANT MaxPages

\* Page size small enough for NumPages * PageSize to stay below VirtualPages.
MCVirtualPages == {40}

MapWith(a, b, c, u, v) ==
  << [base |-> 0,            length |-> PageSize * a,       usable |-> FALSE],
     [base |-> PageSize * a, length |-> PageSize * (b - a), usable |-> u],
     [base |-> PageSize * b, length |-> PageSize * (c - b), usable |-> v] >>

MCMemoryMaps ==
  {MapWith(t[1], t[2], t[3], u, v) :
     t \in {x \in (1 .. MaxPages) \X (1 .. MaxPages) \X (1 .. MaxPages) :
              x[1] < x[2] /\ x[2] < x[3]},
     u \in BOOLEAN, v \in BOOLEAN}
=============================================================================
