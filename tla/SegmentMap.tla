----------------------------- MODULE SegmentMap -----------------------------
(***************************************************************************)
(* What the tree of an address space promises to VMAAllocator: a set of    *)
(* disjoint segments, each the addresses start .. end, to which a segment  *)
(* that lies in a gap can be added and from which the segment containing   *)
(* an address can be removed.                                              *)
(***************************************************************************)
EXTENDS Integers

CONSTANT Space  \* the addresses of the address space

VARIABLE segs

Segment == {s \in [start : Space, end : Space] : s.start <= s.end}

Overlap(s, r) == s.start <= r.end /\ r.start <= s.end

Containing(set, addr) == {s \in set : s.start <= addr /\ addr <= s.end}

\* The sets before and after are parameters so that a set computed from a
\* tree is computed once.
Insert(m, n) ==
  \E s \in n \ m :
    /\ s \in Segment
    /\ \A r \in m : ~Overlap(s, r)
    /\ n = m \cup {s}

Delete(m, n) ==
  \E s \in m \ n : n = m \ {s}

Init == segs = {}

Next == Insert(segs, segs') \/ Delete(segs, segs')

Spec == Init /\ [][Next]_segs
=============================================================================
