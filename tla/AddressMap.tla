----------------------------- MODULE AddressMap -----------------------------
(***************************************************************************)
(* What the page tables promise: a partial map from virtual pages to the   *)
(* entries that translate them.  A page is mapped only where none was      *)
(* mapped before, to device memory or to a frame of its own; a mapping     *)
(* never changes until it is removed, and those given at the start are not *)
(* removed.  An operation that fails does not change the map at all.       *)
(***************************************************************************)
EXTENDS Integers

CONSTANTS
  VirtualPage,  \* virtual page numbers
  Frame,        \* frames of the page allocator; others are device memory
  Given         \* virtual pages that are mapped at the start, to any frames

VARIABLE pmap  \* virtual page -> [addr, writable]

Frames(m) == {m[v].addr : v \in DOMAIN m \ Given}

Init ==
  /\ DOMAIN pmap = Given
  /\ pmap \in [Given -> [addr : Nat, writable : BOOLEAN]]

\* m and n are the map before and after the step.
Map(m, n, v) ==
  /\ v \notin DOMAIN m
  /\ DOMAIN n = DOMAIN m \cup {v}
  /\ \A x \in DOMAIN m : n[x] = m[x]
  /\ n[v].addr \in Nat /\ (n[v].addr \in Frame => n[v].addr \notin Frames(m))

Unmap(m, n, v) ==
  /\ v \in DOMAIN m \ Given
  /\ n = [x \in DOMAIN m \ {v} |-> m[x]]

Next == \E v \in VirtualPage : Map(pmap, pmap', v) \/ Unmap(pmap, pmap', v)

Spec == Init /\ [][Next]_pmap
=============================================================================
