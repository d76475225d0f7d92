-------------------------- MODULE MCUserPageMapper --------------------------
(***************************************************************************)
(* Three levels of two entries: pages 0 to 7, of which two share a table   *)
(* and four the table above it.  The ranges begin and end inside tables    *)
(* and one crosses into the other half.  One buffer fits in a page and one *)
(* does not.                                                               *)
(***************************************************************************)
EXTENDS UserPageMapper

MCMapRanges ==
  {[start |-> 0, len |-> 1], [start |-> 1, len |-> 1], [start |-> 2, len |-> 3]}

MCBuffers ==
  {[page |-> 5, offset |-> 0, size |-> 2], [page |-> 6, offset |-> 1, size |-> 2]}

\* Enough memory for every task, and so little that most of them fail.
MCElsewhere == {{}, 6 .. 13}
=============================================================================
