--------------------------- MODULE MCVMAAllocator ---------------------------
(***************************************************************************)
(* VMAAllocator on an address space of a few pages.                        *)
(***************************************************************************)
EXTENDS VMAAllocator
=============================================================================
