--------------------------- MODULE MCKernelPaging ---------------------------
(***************************************************************************)
(* Three levels of two entries.  Below the first entry of the root, which  *)
(* allows execution, the bootloader identity maps pages 0 to 2, 0 and 1    *)
(* with a huge page (tables 9 and 10); frame 2 is free.  The second entry  *)
(* is empty.  The heap is pages 3 and 4, one below each of the two.  Page  *)
(* 5 is TLS, page 6 is where the local APIC (frame 8) is mapped, and pages *)
(* 1 and 7 are I/O APICs.                                                  *)
(***************************************************************************)
EXTENDS KernelPaging, TLC

Table(a, b) == (0 :> a) @@ (1 :> b)

MCBootTables ==
  (1 :> Table([ReplaceAddrWith(TRUE, 9) EXCEPT !.no_execute = FALSE], ZERO))
  @@
  (9 :> Table([ReplaceAddrWith(TRUE, 0) EXCEPT !.huge = TRUE], ReplaceAddrWith(TRUE, 10)))
  @@
  (10 :> Table(ReplaceAddrWith(TRUE, 2), ZERO))

MCBootMaps ==
  << [op |-> "map_page",    va |-> 5, pa |-> 0],
     [op |-> "map_page",    va |-> 3, pa |-> 0],
     [op |-> "translation", va |-> 6, pa |-> 8],
     [op |-> "io_apic",     va |-> 1, pa |-> 0],
     [op |-> "io_apic",     va |-> 7, pa |-> 0] >>
=============================================================================
