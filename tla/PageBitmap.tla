----------------------------- MODULE PageBitmap -----------------------------
(***************************************************************************)
(* The bitmap of physical pages and the operations of                      *)
(* PageAllocatorInternal (arch/x86_64/page_allocation.rs) that read and    *)
(* write it.  An allocator is a record                                     *)
(*                                                                         *)
(*   reserved     the pages whose bit is set in memory_bitmap              *)
(*   free_pages   the free_pages counter                                   *)
(*   total_pages  the total_pages bound that free_page compares with       *)
(*                                                                         *)
(* A page is named by its number, address / PAGE_SIZE.  Bits are scanned   *)
(* byte by byte and from the most significant bit of a byte, which is the  *)
(* order of the page numbers.                                              *)
(***************************************************************************)
EXTENDS Integers, FiniteSets

CONSTANT BitmapBits  \* number of bits in memory_bitmap

ASSUME BitmapBitsAssumption == BitmapBits \in Nat \ {0}

Bit == 0 .. BitmapBits - 1

Allocator == [reserved : SUBSET Bit, free_pages : Int, total_pages : Nat]

\* PageAllocatorInternal::new: free_pages is the number of clear bits.
NewAllocator(reserved, num_pages) ==
  [reserved    |-> reserved,
   free_pages  |-> Cardinality(Bit \ reserved),
   total_pages |-> num_pages]

HasFree(al) == Bit \ al.reserved # {}

\* The first clear bit of the scan in find_and_reserve_page.
FirstFree(al) ==
  CHOOSE p \in Bit \ al.reserved : \A q \in Bit \ al.reserved : p <= q

\* find_and_reserve_page when a clear bit exists (HasFree): the page returned
\* is FirstFree(al).
Reserve(al) ==
  [al EXCEPT !.reserved = @ \cup {FirstFree(al)}, !.free_pages = @ - 1]

\* Mutant: the address is not compared with the end of memory.
FreeUnchecked(al, page) ==
  [al EXCEPT !.reserved = @ \ {page}, !.free_pages = @ + 1]

\* free_page: the bit is cleared and the counter incremented whether or not
\* the page was reserved.
Free(al, page) ==
  IF page >= al.total_pages
  THEN al
  ELSE [al EXCEPT !.reserved = @ \ {page}, !.free_pages = @ + 1]

\* num_pages_used and used_pages
UsedPages(al) == al.total_pages - al.free_pages
=============================================================================
