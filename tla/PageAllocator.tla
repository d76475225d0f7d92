--------------------------- MODULE PageAllocator ---------------------------
(***************************************************************************)
(* The physical page allocator and its clients, from the moment the Limine *)
(* entry point initialises it until the kernel runs on it.                 *)
(*                                                                         *)
(* A page a client holds is either an OwnedPhysicalPage, freed when it is  *)
(* dropped, or a raw address, obtained with into_raw (PageBox, PageVec,    *)
(* page tables, node storage) and freed with free_page or by building an   *)
(* OwnedPhysicalPage again.  The allocator lives in the static             *)
(* PAGE_ALLOCATOR: every operation is one critical section of its lock.    *)
(***************************************************************************)
EXTENDS PageBitmap

CONSTANTS
  NumPages,       \* pages of memory below the end of the memory map
  PageSize,       \* bytes in a page
  VirtualPages    \* page numbers of heap addresses, which the heap passes to
                  \* free_page as if they were physical

ASSUME NumPagesAssumption == NumPages \in 1 .. BitmapBits
ASSUME PageSizeAssumption == PageSize \in Nat \ {0}
ASSUME VirtualPagesAssumption ==
  \* HEAP_BASE is in the top two gigabytes of the address space
  /\ VirtualPages \subseteq Nat
  /\ \A v \in VirtualPages : v >= NumPages * PageSize /\ v >= BitmapBits

VARIABLES
  stage,   \* who the allocator in PAGE_ALLOCATOR was initialised by
  al,      \* the PageAllocatorInternal (its bitmap outlives the handover)
  boot,    \* pages never given to the allocator: firmware, kernel image, page 0
  owned,   \* pages held as OwnedPhysicalPage
  raw      \* pages held as raw addresses

vars == <<stage, al, boot, owned, raw>>

Page == 0 .. NumPages - 1

\* Bits the bitmap has because its length is rounded up to whole pages.
Padding == NumPages .. BitmapBits - 1

TypeOK ==
  /\ stage \in {"limine", "handover", "kernel"}
  /\ al \in Allocator
  /\ boot \subseteq Page
  /\ owned \subseteq Page
  /\ raw \subseteq Page

Running == stage \in {"limine", "kernel"}

\* limine/entry.rs: the bitmap is all ones except for usable memory; the
\* bootloader never reports page 0 as usable.
Init ==
  /\ stage = "limine"
  /\ boot \in {B \in SUBSET Page : 0 \in B}
  /\ al = NewAllocator(boot \cup Padding, NumPages)
  /\ owned = {}
  /\ raw = {}

\* page_allocation::find_and_reserve_page, when it does not return
\* ReservePageError (which changes nothing).
FindAndReservePage ==
  /\ Running
  /\ HasFree(al)
  /\ al' = Reserve(al)
  /\ owned' = owned \cup {FirstFree(al)}
  /\ UNCHANGED <<stage, boot, raw>>

\* OwnedPhysicalPage::drop
DropOwned(p) ==
  /\ Running
  /\ p \in owned
  /\ al' = Free(al, p)
  /\ owned' = owned \ {p}
  /\ UNCHANGED <<stage, boot, raw>>

\* Mutant: the OwnedPhysicalPage is dropped instead of forgotten.
IntoRawDrops(p) ==
  /\ Running
  /\ p \in owned
  /\ al' = Free(al, p)
  /\ owned' = owned \ {p}
  /\ raw' = raw \cup {p}
  /\ UNCHANGED <<stage, boot>>

\* OwnedPhysicalPage::into_raw forgets the owner without freeing the page.
IntoRaw(p) ==
  /\ Running
  /\ p \in owned
  /\ owned' = owned \ {p}
  /\ raw' = raw \cup {p}
  /\ UNCHANGED <<stage, al, boot>>

\* OwnedPhysicalPage::from_raw
FromRaw(p) ==
  /\ Running
  /\ p \in raw
  /\ owned' = owned \cup {p}
  /\ raw' = raw \ {p}
  /\ UNCHANGED <<stage, al, boot>>

\* PhysicalBlockAllocator::allocate of at most a page; a larger layout and an
\* exhausted bitmap return AllocError and change nothing.
Allocate(size) ==
  /\ Running
  /\ size <= PageSize
  /\ HasFree(al)
  /\ al' = Reserve(al)
  /\ raw' = raw \cup {FirstFree(al)}
  /\ UNCHANGED <<stage, boot, owned>>

\* page_allocation::free_page on a raw page its holder gives up, and
\* PhysicalBlockAllocator::deallocate, which is from_raw and drop.
FreePage(p) ==
  /\ Running
  /\ p \in raw
  /\ al' = Free(al, p)
  /\ raw' = raw \ {p}
  /\ UNCHANGED <<stage, boot, owned>>

\* KernelHeapAllocator::dealloc calls free_page with a virtual address.
FreeVirtualPage(v) ==
  /\ stage = "kernel"
  /\ al' = Free(al, v)
  /\ UNCHANGED <<stage, boot, owned, raw>>

\* page_allocation::deinit_and_remove at the end of the Limine entry point.
\* The bitmap is passed on; what the entry point allocated stays allocated.
Deinit ==
  /\ stage = "limine"
  /\ owned = {}
  /\ stage' = "handover"
  /\ UNCHANGED <<al, boot, owned, raw>>

\* Mutant: the kernel starts from the memory map, not from the bitmap that the
\* entry point has used.
KernelInitFromMap ==
  /\ stage = "handover"
  /\ stage' = "kernel"
  /\ al' = NewAllocator(boot \cup Padding, NumPages * PageSize)
  /\ UNCHANGED <<boot, owned, raw>>

\* kernel_main initialises the allocator again from the same bitmap, with
\* num_pages = mapped_size, which is a number of bytes.
KernelInit ==
  /\ stage = "handover"
  /\ stage' = "kernel"
  /\ al' = NewAllocator(al.reserved, NumPages * PageSize)
  /\ UNCHANGED <<boot, owned, raw>>

Next ==
  \/ FindAndReservePage
  \/ Deinit
  \/ KernelInit
  \/ \E size \in {1, PageSize, PageSize + 1} : Allocate(size)
  \/ \E p \in Page : DropOwned(p)
  \/ \E p \in Page : IntoRaw(p)
  \/ \E p \in Page : FromRaw(p)
  \/ \E p \in Page : FreePage(p)
  \/ \E v \in VirtualPages : FreeVirtualPage(v)

Spec == Init /\ [][Next]_vars
-----------------------------------------------------------------------------
\* free_pages, maintained by increments and decrements and recomputed at the
\* handover, is the number of clear bits of memory_bitmap.
FreeCount == al.free_pages = Cardinality(Bit \ al.reserved)

\* Every set bit is accounted for by exactly one holder: the boot memory map,
\* an OwnedPhysicalPage or a raw address.  So no page is leaked by the
\* allocator, and none is free while somebody holds it.
Ownership ==
  /\ al.reserved = boot \cup Padding \cup owned \cup raw
  /\ owned \cap raw = {}
  /\ boot \cap (owned \cup raw) = {}

GrantsClearBits ==
  /\ \A p \in (owned' \cup raw') \ (owned \cup raw) :
       p \notin al.reserved /\ p \notin boot
  /\ \A p \in al'.reserved \ al.reserved : p \notin boot \cup owned \cup raw

\* A page is given out only when nobody holds it: a step that makes a page
\* held takes it from the clear bits of the bitmap, and a bit that is set is
\* that of a page nobody holds, before and after the handover.
NoDoubleGrant == [][GrantsClearBits]_vars

\* used_pages(), total_pages - free_pages, counts the pages in use.
UsedPagesExact == Running => UsedPages(al) = Cardinality(al.reserved \cap Page)
=============================================================================
