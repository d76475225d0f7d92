----------------------------- MODULE KernelHeap -----------------------------
(***************************************************************************)
(* The kernel's global allocator (heap.rs): a first-fit list of blocks     *)
(* laid out in a range of virtual memory, each preceded by its header.     *)
(*                                                                         *)
(* block[a] is the header stored at address a.  The list is implicit: the  *)
(* header after a is at a + HeaderSize + len when has_next is set, so the  *)
(* walk from the head visits the headers in the order of their addresses.  *)
(* The heap maps pages as it hands memory out; mapped is the set of page   *)
(* addresses of the heap that are mapped in the kernel's page tables.      *)
(*                                                                         *)
(* A header on a page that is unmapped is lost: the page's frame goes back *)
(* to the page allocator, and a page mapped there later has other content. *)
(* Nothing is modelled after a lost header is read, nor after a panic      *)
(* (stopped).                                                              *)
(***************************************************************************)
EXTENDS Integers, FiniteSets

CONSTANTS
  HeapStart, HeapLength,  \* the arguments of init_heap
  HeaderSize,             \* size_of::<Block>(), also align_of::<Block>()
  PageSize,
  Sizes, Aligns           \* sizes and alignments of the layouts requested

ASSUME HeapAssumption ==
  /\ HeapStart \in Nat
  /\ HeapLength \in Nat
  /\ HeapLength > 2 * HeaderSize
ASSUME HeaderAssumption == HeaderSize \in Nat \ {0}
ASSUME PageAssumption == PageSize \in Nat \ {0}
\* A Layout has a nonzero alignment; GlobalAlloc requires a nonzero size.
ASSUME LayoutAssumption ==
  /\ Sizes \subseteq Nat \ {0}
  /\ Aligns \subseteq Nat \ {0}

VARIABLES
  block,    \* header address -> [len, used, has_next]
  mapped,   \* mapped page addresses
  lost,     \* headers whose page was unmapped after they were written
  live,     \* pointer returned to a client and not yet freed -> size
  stopped   \* the kernel has panicked or read a lost header

vars == <<block, mapped, lost, live, stopped>>

\* usize::next_multiple_of
NextMultipleOf(x, n) == x + ((n - (x % n)) % n)

\* paging::align_to_page
AlignToPage(x) == x - (x % PageSize)

HeapEnd == HeapStart + HeapLength
First == NextMultipleOf(HeapStart, HeaderSize)

Block == [len : Nat, used : BOOLEAN, has_next : BOOLEAN]

Header == DOMAIN block

\* Block::start_address, and the last address of the block
StartAddress(a) == a + HeaderSize
MaxAddr(a) == StartAddress(a) + (block[a].len - 1)

\* The address of Block::get_next
GetNext(a) == a + HeaderSize + block[a].len

TypeOK ==
  /\ Header \subseteq HeapStart .. HeapEnd
  /\ block \in [Header -> Block]
  /\ mapped \subseteq Nat
  /\ lost \subseteq Header
  /\ DOMAIN live \subseteq HeapStart .. HeapEnd
  /\ live \in [DOMAIN live -> Nat \ {0}]
  /\ stopped \in BOOLEAN

\* heap::init_heap
Init ==
  /\ block = [a \in {First} |->
                [len |-> HeapEnd - First - HeaderSize,
                 used |-> FALSE, has_next |-> FALSE]]
  /\ mapped = {AlignToPage(First)}
  /\ lost = {}
  /\ live = [p \in {} |-> 0]
  /\ stopped = FALSE
-----------------------------------------------------------------------------
\* alloc

StartFor(a, align) == NextMultipleOf(StartAddress(a), align)
EndFor(a, size, align) == StartFor(a, align) + (size - 1)

\* Mutants: a used block is taken, and a block one byte too short.
FitsUsed(a, size, align) == EndFor(a, size, align) <= MaxAddr(a)
FitsOneMore(a, size, align) ==
  ~block[a].used /\ EndFor(a, size, align) <= MaxAddr(a) + 1

Fits(a, size, align) ==
  ~block[a].used /\ EndFor(a, size, align) <= MaxAddr(a)

\* The walk of alloc stops at a.
FirstFit(a, size, align) ==
  /\ Fits(a, size, align)
  /\ \A b \in Header : b < a => ~Fits(b, size, align)

\* No header that a walk ending at a reads is lost.
Readable(a) == \A b \in lost : a < b

NewBlockAddr(a, size, align) == NextMultipleOf(EndFor(a, size, align) + 1, HeaderSize)
NewSpaceStart(a, size, align) == NewBlockAddr(a, size, align) + HeaderSize

\* Mutant: the page of the last byte is not mapped.
PagesForExclusive(a, size, align) ==
  {p \in AlignToPage(StartAddress(a)) .. AlignToPage(EndFor(a, size, align)) - 1 :
     p % PageSize = 0}

\* Pages mapped for the allocation; those already mapped are kept.
PagesFor(a, size, align) ==
  {p \in AlignToPage(StartAddress(a)) .. AlignToPage(EndFor(a, size, align)) :
     p % PageSize = 0}

Extend(f, x, v) == [y \in DOMAIN f \cup {x} |-> IF y = x THEN v ELSE f[y]]
Without(f, S) == [y \in DOMAIN f \ S |-> f[y]]

\* The block found is large enough to leave a free block behind.
AllocSplit(a, size, align) ==
  LET new == NewBlockAddr(a, size, align)
  IN  /\ ~stopped
      /\ FirstFit(a, size, align)
      /\ Readable(a)
      /\ NewSpaceStart(a, size, align) < MaxAddr(a)
      /\ block' = Extend([block EXCEPT ![a] = [len      |-> new - StartAddress(a),
                                               used     |-> TRUE,
                                               has_next |-> TRUE]],
                         new, [len |-> MaxAddr(a) - NewSpaceStart(a, size, align) + 1,
                               used |-> FALSE,
                               has_next |-> block[a].has_next])
      /\ mapped' = mapped \cup {AlignToPage(new)} \cup PagesFor(a, size, align)
      /\ live' = Extend(live, StartFor(a, align), size)
      /\ UNCHANGED <<lost, stopped>>

\* The whole block is handed out.
AllocWhole(a, size, align) ==
  /\ ~stopped
  /\ FirstFit(a, size, align)
  /\ Readable(a)
  /\ NewSpaceStart(a, size, align) >= MaxAddr(a)
  /\ block' = [block EXCEPT ![a].used = TRUE]
  /\ mapped' = mapped \cup PagesFor(a, size, align)
  /\ live' = Extend(live, StartFor(a, align), size)
  /\ UNCHANGED <<lost, stopped>>

\* map_page returns OutOfPages, which alloc unwraps.  map_page reserves a
\* page before it looks at the page tables, so this can happen even when
\* every page of the allocation is mapped.
AllocOutOfPages(a, size, align) ==
  /\ ~stopped
  /\ FirstFit(a, size, align)
  /\ Readable(a)
  /\ stopped' = TRUE
  /\ UNCHANGED <<block, mapped, lost, live>>

\* A walk that looks for a block reads a lost header.
AllocFault(size, align) ==
  /\ ~stopped
  /\ \E b \in lost : \A a \in Header : a < b => ~Fits(a, size, align)
  /\ stopped' = TRUE
  /\ UNCHANGED <<block, mapped, lost, live>>
-----------------------------------------------------------------------------
\* dealloc

Contains(a, ptr) == StartAddress(a) <= ptr /\ ptr <= MaxAddr(a)

\* The walk of dealloc stops at a.
Holder(a, ptr) ==
  /\ Contains(a, ptr)
  /\ \A b \in Header : b < a => ~Contains(b, ptr)

\* maybe_previous_block_ptr
Previous(a) == {b \in Header : b < a /\ \A c \in Header : c < a => c <= b}

\* Mutants: the next block is merged even if it is used; the previous block is
\* never merged.
MergesForwardUsed(a) == block[a].has_next
MergesBackwardNever(a) == FALSE

MergesForward(a) == block[a].has_next /\ ~block[GetNext(a)].used
MergesBackward(a) == \E b \in Previous(a) : ~block[b].used

\* Mutant: the header of the next block is not added to the length.
MergedWithoutHeader(a) ==
  IF MergesForward(a)
  THEN [len      |-> block[a].len + block[GetNext(a)].len,
        used     |-> FALSE,
        has_next |-> block[GetNext(a)].has_next]
  ELSE [block[a] EXCEPT !.used = FALSE]

\* The current header after the forward merge.
Merged(a) ==
  IF MergesForward(a)
  THEN [len      |-> block[a].len + HeaderSize + block[GetNext(a)].len,
        used     |-> FALSE,
        has_next |-> block[GetNext(a)].has_next]
  ELSE [block[a] EXCEPT !.used = FALSE]

\* The page test after a merge of the header at b into the one before it at
\* a, when the header after b is at c: the page of b is unmapped if a is on
\* that page too and c is on another.
UnmappedBy(a, b, has_next, c) ==
  IF AlignToPage(a) = AlignToPage(b) /\ has_next /\ AlignToPage(c) # AlignToPage(b)
  THEN {AlignToPage(b)}
  ELSE {}

UnmappedForward(a) ==
  IF MergesForward(a)
  THEN UnmappedBy(a, GetNext(a), block[GetNext(a)].has_next, GetNext(GetNext(a)))
  ELSE {}

UnmappedBackward(a) ==
  IF MergesBackward(a)
  THEN LET b == CHOOSE b \in Previous(a) : TRUE
       IN  UnmappedBy(b, a, Merged(a).has_next, a + HeaderSize + Merged(a).len)
  ELSE {}

\* The headers that dealloc reads once it has found the block at a.
ReadsNext(a) == block[a].has_next => GetNext(a) \notin lost
ReadsAgain(a) ==
  \A b \in Previous(a) :
    /\ AlignToPage(b) \notin UnmappedForward(a)
    /\ ~block[b].used => AlignToPage(a) \notin UnmappedForward(a)

\* The middle pages are passed to free_page, which ignores them: they are
\* virtual addresses, far beyond total_pages (FreeVirtualPage of
\* PageAllocator).  They stay mapped.
Dealloc(a, ptr) ==
  LET gone     == IF MergesForward(a) THEN {GetNext(a)} ELSE {}
      merged   == Merged(a)
      unmapped == UnmappedForward(a) \cup UnmappedBackward(a)
  IN  /\ ~stopped
      /\ ptr \in DOMAIN live
      /\ Holder(a, ptr)
      /\ block[a].used  \* the debug_assert
      /\ Readable(a) /\ ReadsNext(a) /\ ReadsAgain(a)
      /\ block' = IF MergesBackward(a)
                  THEN [b \in Header \ (gone \cup {a}) |->
                          IF b \in Previous(a)
                          THEN [len      |-> block[b].len + HeaderSize + merged.len,
                                used     |-> FALSE,
                                has_next |-> merged.has_next]
                          ELSE block[b]]
                  ELSE [b \in Header \ gone |-> IF b = a THEN merged ELSE block[b]]
      /\ mapped' = mapped \ unmapped
      /\ lost' = {b \in Header' : b \in lost \/ AlignToPage(b) \in unmapped}
      /\ live' = Without(live, {ptr})
      /\ UNCHANGED stopped

\* dealloc reads a lost header, or finds the block unused.
DeallocFault(a, ptr) ==
  /\ ~stopped
  /\ ptr \in DOMAIN live
  /\ Holder(a, ptr)
  /\ ~(block[a].used /\ Readable(a) /\ ReadsNext(a) /\ ReadsAgain(a))
  /\ stopped' = TRUE
  /\ UNCHANGED <<block, mapped, lost, live>>

Next ==
  \/ \E a \in Header, size \in Sizes, align \in Aligns : AllocSplit(a, size, align)
  \/ \E a \in Header, size \in Sizes, align \in Aligns : AllocWhole(a, size, align)
  \/ \E a \in Header, size \in Sizes, align \in Aligns : AllocOutOfPages(a, size, align)
  \/ \E size \in Sizes, align \in Aligns : AllocFault(size, align)
  \/ \E a \in Header, ptr \in DOMAIN live : Dealloc(a, ptr)
  \/ \E a \in Header, ptr \in DOMAIN live : DeallocFault(a, ptr)

Spec == Init /\ [][Next]_vars
-----------------------------------------------------------------------------
\* The headers reachable from the head cover the heap without gap or overlap:
\* has_next is set exactly on the blocks that another header follows, and the
\* last block ends at the end of the heap.
Tiling ==
  /\ First \in Header
  /\ \A a \in Header :
       /\ First <= a
       /\ block[a].len > 0
       /\ IF block[a].has_next THEN GetNext(a) \in Header ELSE GetNext(a) = HeapEnd
       /\ \A b \in Header : a < b => GetNext(a) <= b

\* alloc and dealloc together never leave two adjacent free blocks, so memory
\* that was freed can be allocated again in one piece.
Coalesced ==
  \A a \in Header :
    ~block[a].used /\ block[a].has_next => block[GetNext(a)].used

\* Every allocation lies inside a used block of its own, and every used block
\* holds one: no memory is handed out twice and no block is leaked.
LiveBlocks ==
  /\ \A p \in DOMAIN live : \E a \in Header :
       block[a].used /\ StartAddress(a) <= p /\ p + live[p] <= GetNext(a)
  /\ \A a \in Header : block[a].used =>
       \E p \in DOMAIN live : Contains(a, p)
  /\ \A a \in Header : \A p, q \in DOMAIN live :
       Contains(a, p) /\ Contains(a, q) => p = q

\* No two allocations that clients hold overlap.
AllocationsDisjoint ==
  \A p, q \in DOMAIN live : p < q => p + live[p] <= q

\* When every allocation has been freed the heap is one free block again.
EmptyHeapIsWhole ==
  live = [p \in {} |-> 0] =>
    /\ Header = {First}
    /\ ~block[First].used
    /\ GetNext(First) = HeapEnd

LiveUndisturbed ==
  \A p \in DOMAIN live \cap DOMAIN live' :
    /\ live'[p] = live[p]
    /\ \A a \in Header : Contains(a, p) => a \in Header' /\ block'[a].used

\* An operation on one allocation leaves the header of every other in place
\* and in use.
OthersUndisturbed == [][LiveUndisturbed]_vars

\* Every header on the list is on a mapped page: the merge in dealloc must not
\* unmap a page that still holds a header.
HeadersMapped == \A a \in Header : AlignToPage(a) \in mapped

NewIsMapped ==
  \A p \in DOMAIN live' \ DOMAIN live :
    \A x \in p .. p + live'[p] - 1 : AlignToPage(x) \in mapped'

\* Every byte of the memory that alloc returns is mapped when it returns.
AllocationMapped == [][NewIsMapped]_vars

\* The pages strictly inside a block that dealloc frees.
MiddlePages(a) ==
  {p \in NextMultipleOf(StartAddress(a), PageSize) .. AlignToPage(MaxAddr(a)) - 1 :
     p % PageSize = 0}

FreedPagesUnmapped ==
  \A p \in DOMAIN live \ DOMAIN live' : \A a \in Header :
    Contains(a, p) => MiddlePages(a) \cap mapped' = {}

\* dealloc gives the pages in the middle of the block back.
MiddlePagesFreed == [][FreedPagesUnmapped]_vars
=============================================================================
