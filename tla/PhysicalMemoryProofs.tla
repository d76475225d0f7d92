------------------------ MODULE PhysicalMemoryProofs ------------------------
(***************************************************************************)
(* Proofs about PageAllocator for every memory size, bitmap and boot map,  *)
(* and about PhysicalMemory for every memory map that the boot protocol    *)
(* allows.                                                                 *)
(*                                                                         *)
(* The inductive invariant is TypeOK, FreeCount, Ownership and PagesBound: *)
(* free_page compares a page with total_pages before it clears a bit, so   *)
(* FreeCount and Ownership survive a free only because every page a client *)
(* holds is below that bound.  For the entry point, MemoryInv adds what    *)
(* the bits that are clear and set mean while the bitmap is built.         *)
(***************************************************************************)
EXTENDS PhysicalMemory, FiniteSetTheorems, NaturalsFacts, TLAPS

\* total_pages is at least the number of pages, in both stages: free_page
\* never ignores a page that the allocator handed out.
PagesBound ==
  /\ NumPages <= al.total_pages
  /\ \A v \in VirtualPages : v >= al.total_pages

IInv == TypeOK /\ FreeCount /\ Ownership /\ PagesBound

\* The scan of find_and_reserve_page stops at a clear bit when there is one.
LEMMA FirstFreeIsClear ==
  ASSUME NEW a \in Allocator, HasFree(a)
  PROVE  FirstFree(a) \in Bit \ a.reserved
  <1>1. Bit \ a.reserved \in SUBSET Nat
    BY BitmapBitsAssumption DEF Bit
  <1>2. \E p \in Bit \ a.reserved : \A q \in Bit \ a.reserved : p <= q
    BY <1>1, LeastNatural, Zenon DEF HasFree
  <1> QED
    BY <1>2 DEF FirstFree

\* The bitmap is finite, so its clear bits can be counted.
LEMMA ClearBitsFinite ==
  ASSUME NEW S
  PROVE  IsFiniteSet(Bit \ S) /\ Cardinality(Bit \ S) \in Nat
  <1>1. IsFiniteSet(Bit)
    BY BitmapBitsAssumption, FS_Interval DEF Bit
  <1>2. IsFiniteSet(Bit \ S)
    BY <1>1, FS_Difference, Zenon
  <1> QED
    BY <1>2, FS_CardinalityType

\* Setting one clear bit leaves one clear bit less.
LEMMA ReserveCounts ==
  ASSUME NEW a \in Allocator, HasFree(a),
         a.free_pages = Cardinality(Bit \ a.reserved)
  PROVE  /\ Reserve(a) \in Allocator
         /\ Reserve(a).reserved = a.reserved \cup {FirstFree(a)}
         /\ Reserve(a).total_pages = a.total_pages
         /\ Reserve(a).free_pages = Cardinality(Bit \ Reserve(a).reserved)
  <1> DEFINE p == FirstFree(a)
             S == a.reserved \cup {p}
             n == a.free_pages - 1
  <1>1. p \in Bit \ a.reserved
    BY FirstFreeIsClear
  <1>2. S \in SUBSET Bit /\ n \in Int
    BY <1>1, ClearBitsFinite DEF Allocator
  <1>3. Bit \ S = (Bit \ a.reserved) \ {p}
    OBVIOUS
  <1>4. IsFiniteSet(Bit \ a.reserved)
    BY ClearBitsFinite
  <1>5. Cardinality((Bit \ a.reserved) \ {p}) = Cardinality(Bit \ a.reserved) - 1
    BY <1>1, <1>4, FS_RemoveElement, Zenon
  <1>6. n = Cardinality(Bit \ S)
    BY <1>3, <1>5
  <1>7. Reserve(a) = [a EXCEPT !.reserved = S, !.free_pages = n]
    BY DEF Reserve
  <1>8. /\ Reserve(a) \in Allocator
        /\ Reserve(a).reserved = S
        /\ Reserve(a).free_pages = n
        /\ Reserve(a).total_pages = a.total_pages
    <2> HIDE DEF S, n
    <2> QED
      BY <1>2, <1>7, Zenon DEF Allocator
  <1> QED
    BY <1>6, <1>8

\* Clearing a bit that was set leaves one clear bit more.
LEMMA FreeCounts ==
  ASSUME NEW a \in Allocator, NEW p \in a.reserved, p < a.total_pages,
         a.free_pages = Cardinality(Bit \ a.reserved)
  PROVE  /\ Free(a, p) \in Allocator
         /\ Free(a, p).reserved = a.reserved \ {p}
         /\ Free(a, p).total_pages = a.total_pages
         /\ Free(a, p).free_pages = Cardinality(Bit \ Free(a, p).reserved)
  <1> DEFINE S == a.reserved \ {p}
             n == a.free_pages + 1
  <1>1. p \in Bit /\ p \in Int /\ a.total_pages \in Int
    BY BitmapBitsAssumption DEF Allocator, Bit
  <1>2. S \in SUBSET Bit /\ n \in Int
    BY ClearBitsFinite DEF Allocator
  <1>3. Bit \ S = (Bit \ a.reserved) \cup {p}
    BY <1>1
  <1>4. IsFiniteSet(Bit \ a.reserved)
    BY ClearBitsFinite
  <1>5. Cardinality((Bit \ a.reserved) \cup {p}) = Cardinality(Bit \ a.reserved) + 1
    BY <1>4, FS_AddElement, Zenon
  <1>6. n = Cardinality(Bit \ S)
    BY <1>3, <1>5
  <1>7. Free(a, p) = [a EXCEPT !.reserved = S, !.free_pages = n]
    BY <1>1 DEF Free
  <1>8. /\ Free(a, p) \in Allocator
        /\ Free(a, p).reserved = S
        /\ Free(a, p).free_pages = n
        /\ Free(a, p).total_pages = a.total_pages
    <2> HIDE DEF S, n
    <2> QED
      BY <1>2, <1>7, Zenon DEF Allocator
  <1> QED
    BY <1>6, <1>8

\* The allocator that the Limine entry point builds satisfies the invariant.
LEMMA InitIInv == Init => IInv
  <1> SUFFICES ASSUME Init PROVE IInv
    OBVIOUS
  <1>1. Cardinality(Bit \ (boot \cup Padding)) \in Nat
    BY ClearBitsFinite, Zenon
  <1>2. boot \cup Padding \subseteq Bit
    BY BitmapBitsAssumption, NumPagesAssumption
    DEF Init, Page, Padding, Bit
  <1>3. TypeOK /\ FreeCount
    BY <1>1, <1>2, NumPagesAssumption
    DEF Init, TypeOK, FreeCount, NewAllocator, Allocator
  <1>4. Ownership
    BY DEF Init, Ownership, NewAllocator
  <1>5. NumPages <= NumPages * PageSize
    BY NumPagesAssumption, PageSizeAssumption, BitmapBitsAssumption
  <1>6. PagesBound
    BY <1>5, NumPagesAssumption, VirtualPagesAssumption, BitmapBitsAssumption,
       PageSizeAssumption
    DEF Init, PagesBound, NewAllocator
  <1> QED
    BY <1>3, <1>4, <1>6 DEF IInv

\* Taking a page from the bitmap for a new holder: the part that
\* find_and_reserve_page and PhysicalBlockAllocator::allocate share.
LEMMA ReserveKeeps ==
  ASSUME IInv, HasFree(al), al' = Reserve(al), UNCHANGED <<stage, boot>>,
         \/ owned' = owned \cup {FirstFree(al)} /\ raw' = raw
         \/ raw' = raw \cup {FirstFree(al)} /\ owned' = owned
  PROVE  IInv'
  <1> DEFINE p == FirstFree(al)
  <1>1. /\ al' \in Allocator
        /\ al'.reserved = al.reserved \cup {p}
        /\ al'.total_pages = al.total_pages
        /\ al'.free_pages = Cardinality(Bit \ al'.reserved)
    BY ReserveCounts DEF IInv, TypeOK, FreeCount
  <1>2. p \in Bit \ al.reserved
    BY FirstFreeIsClear DEF IInv, TypeOK
  <1> HIDE DEF p
  <1>3. p \in Page
    BY <1>2, NumPagesAssumption, BitmapBitsAssumption
    DEF IInv, Ownership, Padding, Page, Bit
  <1>4. TypeOK' /\ FreeCount' /\ PagesBound'
    BY <1>1, <1>3 DEF IInv, TypeOK, FreeCount, PagesBound, p
  <1>5. Ownership'
    BY <1>1, <1>2, <1>3 DEF IInv, Ownership, p
  <1> QED
    BY <1>4, <1>5 DEF IInv

\* Giving up a held page: the part that OwnedPhysicalPage::drop and free_page
\* share.
LEMMA FreeKeeps ==
  ASSUME IInv, NEW p \in owned \cup raw, al' = Free(al, p),
         UNCHANGED <<stage, boot>>,
         owned' = owned \ {p}, raw' = raw \ {p}
  PROVE  IInv'
  <1>1. p \in al.reserved /\ p \in Page /\ p \notin boot
    BY DEF IInv, Ownership, TypeOK
  <1>2. p < al.total_pages
    BY <1>1, NumPagesAssumption, BitmapBitsAssumption
    DEF IInv, PagesBound, Page, TypeOK, Allocator
  <1>3. /\ al' \in Allocator
        /\ al'.reserved = al.reserved \ {p}
        /\ al'.total_pages = al.total_pages
        /\ al'.free_pages = Cardinality(Bit \ al'.reserved)
    BY <1>1, <1>2, FreeCounts DEF IInv, TypeOK, FreeCount
  <1>4. p \notin Padding
    BY <1>1, NumPagesAssumption, BitmapBitsAssumption DEF Page, Padding
  <1>5. TypeOK' /\ FreeCount' /\ PagesBound'
    BY <1>3 DEF IInv, TypeOK, FreeCount, PagesBound
  <1>6. Ownership'
    BY <1>1, <1>3, <1>4 DEF IInv, Ownership
  <1> QED
    BY <1>5, <1>6 DEF IInv

\* The allocator that kernel_main builds from the bitmap it is handed.
LEMMA KernelInitKeeps ==
  ASSUME IInv, KernelInit
  PROVE  IInv'
  <1> DEFINE S == al.reserved
             c == Cardinality(Bit \ S)
             n == NumPages * PageSize
  <1>1. S \in SUBSET Bit /\ c \in Nat /\ n \in Nat
    <2>1. S \in SUBSET Bit
      BY DEF IInv, TypeOK, Allocator
    <2>2. n \in Nat
      BY NumPagesAssumption, PageSizeAssumption, BitmapBitsAssumption
    <2> QED
      BY <2>1, <2>2, ClearBitsFinite, Zenon
  <1>2. al' = [reserved |-> S, free_pages |-> c, total_pages |-> n]
    BY DEF KernelInit, NewAllocator
  <1>3. /\ al' \in Allocator /\ al'.reserved = S
        /\ al'.free_pages = c /\ al'.total_pages = n
    <2> HIDE DEF S, c, n
    <2> QED
      BY <1>1, <1>2 DEF Allocator
  <1>4. NumPages <= n
    BY NumPagesAssumption, PageSizeAssumption, BitmapBitsAssumption
  <1>5. \A v \in VirtualPages : v >= n
    BY VirtualPagesAssumption
  <1>6. TypeOK' /\ FreeCount'
    BY <1>3 DEF IInv, KernelInit, TypeOK, FreeCount
  <1>7. Ownership'
    BY <1>3, Zenon DEF IInv, KernelInit, Ownership
  <1>8. PagesBound'
    BY <1>3, <1>4, <1>5 DEF PagesBound
  <1> QED
    BY <1>6, <1>7, <1>8 DEF IInv

\* Every operation of the allocator keeps the invariant.
LEMMA NextIInv == IInv /\ [Next]_vars => IInv'
  <1> SUFFICES ASSUME IInv, [Next]_vars PROVE IInv'
    OBVIOUS
  <1>1. CASE FindAndReservePage
    BY <1>1, ReserveKeeps DEF FindAndReservePage
  <1>2. ASSUME NEW size, Allocate(size) PROVE IInv'
    BY <1>2, ReserveKeeps DEF Allocate
  <1>3. ASSUME NEW p \in Page, DropOwned(p) PROVE IInv'
    <2>1. raw \ {p} = raw
      BY <1>3 DEF DropOwned, IInv, Ownership
    <2> QED
      BY <1>3, <2>1, FreeKeeps DEF DropOwned
  <1>4. ASSUME NEW p \in Page, FreePage(p) PROVE IInv'
    <2>1. owned \ {p} = owned
      BY <1>4 DEF FreePage, IInv, Ownership
    <2> QED
      BY <1>4, <2>1, FreeKeeps DEF FreePage
  <1>5. ASSUME NEW p \in Page, IntoRaw(p) \/ FromRaw(p) PROVE IInv'
    BY <1>5 DEF IntoRaw, FromRaw, IInv, TypeOK, FreeCount, Ownership, PagesBound
  <1>6. ASSUME NEW v \in VirtualPages, FreeVirtualPage(v) PROVE IInv'
    <2>1. al' = al
      BY <1>6, VirtualPagesAssumption DEF FreeVirtualPage, Free, IInv, PagesBound
    <2> QED
      BY <1>6, <2>1
      DEF FreeVirtualPage, IInv, TypeOK, FreeCount, Ownership, PagesBound
  <1>7. CASE Deinit
    BY <1>7 DEF Deinit, IInv, TypeOK, FreeCount, Ownership, PagesBound
  <1>8. CASE KernelInit
    BY <1>8, KernelInitKeeps
  <1>9. CASE UNCHANGED vars
    BY <1>9 DEF vars, IInv, TypeOK, FreeCount, Ownership, PagesBound
  <1> QED
    BY <1>1, <1>2, <1>3, <1>4, <1>5, <1>6, <1>7, <1>8, <1>9 DEF Next

\* The bitmap, its counter and the pages that clients hold always agree.
THEOREM AllocatorCorrect == Spec => [](TypeOK /\ FreeCount /\ Ownership)
  <1>1. IInv => TypeOK /\ FreeCount /\ Ownership
    BY DEF IInv
  <1> QED
    BY InitIInv, NextIInv, <1>1, PTL DEF Spec

\* The free_pages counter, kept by increments and decrements and computed anew
\* at the handover, is the number of clear bits.
THEOREM CounterIsExact == Spec => []FreeCount
  BY AllocatorCorrect, PTL

\* A page that becomes held was free: the part of a step that NoDoubleGrant is about.
LEMMA StepGrants == IInv /\ [Next]_vars => GrantsClearBits
  <1> SUFFICES ASSUME IInv, [Next]_vars PROVE GrantsClearBits
    OBVIOUS
  <1>1. ASSUME HasFree(al)
        PROVE  FirstFree(al) \notin al.reserved /\ FirstFree(al) \notin boot
    BY <1>1, FirstFreeIsClear DEF IInv, TypeOK, Ownership
  <1>0. \A p \in al'.reserved \ al.reserved : p \notin boot \cup owned \cup raw
    BY DEF IInv, Ownership
  <1>2. CASE FindAndReservePage
    BY <1>0, <1>1, <1>2 DEF FindAndReservePage, GrantsClearBits
  <1>3. ASSUME NEW size, Allocate(size) PROVE GrantsClearBits
    BY <1>0, <1>1, <1>3 DEF Allocate, GrantsClearBits
  <1>4. CASE owned' \cup raw' \subseteq owned \cup raw
    BY <1>0, <1>4 DEF GrantsClearBits
  <1> QED
    BY <1>2, <1>3, <1>4
    DEF Next, vars, DropOwned, IntoRaw, FromRaw, FreePage, FreeVirtualPage,
        Deinit, KernelInit

\* No page is handed to a second client, whatever the clients do.
THEOREM PagesGrantedOnce == Spec => NoDoubleGrant
  <1>1. IInv /\ [Next]_vars => [GrantsClearBits]_vars
    BY StepGrants
  <1> QED
    BY InitIInv, NextIInv, <1>1, PTL DEF Spec, NoDoubleGrant
-----------------------------------------------------------------------------
\* How the entry point builds the bitmap.

\* The bits that the masks and the fill between them select are those from the
\* first to the last.
LEMMA SelectedIsRange ==
  ASSUME NEW start \in Nat, NEW end \in Nat, start <= end, kernel_bitmap.len \in Nat
  PROVE  Boot!Selected(start, end) = {b \in Boot!Bits : start <= b /\ b <= end}
  <1> DEFINE B == BitsPerByte
  <1>1. B \in Nat \ {0}
    BY BitsPerByteAssumption
  <1>2. ASSUME NEW b \in Boot!Bits PROVE b \in Nat
    BY <1>1, <1>2 DEF Boot!Bits
  <1>3. start \div B \in Nat /\ end \div B \in Nat
    BY <1>1, DivMod
  <1>4. ASSUME NEW b \in Boot!Bits
        PROVE  /\ b \div B \in Nat
               /\ start <= b <=> start \div B < b \div B
                                 \/ (start \div B = b \div B /\ start % B <= b % B)
               /\ b <= end <=> b \div B < end \div B
                               \/ (b \div B = end \div B /\ b % B <= end % B)
    <2>1. b \in Nat /\ b \div B \in Nat
      BY <1>1, <1>2, DivMod
    <2>2. /\ start \div B < b \div B => start < b
          /\ start \div B = b \div B => (start <= b <=> start % B <= b % B)
          /\ b \div B < start \div B => b < start
      BY <1>1, <2>1, DivOrder, Zenon
    <2>3. /\ b \div B < end \div B => b < end
          /\ b \div B = end \div B => (b <= end <=> b % B <= end % B)
          /\ end \div B < b \div B => end < b
      BY <1>1, <2>1, DivOrder, Zenon
    <2> QED
      BY <1>3, <2>1, <2>2, <2>3
  <1>5. start \div B <= end \div B
    BY <1>1, <1>3, DivOrder
  <1>6. ASSUME NEW b \in Boot!Bits
        PROVE  b \in Boot!Selected(start, end) <=> start <= b /\ b <= end
    <2>1. CASE start \div B = end \div B
      <3>1. b \in Boot!Selected(start, end) <=>
              /\ b \div B = start \div B /\ b % B >= start % B
              /\ b \div B = end \div B /\ b % B <= end % B
        BY <2>1 DEF Boot!Selected, Boot!StartMask, Boot!EndMask
      <3>2. b % B \in Nat /\ start % B \in Nat
        BY <1>1, <1>2, DivMod
      <3> HIDE DEF B
      <3> QED
        BY <2>1, <3>1, <3>2, <1>3, <1>4
    <2>2. CASE start \div B # end \div B
      <3>1. b \in Boot!Selected(start, end) <=>
              \/ b \div B = start \div B /\ b % B >= start % B
              \/ b \div B = end \div B /\ b % B <= end % B
              \/ b \div B \in (start \div B) + 1 .. (end \div B) - 1
        BY <2>2 DEF Boot!Selected, Boot!StartMask, Boot!EndMask
      <3>2. b % B \in Nat /\ start % B \in Nat
        BY <1>1, <1>2, DivMod
      <3> HIDE DEF B
      <3> QED
        BY <2>2, <3>1, <3>2, <1>3, <1>4, <1>5
    <2> QED
      BY <2>1, <2>2
  <1>7. Boot!Selected(start, end) \subseteq Boot!Bits
    BY DEF Boot!Selected, Boot!StartMask, Boot!EndMask
  <1> QED
    BY <1>6, <1>7

EndOf(e) == e.base + e.length

LEMMA MapEntries ==
  ASSUME memory_map \in MemoryMaps
  PROVE  /\ Len(memory_map) \in Nat \ {0} /\ DOMAIN memory_map = 1 .. Len(memory_map)
         /\ \A i \in 1 .. Len(memory_map) :
              /\ memory_map[i].base \in Nat /\ memory_map[i].length \in Nat
              /\ EndOf(memory_map[i]) \in Nat
              /\ memory_map[i].usable =>
                   /\ memory_map[i].base % PageSize = 0 /\ memory_map[i].length % PageSize = 0
                   /\ memory_map[i].base > 0 /\ memory_map[i].length > 0
  <1> DEFINE E == [base : Nat, length : Nat, usable : BOOLEAN]
  <1>1. memory_map \in Seq(E) /\ memory_map # <<>>
    BY MemoryMapsAssumption
  <1>2. Len(memory_map) \in Nat \ {0} /\ DOMAIN memory_map = 1 .. Len(memory_map)
    <2> HIDE DEF E
    <2> QED
      BY <1>1
  <1>3. \A i \in 1 .. Len(memory_map) : memory_map[i] \in E
    <2> HIDE DEF E
    <2> QED
      BY <1>1
  <1>4. \A e \in E : e.base \in Nat /\ e.length \in Nat /\ EndOf(e) \in Nat
    BY DEF EndOf
  <1>5. \A i \in DOMAIN memory_map : memory_map[i].usable =>
          /\ memory_map[i].base % PageSize = 0 /\ memory_map[i].length % PageSize = 0
          /\ memory_map[i].base > 0 /\ memory_map[i].length > 0
    BY MemoryMapsAssumption
  <1> HIDE DEF E
  <1> QED
    BY <1>2, <1>3, <1>4, <1>5

\* The end of memory is that of the highest entry.
LEMMA EndOfMemory ==
  ASSUME memory_map \in MemoryMaps
  PROVE  /\ Boot!MappableBytes \in Nat
         /\ \A i \in 1 .. Len(memory_map) : EndOf(memory_map[i]) <= Boot!MappableBytes
  <1> DEFINE n == Len(memory_map)
             f == [i \in 1 .. n |-> EndOf(memory_map[i])]
             S == {e.base + e.length : e \in Boot!Entries}
             M == CHOOSE x \in S : \A y \in S : x >= y
  <1>1. /\ n \in Nat \ {0} /\ DOMAIN memory_map = 1 .. n
        /\ \A i \in 1 .. n : EndOf(memory_map[i]) \in Nat
    BY MapEntries
  <1> HIDE DEF n
  <1>2. f \in [1 .. n -> Nat] /\ \A i \in 1 .. n : f[i] = EndOf(memory_map[i])
    BY <1>1
  <1> HIDE DEF f
  <1>3. PICK i \in 1 .. n : \A j \in 1 .. n : f[j] <= f[i]
    BY <1>1, <1>2, GreatestValue, Zenon
  <1>4. S = {f[j] : j \in 1 .. n}
    BY <1>1, <1>2, SMTT(30) DEF Boot!Entries, EndOf
  <1> HIDE DEF S
  <1>5. f[i] \in S /\ \A y \in S : f[i] >= y
    BY <1>2, <1>3, <1>4
  <1>6. M \in S /\ \A y \in S : M >= y
    BY <1>5
  <1>7. Boot!MappableBytes = M
    BY DEF Boot!MappableBytes, Boot!Max, S
  <1> HIDE DEF M
  <1>8. M \in Nat /\ \A j \in 1 .. n : f[j] <= M
    BY <1>2, <1>4, <1>6
  <1> QED
    BY <1>2, <1>7, <1>8 DEF n

LEMMA BitmapSize ==
  ASSUME memory_map \in MemoryMaps
  PROVE  Boot!MemoryMapPageSize \in Nat
  <1> DEFINE bytes == Boot!MappableBytes \div (PageSize * BitsPerByte)
  <1>1. Boot!MappableBytes \in Nat /\ PageSize \in Nat \ {0} /\ BitsPerByte \in Nat \ {0}
    BY EndOfMemory, PageSizeAssumption, BitsPerByteAssumption
  <1>2. PageSize * BitsPerByte \in Nat \ {0}
    BY <1>1
  <1>3. bytes \in Nat
    BY <1>1, <1>2, DivMod
  <1> HIDE DEF bytes
  <1>4. bytes % PageSize \in Nat /\ bytes % PageSize < PageSize
    BY <1>1, <1>3, DivMod
  <1>5. PageSize - (bytes % PageSize) \in Nat
    BY <1>1, <1>4
  <1>6. (PageSize - (bytes % PageSize)) % PageSize \in Nat
    BY <1>1, <1>5, DivMod
  <1>7. bytes + ((PageSize - (bytes % PageSize)) % PageSize) \in Nat
    BY <1>3, <1>6
  <1> QED
    BY <1>7 DEF Boot!MemoryMapPageSize, bytes

\* On the machine that the allocator is for, the bitmap has the bits of Bit.
LEMMA BitmapIsBit ==
  ASSUME memory_map \in MemoryMaps, kernel_bitmap.len = Boot!MemoryMapPageSize,
         Boot!MappableBytes \div PageSize = NumPages
  PROVE  Boot!Bits = Bit
  <1>1. Boot!MappableBytes \in Nat /\ PageSize \in Nat \ {0} /\ BitsPerByte \in Nat \ {0}
    BY EndOfMemory, PageSizeAssumption, BitsPerByteAssumption
  <1>2. Boot!MappableBytes \div (PageSize * BitsPerByte) = NumPages \div BitsPerByte
    <2>1. NumPages \div BitsPerByte = Boot!MappableBytes \div (BitsPerByte * PageSize)
      BY <1>1, DivTwice, Zenon
    <2>2. BitsPerByte * PageSize = PageSize * BitsPerByte
      BY <1>1
    <2> QED
      BY <2>1, <2>2
  <1>3. BitmapBits = BitsPerByte * kernel_bitmap.len
    BY <1>2, BitmapSizeAssumption DEF Boot!MemoryMapPageSize
  <1>4. kernel_bitmap.len \in Nat
    BY BitmapSize
  <1>5. kernel_bitmap.len * BitsPerByte = BitmapBits
    BY <1>1, <1>3, <1>4
  <1> QED
    BY <1>5 DEF Boot!Bits, Bit

\* An entry that is usable ends before the end of memory, and starts after
\* page 0.
LEMMA EntryPages ==
  ASSUME memory_map \in MemoryMaps, NEW i \in 1 .. Len(memory_map), memory_map[i].usable
  PROVE  LET e == memory_map[i]
             start == e.base \div PageSize
             end == (e.base + e.length - 1) \div PageSize
         IN  /\ start \in Nat /\ end \in Nat /\ 0 < start /\ start <= end
             /\ end < Boot!MappableBytes \div PageSize
  <1> DEFINE b == memory_map[i].base
             l == memory_map[i].length
             M == Boot!MappableBytes
             P == PageSize
  <1>1. /\ b \in Nat /\ l \in Nat /\ b % P = 0 /\ l % P = 0 /\ b > 0 /\ l > 0
    BY MapEntries
  <1>2. M \in Nat /\ b + l <= M /\ P \in Nat \ {0}
    BY EndOfMemory, PageSizeAssumption DEF EndOf
  <1> HIDE DEF b, l, M, P
  <1> DEFINE s == b \div P
             k == s + l \div P
             x == b + l - 1
             t == x \div P
             N == M \div P
  <1>3. s \in Nat /\ l \div P \in Nat /\ b = P * s /\ l = P * (l \div P)
    <2>1. s \in Nat /\ b = P * s + (b % P)
      BY <1>1, <1>2, DivMod
    <2>2. l \div P \in Nat /\ l = P * (l \div P) + (l % P)
      BY <1>1, <1>2, DivMod
    <2>3. P * s \in Int /\ P * (l \div P) \in Int
      BY <1>2, <2>1, <2>2
    <2> HIDE DEF s
    <2> QED
      BY <1>1, <2>1, <2>2, <2>3
  <1>4. x \in Nat /\ b <= x
    BY <1>1
  <1>5. t \in Nat /\ P * t <= x
    <2>1. t \in Nat /\ x % P \in Nat /\ x = P * t + (x % P)
      BY <1>2, <1>4, DivMod, Zenon
    <2>2. P * t \in Int
      BY <1>2, <2>1
    <2> HIDE DEF t, x
    <2> QED
      BY <2>1, <2>2
  <1>6. N \in Nat /\ M < P * N + P
    BY <1>2, DivMod
  <1>7. s <= t
    <2>1. x \div P < b \div P => x < b
      BY <1>1, <1>2, <1>4, DivOrder, Zenon
    <2> QED
      BY <2>1, <1>1, <1>3, <1>4, <1>5
  <1> HIDE DEF s, t, N
  <1>8. 0 < s
    BY <1>1, <1>2, <1>3
  <1>9. k \in Nat /\ b + l = P * k
    BY <1>2, <1>3
  <1> HIDE DEF k
  <1>10. t < k
    <2> SUFFICES ASSUME k <= t PROVE FALSE
      BY <1>5, <1>9
    <2>1. P * k <= P * t
      BY <1>2, <1>5, <1>9, ProductOrder
    <2>2. P * k \in Int /\ P * t \in Int
      BY <1>2, <1>5, <1>9
    <2> QED
      BY <2>1, <2>2, <1>1, <1>5, <1>9
  <1>11. k <= N
    <2> SUFFICES ASSUME N + 1 <= k PROVE FALSE
      BY <1>6, <1>9
    <2>1. P * (N + 1) <= P * k
      BY <1>2, <1>6, <1>9, ProductOrder
    <2>2. P * (N + 1) = P * N + P /\ P * N \in Int
      BY <1>2, <1>6
    <2> QED
      BY <2>1, <2>2, <1>1, <1>2, <1>6, <1>9
  <1>12. t < N
    BY <1>5, <1>6, <1>9, <1>10, <1>11
  <1> QED
    BY <1>3, <1>5, <1>7, <1>8, <1>12 DEF s, t, N, b, l, M, P

PagesAt(i) == Boot!PagesOf(memory_map[i].base, memory_map[i].length)

\* Only bits of usable pages are clear, each usable entry that was looked at has
\* its bits, and at the end those of the bitmap's own pages are set again.
BootInv ==
  /\ memory_map \in MemoryMaps
  /\ kernel_bitmap \in [ptr : Nat, len : Nat, set : SUBSET Nat]
  /\ next \in 1 .. Len(memory_map) + 1
  /\ pc \in {"locate", "clear", "reserve", "done", "panic"}
  /\ pc = "locate" => next = 1
  /\ pc \in {"clear", "reserve", "done"} =>
       /\ kernel_bitmap.len = Boot!MemoryMapPageSize
       /\ kernel_bitmap.set \subseteq Boot!Bits
       /\ Boot!FreePages \subseteq Boot!Usable
       /\ \A i \in 1 .. next - 1 : memory_map[i].usable => PagesAt(i) \subseteq Boot!Bits
  /\ pc \in {"reserve", "done"} => next = Len(memory_map) + 1
  /\ pc = "done" => Boot!BitmapPages \cap Boot!FreePages = {}

\* The bitmap is put into an entry of the map, with all bits set.
LEMMA LocateKeeps ==
  ASSUME BootInv, Boot!Locate
  PROVE  BootInv'
  <1>1. memory_map' = memory_map /\ next' = next /\ pc = "locate" /\ memory_map \in MemoryMaps
    BY DEF Boot!Locate, BootInv
  <1>2. CASE Boot!LargeEntries = {}
    <2>1. pc' = "panic" /\ kernel_bitmap' = kernel_bitmap
      BY <1>2 DEF Boot!Locate
    <2> QED
      BY <1>1, <2>1 DEF BootInv
  <1>3. CASE Boot!LargeEntries # {}
    <2> DEFINE L == Boot!LargeEntries
               i == CHOOSE x \in L : \A y \in L : x =< y
               b == memory_map[i].base
               l == Boot!MemoryMapPageSize
               S == Boot!Filled
    <2>1. L \subseteq 1 .. Len(memory_map)
      BY <1>1, MapEntries DEF Boot!LargeEntries
    <2>2. i \in L
      <3>1. L \in SUBSET Nat
        BY <2>1
      <3>2. \E x \in L : \A y \in L : x <= y
        BY <1>3, <3>1, LeastNatural
      <3> HIDE DEF L
      <3> QED
        BY <3>2
    <2>3. b \in Nat /\ l \in Nat
      <3> HIDE DEF i
      <3> QED
        BY <1>1, <2>1, <2>2, MapEntries, BitmapSize
    <2>4. S \subseteq Nat /\ S = 0 .. l * BitsPerByte - 1
      BY <2>3, BitsPerByteAssumption DEF Boot!Filled
    <2>5. pc' = "clear" /\ kernel_bitmap' = [ptr |-> b, len |-> l, set |-> S]
      BY <1>3 DEF Boot!Locate, Boot!Min
    <2> HIDE DEF b, l, S, i, L
    <2>6. /\ kernel_bitmap' \in [ptr : Nat, len : Nat, set : SUBSET Nat]
          /\ kernel_bitmap'.len = l /\ kernel_bitmap'.set = S
      BY <2>3, <2>4, <2>5
    <2>7. l = Boot!MemoryMapPageSize'
      BY <1>1 DEF l, Boot!MemoryMapPageSize, Boot!MappableBytes, Boot!Entries
    <2>8. Boot!Bits' = S
      BY <2>4, <2>6 DEF Boot!Bits
    <2>9. Boot!FreePages' = {}
      BY <2>6, <2>8 DEF Boot!FreePages
    <2>10. next = 1
      BY <1>1 DEF BootInv
    <2> QED
      BY <1>1, <2>5, <2>6, <2>7, <2>8, <2>9, <2>10 DEF BootInv
  <1> QED
    BY <1>2, <1>3

\* A bit whose byte is in the bitmap is in the bitmap.
LEMMA InBoundsIsBit ==
  ASSUME NEW end \in Nat, kernel_bitmap.len \in Nat, Boot!InBounds(end)
  PROVE  end <= kernel_bitmap.len * BitsPerByte - 1
  <1> DEFINE B == BitsPerByte
             q == end \div B
             r == end % B
             n == kernel_bitmap.len
  <1>1. B \in Nat \ {0} /\ n \in Nat
    BY BitsPerByteAssumption
  <1>2. q \in Nat /\ r \in Nat /\ r < B /\ end = B * q + r
    BY <1>1, DivMod
  <1>3. q + 1 <= n
    BY <1>1, <1>2 DEF Boot!InBounds
  <1> HIDE DEF B, q, r, n
  <1>4. B * (q + 1) <= B * n
    BY <1>1, <1>2, <1>3, ProductOrder
  <1>5. B * (q + 1) = B * q + B /\ B * q \in Int /\ B * n \in Int /\ n * B = B * n
    BY <1>1, <1>2
  <1>6. end <= n * B - 1
    BY <1>1, <1>2, <1>4, <1>5
  <1> QED
    BY <1>6 DEF n, B

\* The bits of a usable entry are cleared, or the entry point panics.
LEMMA ClearKeeps ==
  ASSUME BootInv, Boot!ClearEntry
  PROVE  BootInv'
  <1> DEFINE e == memory_map[next]
             start == e.base \div PageSize
             end == (e.base + e.length - 1) \div PageSize
             S == kernel_bitmap.set
  <1>1. /\ memory_map' = memory_map /\ memory_map \in MemoryMaps
        /\ pc = "clear" /\ next \in 1 .. Len(memory_map)
        /\ kernel_bitmap \in [ptr : Nat, len : Nat, set : SUBSET Nat]
        /\ kernel_bitmap.len = Boot!MemoryMapPageSize
        /\ S \subseteq Boot!Bits /\ Boot!FreePages \subseteq Boot!Usable
        /\ \A i \in 1 .. next - 1 : memory_map[i].usable => PagesAt(i) \subseteq Boot!Bits
    BY DEF Boot!ClearEntry, BootInv
  <1>2. /\ Boot!MemoryMapPageSize' = Boot!MemoryMapPageSize /\ Boot!Usable' = Boot!Usable
        /\ \A i : PagesAt(i)' = PagesAt(i)
    BY <1>1 DEF Boot!MemoryMapPageSize, Boot!MappableBytes, Boot!Entries, Boot!Usable, Boot!PagesOf,
                PagesAt
  <1>3. next \in Nat /\ Len(memory_map) \in Nat /\ next <= Len(memory_map)
    BY <1>1, MapEntries
  <1>4. \A i \in 1 .. next : i \in 1 .. next - 1 \/ i = next
    BY <1>3
  <1>5. CASE ~e.usable
    <2>1. next' = next + 1 /\ kernel_bitmap' = kernel_bitmap /\ pc' = pc
      BY <1>5 DEF Boot!ClearEntry
    <2>2. Boot!Bits' = Boot!Bits /\ Boot!FreePages' = Boot!FreePages
      BY <2>1 DEF Boot!Bits, Boot!FreePages
    <2>3. next' - 1 = next /\ next' \in 1 .. Len(memory_map) + 1
      BY <1>3, <2>1
    <2>4. \A i \in 1 .. next : memory_map[i].usable => PagesAt(i) \subseteq Boot!Bits
      BY <1>1, <1>4, <1>5
    <2> QED
      BY <1>1, <1>2, <2>1, <2>2, <2>3, <2>4 DEF BootInv
  <1>6. CASE e.usable /\ ~Boot!InBounds(end)
    <2>1. next' = next /\ kernel_bitmap' = kernel_bitmap /\ pc' = "panic"
      BY <1>6 DEF Boot!ClearEntry
    <2> QED
      BY <1>1, <2>1 DEF BootInv
  <1>7. CASE e.usable /\ Boot!InBounds(end)
    <2> DEFINE C == Boot!Selected(start, end)
               T == S \ C
    <2>1. /\ next' = next + 1 /\ pc' = pc
          /\ kernel_bitmap' = [kernel_bitmap EXCEPT !.set = T]
      BY <1>7 DEF Boot!ClearEntry
    <2>2. T \subseteq Nat /\ T \subseteq Boot!Bits
      BY <1>1
    <2>3. start \in Nat /\ end \in Nat /\ start <= end
      BY <1>1, <1>7, EntryPages
    <2>4. kernel_bitmap.len \in Nat
      BY <1>1
    <2>5. C = {b \in Boot!Bits : start <= b /\ b <= end}
      BY <2>3, <2>4, SelectedIsRange, SMTT(30)
    <2>6. end <= kernel_bitmap.len * BitsPerByte - 1
      BY <1>7, <2>3, <2>4, InBoundsIsBit
    <2>7. PagesAt(next) = start .. end
      BY DEF PagesAt, Boot!PagesOf
    <2> HIDE DEF start, end, T, S
    <2>8. start .. end \subseteq Boot!Bits
      BY <2>3, <2>4, <2>6, BitsPerByteAssumption DEF Boot!Bits
    <2>9. /\ kernel_bitmap' \in [ptr : Nat, len : Nat, set : SUBSET Nat]
          /\ kernel_bitmap'.len = kernel_bitmap.len /\ kernel_bitmap'.set = T
      BY <1>1, <2>1, <2>2
    <2>10. Boot!Bits' = Boot!Bits
      BY <2>9 DEF Boot!Bits
    <2>11. PagesAt(next) \subseteq Boot!Usable
      <3>1. e \in Boot!Entries /\ e.usable
        BY <1>1, <1>7, MapEntries, Zenon DEF Boot!Entries
      <3> QED
        BY <3>1 DEF Boot!Usable, PagesAt
    <2>12. Boot!FreePages' \subseteq Boot!Usable
      <3> SUFFICES ASSUME NEW b \in Boot!Bits, b \notin T PROVE b \in Boot!Usable
        BY <2>9, <2>10 DEF Boot!FreePages
      <3>1. CASE b \in C
        <4>1. b \in start .. end
          BY <3>1, <2>3, <2>5, <2>4, BitsPerByteAssumption DEF Boot!Bits
        <4> QED
          BY <4>1, <2>7, <2>11
      <3>2. CASE b \notin C
        BY <3>2, <1>1 DEF T, S, Boot!FreePages
      <3> QED
        BY <3>1, <3>2
    <2>13. next' - 1 = next /\ next' \in 1 .. Len(memory_map) + 1
      BY <1>3, <2>1
    <2>14. \A i \in 1 .. next : memory_map[i].usable => PagesAt(i) \subseteq Boot!Bits
      BY <1>1, <1>4, <2>7, <2>8, Zenon
    <2> QED
      BY <1>1, <1>2, <2>1, <2>2, <2>9, <2>10, <2>12, <2>13, <2>14, SMTT(30) DEF BootInv
  <1> QED
    BY <1>5, <1>6, <1>7

LEMMA ClearDoneKeeps ==
  ASSUME BootInv, Boot!ClearDone
  PROVE  BootInv'
  <1>1. /\ memory_map' = memory_map /\ kernel_bitmap' = kernel_bitmap /\ next' = next
        /\ pc = "clear" /\ pc' = "reserve" /\ next > Len(memory_map)
    BY DEF Boot!ClearDone
  <1>2. next = Len(memory_map) + 1
    BY <1>1, MapEntries DEF BootInv
  <1>3. /\ Boot!MemoryMapPageSize' = Boot!MemoryMapPageSize /\ Boot!Usable' = Boot!Usable
        /\ Boot!Bits' = Boot!Bits /\ Boot!FreePages' = Boot!FreePages
        /\ \A i : PagesAt(i)' = PagesAt(i)
    BY <1>1 DEF Boot!MemoryMapPageSize, Boot!MappableBytes, Boot!Entries, Boot!Usable, Boot!PagesOf,
                Boot!Bits, Boot!FreePages, PagesAt
  <1> QED
    BY <1>1, <1>2, <1>3 DEF BootInv

\* The bits that are set again are more than those of the bitmap's pages: the
\* last one is the number of a byte.
LEMMA BitmapReserved ==
  ASSUME BootInv, Boot!ReserveBitmap
  PROVE  BootInv'
  <1> DEFINE start == kernel_bitmap.ptr \div PageSize
             end == Boot!ReserveEnd
             S == kernel_bitmap.set
             C == Boot!Selected(start, end)
             T == S \cup C
  <1>1. /\ memory_map' = memory_map /\ next' = next /\ memory_map \in MemoryMaps
        /\ pc = "reserve" /\ next = Len(memory_map) + 1
        /\ kernel_bitmap \in [ptr : Nat, len : Nat, set : SUBSET Nat]
        /\ kernel_bitmap.len = Boot!MemoryMapPageSize
        /\ S \subseteq Boot!Bits /\ Boot!FreePages \subseteq Boot!Usable
        /\ \A i \in 1 .. next - 1 : memory_map[i].usable => PagesAt(i) \subseteq Boot!Bits
    BY DEF Boot!ReserveBitmap, BootInv
  <1>2. CASE ~Boot!InBounds(end)
    <2>1. kernel_bitmap' = kernel_bitmap /\ pc' = "panic"
      BY <1>2 DEF Boot!ReserveBitmap
    <2> QED
      BY <1>1, <2>1 DEF BootInv
  <1>3. CASE Boot!InBounds(end)
    <2>1. pc' = "done" /\ kernel_bitmap' = [kernel_bitmap EXCEPT !.set = T]
      BY <1>3 DEF Boot!ReserveBitmap
    <2>2. kernel_bitmap.len \in Nat /\ kernel_bitmap.ptr \in Nat
      BY <1>1
    <2>3. Boot!Bits \subseteq Nat /\ C \subseteq Boot!Bits
      BY <2>2, BitsPerByteAssumption DEF Boot!Bits, Boot!Selected, Boot!StartMask, Boot!EndMask
    <2>4. T \subseteq Boot!Bits /\ T \subseteq Nat
      BY <1>1, <2>3, Zenon
    <2> HIDE DEF S, C
    <2>5. /\ kernel_bitmap' \in [ptr : Nat, len : Nat, set : SUBSET Nat]
          /\ kernel_bitmap'.len = kernel_bitmap.len /\ kernel_bitmap'.set = T
          /\ kernel_bitmap'.ptr = kernel_bitmap.ptr
      <3> HIDE DEF T
      <3> QED
        BY <1>1, <2>1, <2>4, SMTT(30)
    <2>6. /\ Boot!MemoryMapPageSize' = Boot!MemoryMapPageSize /\ Boot!Usable' = Boot!Usable
          /\ Boot!Bits' = Boot!Bits /\ Boot!BitmapPages' = Boot!BitmapPages
          /\ \A i : PagesAt(i)' = PagesAt(i)
      BY <1>1, <2>5 DEF Boot!MemoryMapPageSize, Boot!MappableBytes, Boot!Entries, Boot!Usable,
         Boot!PagesOf,
                        Boot!Bits, Boot!BitmapPages, PagesAt
    <2>7. Boot!FreePages' = Boot!Bits \ T /\ Boot!FreePages = Boot!Bits \ S
      BY <2>5, <2>6 DEF Boot!FreePages, S
    <2>8. ASSUME NEW b \in Boot!BitmapPages, b \in Boot!Bits
          PROVE  b \in C
      <3> DEFINE last == end \div PageSize
      <3>1. kernel_bitmap.len > 0
        BY <2>2, <2>8, BitsPerByteAssumption DEF Boot!Bits
      <3>2. end \in Nat /\ kernel_bitmap.ptr <= end
        BY <2>2, <3>1 DEF Boot!ReserveEnd
      <3>3. b \in start .. last
        BY DEF Boot!BitmapPages, Boot!PagesOf, Boot!ReserveEnd
      <3>4. start \in Nat
        BY <2>2, PageSizeAssumption, DivMod
      <3> HIDE DEF start, end
      <3>5. last \in Nat /\ last <= end
        <4>1. PageSize \in Nat /\ PageSize >= 1
          BY PageSizeAssumption
        <4>2. last \in Nat /\ end % PageSize \in Nat /\ end = PageSize * last + (end % PageSize)
          BY <3>2, PageSizeAssumption, DivMod
        <4> HIDE DEF last
        <4>3. last * 1 <= last * PageSize
          BY <4>1, <4>2, ProductOrder
        <4>4. last * PageSize = PageSize * last /\ PageSize * last \in Int /\ last * 1 = last
          BY <4>1, <4>2
        <4> QED
          BY <3>2, <4>2, <4>3, <4>4
      <3> HIDE DEF last
      <3>6. start <= b /\ b <= end /\ start <= end
        BY <3>2, <3>3, <3>4, <3>5
      <3>7. C = {x \in Boot!Bits : start <= x /\ x <= end}
        BY <2>2, <3>2, <3>4, <3>6, SelectedIsRange DEF C
      <3> QED
        BY <2>8, <3>6, <3>7
    <2>9. Boot!BitmapPages' \cap Boot!FreePages' = {}
      BY <2>6, <2>7, <2>8
    <2>10. Boot!FreePages' \subseteq Boot!Usable'
      BY <1>1, <2>6, <2>7
    <2> HIDE DEF T
    <2> QED
      BY <1>1, <2>1, <2>4, <2>5, <2>6, <2>9, <2>10, SMTT(30) DEF BootInv
  <1> QED
    BY <1>2, <1>3

LEMMA BootInit == Boot!Init => BootInv
  <1> SUFFICES ASSUME Boot!Init PROVE BootInv
    OBVIOUS
  <1>1. /\ memory_map \in MemoryMaps /\ next = 1 /\ pc = "locate"
        /\ kernel_bitmap = [ptr |-> 0, len |-> 0, set |-> {}]
    BY DEF Boot!Init
  <1>2. next \in 1 .. Len(memory_map) + 1
    BY <1>1, MapEntries
  <1>3. kernel_bitmap \in [ptr : Nat, len : Nat, set : SUBSET Nat]
    BY <1>1
  <1> QED
    BY <1>1, <1>2, <1>3 DEF BootInv

LEMMA BootStep == BootInv /\ Boot!Next => BootInv'
  BY LocateKeeps, ClearKeeps, ClearDoneKeeps, BitmapReserved DEF Boot!Next
-----------------------------------------------------------------------------
\* The entry point and the allocator together.

\* Nothing is allocated before page_allocation::init.  From then on the pages
\* that the allocator never had are those whose bits the entry point left set.
MemoryInv ==
  /\ BootInv
  /\ stage = "boot" =>
       /\ boot = Page /\ al = NewAllocator(Bit, 0)
       /\ owned = {} /\ raw = {}
  /\ stage # "boot" =>
       /\ IInv
       /\ pc = "done" /\ Boot!Bits = Bit
       /\ boot = Page \cap kernel_bitmap.set

LEMMA InitIInvNext == (Init => IInv)'
  BY InitIInv, PTL

LEMMA MemoryInitInv == MemoryInit => MemoryInv
  BY BootInit DEF MemoryInit, MemoryInv

\* The bitmap that is complete is one that PageAllocator's Init allows.
LEMMA AllocatorStarts ==
  ASSUME MemoryInv, InitAllocator
  PROVE  Init' /\ Boot!Bits = Bit
  <1> DEFINE S == kernel_bitmap.set
             end == Boot!MappableBytes \div PageSize
  <1>1. /\ stage = "boot" /\ pc = "done" /\ end = NumPages
        /\ stage' = "limine" /\ al' = NewAllocator(S, NumPages)
        /\ boot' = Page \cap S /\ owned' = {} /\ raw' = {}
    BY DEF InitAllocator, MemoryInv
  <1>2. /\ memory_map \in MemoryMaps /\ kernel_bitmap.len = Boot!MemoryMapPageSize
        /\ S \subseteq Boot!Bits /\ Boot!FreePages \subseteq Boot!Usable
    BY <1>1 DEF MemoryInv, BootInv
  <1>3. Boot!Bits = Bit
    BY <1>1, <1>2, BitmapIsBit
  <1>4. \A b \in Boot!Usable : b \in Nat /\ 0 < b /\ b < NumPages
    <2> SUFFICES ASSUME NEW b \in Boot!Usable PROVE b \in Nat /\ 0 < b /\ b < NumPages
      OBVIOUS
    <2>1. PICK i \in DOMAIN memory_map : memory_map[i].usable /\ b \in PagesAt(i)
      BY DEF Boot!Usable, Boot!Entries, PagesAt
    <2> DEFINE first == memory_map[i].base \div PageSize
               last == (memory_map[i].base + memory_map[i].length - 1) \div PageSize
    <2>2. b \in first .. last
      BY <2>1 DEF PagesAt, Boot!PagesOf
    <2>3. i \in 1 .. Len(memory_map)
      BY <1>2, MapEntries, SMTT(30)
    <2>4. first \in Nat /\ last \in Nat /\ 0 < first /\ last < NumPages
      BY <1>1, <1>2, <2>1, <2>3, EntryPages, SMTT(30)
    <2> HIDE DEF first, last
    <2> QED
      BY <2>2, <2>4, NumPagesAssumption
  <1>5. Padding \subseteq S
    <2> SUFFICES ASSUME NEW b \in Padding, b \notin S PROVE FALSE
      OBVIOUS
    <2>1. b \in Bit /\ b >= NumPages
      BY NumPagesAssumption, BitmapBitsAssumption DEF Padding, Bit
    <2>2. b \in Boot!FreePages
      BY <1>3, <2>1 DEF Boot!FreePages
    <2> QED
      BY <1>2, <1>4, <2>1, <2>2, NumPagesAssumption, SMTT(30)
  <1>6. 0 \in Page /\ 0 \in Bit
    BY NumPagesAssumption, BitmapBitsAssumption DEF Page, Bit
  <1>7. 0 \in S
    BY <1>2, <1>3, <1>4, <1>6 DEF Boot!FreePages
  <1>8. S = boot' \cup Padding
    <2>1. \A b \in Bit : b \in Page \/ b \in Padding
      BY NumPagesAssumption, BitmapBitsAssumption DEF Page, Padding, Bit
    <2> QED
      BY <1>1, <1>2, <1>3, <1>5, <2>1
  <1>9. al' = NewAllocator(boot' \cup Padding, NumPages)
    BY <1>1, <1>8, Zenon
  <1>10. boot' \in {B \in SUBSET Page : 0 \in B}
    BY <1>1, <1>6, <1>7, SMTT(30)
  <1> QED
    BY <1>1, <1>3, <1>9, <1>10, SMTT(30) DEF Init

LEMMA BootSame == BootInv /\ UNCHANGED bootVars => BootInv'
  BY DEF bootVars, BootInv, PagesAt, Boot!MemoryMapPageSize, Boot!MappableBytes, Boot!Entries,
         Boot!Usable, Boot!PagesOf, Boot!Bits, Boot!FreePages, Boot!BitmapPages

LEMMA MemoryNextInv == MemoryInv /\ [MemoryNext]_allVars => MemoryInv'
  <1> SUFFICES ASSUME MemoryInv, [MemoryNext]_allVars PROVE MemoryInv'
    OBVIOUS
  <1>1. CASE BuildBitmap
    <2>1. BootInv' /\ UNCHANGED vars
      BY <1>1, BootStep DEF BuildBitmap, MemoryInv
    <2>2. pc # "done"
      BY <1>1 DEF BuildBitmap, Boot!Next, Boot!Locate, Boot!ClearEntry, Boot!ClearDone,
                  Boot!ReserveBitmap
    <2> QED
      BY <2>1, <2>2 DEF MemoryInv, vars
  <1>2. CASE InitAllocator
    <2>1. Init' /\ Boot!Bits = Bit
      BY <1>2, AllocatorStarts
    <2>2. IInv'
      BY <2>1, InitIInvNext
    <2>3. /\ UNCHANGED bootVars /\ stage' = "limine" /\ pc = "done"
          /\ boot' = Page \cap kernel_bitmap.set
      BY <1>2 DEF InitAllocator
    <2>4. BootInv' /\ Boot!Bits' = Boot!Bits
      BY <2>3, BootSame DEF MemoryInv, bootVars, Boot!Bits
    <2> QED
      BY <2>1, <2>2, <2>3, <2>4 DEF MemoryInv, bootVars
  <1>3. CASE Next /\ UNCHANGED bootVars
    <2>1. stage # "boot"
      BY <1>3 DEF MemoryInv, Next, FindAndReservePage, Deinit, KernelInit, Allocate, DropOwned,
                  IntoRaw, FromRaw, FreePage, FreeVirtualPage, Running
    <2>2. IInv'
      BY <1>3, <2>1, NextIInv DEF MemoryInv
    <2>3. stage' # "boot"
      BY <2>2 DEF IInv, TypeOK
    <2>4. BootInv' /\ Boot!Bits' = Boot!Bits
      BY <1>3, BootSame DEF MemoryInv, bootVars, Boot!Bits
    <2>5. boot' = boot
      BY <1>3 DEF Next, FindAndReservePage, Deinit, KernelInit, Allocate, DropOwned,
                  IntoRaw, FromRaw, FreePage, FreeVirtualPage
    <2> QED
      BY <1>3, <2>1, <2>2, <2>3, <2>4, <2>5, SMTT(30) DEF MemoryInv, bootVars
  <1>4. CASE UNCHANGED allVars
    <2>1. UNCHANGED vars /\ UNCHANGED bootVars
      BY <1>4 DEF allVars
    <2>2. BootInv' /\ Boot!Bits' = Boot!Bits
      BY <2>1, BootSame DEF MemoryInv, bootVars, Boot!Bits
    <2>3. stage # "boot" => IInv'
      BY <2>1, NextIInv DEF MemoryInv
    <2> QED
      BY <2>1, <2>2, <2>3 DEF MemoryInv, vars, bootVars
  <1> QED
    BY <1>1, <1>2, <1>3, <1>4 DEF MemoryNext

\* From the first instruction of the entry point on, the counter is exact and
\* every set bit has one holder, with the bitmap that the entry point builds
\* rather than with any that Init allows.
THEOREM MemoryAccounted == MemorySpec => [](FreeCount /\ Ownership)
  <1>1. MemoryInv => FreeCount /\ Ownership
    <2> SUFFICES ASSUME MemoryInv PROVE FreeCount /\ Ownership
      OBVIOUS
    <2>1. CASE stage = "boot"
      <3>1. Bit = Page \cup Padding
        BY NumPagesAssumption, BitmapBitsAssumption DEF Page, Padding, Bit
      <3> QED
        BY <2>1, <3>1 DEF MemoryInv, FreeCount, Ownership, NewAllocator
    <2>2. CASE stage # "boot"
      BY <2>2 DEF MemoryInv, IInv
    <2> QED
      BY <2>1, <2>2
  <1> QED
    BY MemoryInitInv, MemoryNextInv, <1>1, PTL DEF MemorySpec

\* Clients only ever hold pages of usable memory, and never those of the bitmap,
\* and a bitmap that is too short for the memory map is never used.
THEOREM ClientsHoldUsable == MemorySpec => []OnlyUsable
  <1>1. MemoryInv => OnlyUsable
    <2> SUFFICES ASSUME MemoryInv PROVE OnlyUsable
      OBVIOUS
    <2>1. pc = "done" => Boot!FreePages \subseteq Boot!Usable \ Boot!BitmapPages
      BY DEF MemoryInv, BootInv
    <2>2. Boot!OnlyUsableFree
      BY <2>1 DEF Boot!OnlyUsableFree
    <2>3. Boot!UsableHaveBits
      <3> SUFFICES ASSUME pc = "done", NEW b \in Boot!Usable PROVE b \in Boot!Bits
        BY DEF Boot!UsableHaveBits
      <3>1. memory_map \in MemoryMaps /\ next = Len(memory_map) + 1
        BY DEF MemoryInv, BootInv
      <3>2. PICK i \in DOMAIN memory_map : memory_map[i].usable /\ b \in PagesAt(i)
        BY DEF Boot!Usable, Boot!Entries, PagesAt
      <3>3. i \in 1 .. next - 1
        BY <3>1, MapEntries
      <3> QED
        BY <3>2, <3>3 DEF MemoryInv, BootInv
    <2>4. owned \cup raw \subseteq Boot!Usable \ Boot!BitmapPages
      <3>1. CASE stage = "boot"
        BY <3>1 DEF MemoryInv
      <3>2. CASE stage # "boot"
        <4> SUFFICES ASSUME NEW p \in owned \cup raw PROVE p \in Boot!FreePages
          BY <2>1, <3>2 DEF MemoryInv
        <4>1. p \in Page /\ p \notin boot
          BY <3>2 DEF MemoryInv, IInv, TypeOK, Ownership
        <4>2. p \in Bit
          BY <4>1, NumPagesAssumption, BitmapBitsAssumption DEF Page, Bit
        <4> QED
          BY <3>2, <4>1, <4>2 DEF MemoryInv, Boot!FreePages
      <3> QED
        BY <3>1, <3>2
    <2> QED
      BY <2>2, <2>3, <2>4 DEF OnlyUsable
  <1> QED
    BY MemoryInitInv, MemoryNextInv, <1>1, PTL DEF MemorySpec

\* The entry point hands page_allocation::init a bitmap that the proofs about
\* the allocator start from.
THEOREM AllocatorStartsFromMap == MemorySpec => StartsFromMap
  <1>1. MemoryInv /\ [MemoryNext]_allVars => [stage = "boot" /\ stage' = "limine" => Init']_allVars
    <2> SUFFICES ASSUME MemoryInv, MemoryNext, stage = "boot", stage' = "limine" PROVE Init'
      BY SMTT(30)
    <2>1. ~(Next /\ UNCHANGED bootVars)
      BY DEF MemoryInv, Next, FindAndReservePage, Deinit, KernelInit, Allocate, DropOwned,
             IntoRaw, FromRaw, FreePage, FreeVirtualPage, Running
    <2>2. ~BuildBitmap
      BY DEF BuildBitmap, vars
    <2> QED
      BY <2>1, <2>2, AllocatorStarts DEF MemoryNext
  <1> QED
    BY MemoryInitInv, MemoryNextInv, <1>1, PTL DEF MemorySpec, StartsFromMap

\* No page is handed to a second client, from the entry point on: starting the
\* allocator on the bitmap grants nothing either.
THEOREM MemoryGrantedOnce == MemorySpec => NoDoubleGrant
  <1>1. MemoryInv /\ [MemoryNext]_allVars => [GrantsClearBits]_vars
    <2> SUFFICES ASSUME MemoryInv, [MemoryNext]_allVars, ~UNCHANGED vars PROVE GrantsClearBits
      OBVIOUS
    <2>1. CASE InitAllocator
      <3>1. Init' /\ Boot!Bits = Bit
        BY <2>1, AllocatorStarts, SMTT(30)
      <3>2. al'.reserved \subseteq Bit /\ al.reserved = Bit
        <4>1. IInv'
          BY <3>1, InitIInvNext
        <4> QED
          BY <2>1, <4>1 DEF IInv, TypeOK, Allocator, InitAllocator, MemoryInv, NewAllocator
      <3> QED
        BY <2>1, <3>2 DEF InitAllocator, GrantsClearBits
    <2>2. CASE Next /\ UNCHANGED bootVars
      <3>1. stage # "boot"
        BY <2>2 DEF MemoryInv, Next, FindAndReservePage, Deinit, KernelInit, Allocate, DropOwned,
                    IntoRaw, FromRaw, FreePage, FreeVirtualPage, Running
      <3> QED
        BY <2>2, <3>1, StepGrants, SMTT(30) DEF MemoryInv
    <2> QED
      BY <2>1, <2>2 DEF MemoryNext, BuildBitmap, allVars
  <1> QED
    BY MemoryInitInv, MemoryNextInv, <1>1, PTL DEF MemorySpec, NoDoubleGrant
=============================================================================
