-------------------------- MODULE KernelHeapProofs --------------------------
(***************************************************************************)
(* Proofs about KernelHeap for every heap size, header size, page size and *)
(* set of layouts.                                                         *)
(*                                                                         *)
(* The inductive invariant is TypeOK, Tiling, Coalesced and LiveBlocks.    *)
(* Tiling alone is not inductive: dealloc finds the block of a pointer by  *)
(* searching for the range that contains it, so that it frees a used block *)
(* and merges only free ones rests on LiveBlocks.                          *)
(***************************************************************************)
EXTENDS KernelHeap, NaturalsFacts, TLAPS

IInv == TypeOK /\ Tiling /\ Coalesced /\ LiveBlocks

\* The rounding of addresses up to a multiple.
LEMMA NextMultipleBounds ==
  ASSUME NEW x \in Nat, NEW n \in Nat \ {0}
  PROVE  /\ NextMultipleOf(x, n) \in Nat
         /\ x <= NextMultipleOf(x, n)
         /\ NextMultipleOf(x, n) < x + n
  BY DEF NextMultipleOf

\* The first header lies in the heap, with room for memory behind it.
LEMMA FirstBounds ==
  /\ First \in Nat /\ HeapStart <= First /\ First + HeaderSize < HeapEnd
  /\ HeapStart \in Nat /\ HeapEnd \in Nat
  <1>1. HeapStart \in Nat /\ HeaderSize \in Nat \ {0}
    BY HeapAssumption, HeaderAssumption
  <1>2. First \in Nat /\ HeapStart <= First /\ First < HeapStart + HeaderSize
    BY <1>1, NextMultipleBounds DEF First
  <1> QED
    BY <1>1, <1>2, HeapAssumption DEF HeapEnd

\* The types of the addresses that the walks compute.
LEMMA HeaderTypes ==
  ASSUME TypeOK, Tiling, NEW a \in Header
  PROVE  /\ a \in Nat /\ HeapStart <= a /\ a <= HeapEnd
         /\ block[a] \in Block
         /\ block[a].len \in Nat /\ block[a].len > 0
         /\ block[a].used \in BOOLEAN /\ block[a].has_next \in BOOLEAN
         /\ GetNext(a) \in Nat /\ GetNext(a) = MaxAddr(a) + 1
         /\ a + HeaderSize < GetNext(a)
         /\ HeaderSize \in Nat /\ HeaderSize > 0
         /\ HeapStart \in Nat /\ HeapEnd \in Nat
  BY HeapAssumption, HeaderAssumption
  DEF TypeOK, Tiling, Block, GetNext, MaxAddr, StartAddress, HeapEnd

\* No block reaches beyond the end of the heap.
LEMMA NextInHeap ==
  ASSUME TypeOK, Tiling, NEW a \in Header
  PROVE  GetNext(a) <= HeapEnd
  <1>1. CASE block[a].has_next
    BY <1>1, HeaderTypes DEF Tiling
  <1>2. CASE ~block[a].has_next
    BY <1>2, HeaderTypes DEF Tiling
  <1> QED
    BY <1>1, <1>2

\* A pointer is inside at most one block.
LEMMA ContainsUnique ==
  ASSUME TypeOK, Tiling, NEW a \in Header, NEW b \in Header,
         NEW p \in Int, Contains(a, p), Contains(b, p)
  PROVE  a = b
  <1> SUFFICES ASSUME a # b PROVE FALSE
    OBVIOUS
  <1>1. /\ a + HeaderSize <= p /\ p < GetNext(a)
        /\ b + HeaderSize <= p /\ p < GetNext(b)
    <2>1. GetNext(a) = MaxAddr(a) + 1 /\ GetNext(b) = MaxAddr(b) + 1
      BY HeaderTypes
    <2>2. GetNext(a) \in Nat /\ GetNext(b) \in Nat
      BY HeaderTypes
    <2>3. MaxAddr(a) \in Int /\ MaxAddr(b) \in Int
      BY HeaderTypes DEF MaxAddr, StartAddress
    <2> QED
      BY <2>1, <2>2, <2>3 DEF Contains, StartAddress
  <1>2. a < b => GetNext(a) <= b
    BY DEF Tiling
  <1>3. b < a => GetNext(b) <= a
    BY DEF Tiling
  <1> QED
    BY <1>1, <1>2, <1>3, HeaderTypes

\* The addresses that alloc computes for a block that is large enough.
LEMMA FitBounds ==
  ASSUME TypeOK, Tiling, NEW a \in Header, NEW size \in Sizes, NEW align \in Aligns,
         Fits(a, size, align)
  PROVE  /\ size \in Nat /\ size > 0
         /\ StartFor(a, align) \in Nat
         /\ StartAddress(a) = a + HeaderSize
         /\ StartAddress(a) <= StartFor(a, align)
         /\ EndFor(a, size, align) = StartFor(a, align) + (size - 1)
         /\ EndFor(a, size, align) <= MaxAddr(a)
         /\ NewBlockAddr(a, size, align) \in Nat
         /\ EndFor(a, size, align) < NewBlockAddr(a, size, align)
         /\ NewSpaceStart(a, size, align) = NewBlockAddr(a, size, align) + HeaderSize
         /\ block[a].used = FALSE
  <1>1. size \in Nat /\ size > 0 /\ align \in Nat \ {0}
    BY LayoutAssumption
  <1>2. StartAddress(a) \in Nat /\ StartAddress(a) = a + HeaderSize
    BY HeaderTypes DEF StartAddress
  <1>3. StartFor(a, align) \in Nat /\ StartAddress(a) <= StartFor(a, align)
    BY <1>1, <1>2, NextMultipleBounds DEF StartFor
  <1>4. EndFor(a, size, align) \in Nat
    BY <1>1, <1>3 DEF EndFor
  <1>5. EndFor(a, size, align) + 1 \in Nat /\ HeaderSize \in Nat \ {0}
    BY <1>4, HeaderAssumption
  <1>6. /\ NewBlockAddr(a, size, align) \in Nat
        /\ EndFor(a, size, align) + 1 <= NewBlockAddr(a, size, align)
    BY <1>5, NextMultipleBounds, Zenon DEF NewBlockAddr
  <1> QED
    BY <1>1, <1>2, <1>3, <1>4, <1>6, HeaderTypes DEF Fits, EndFor, NewSpaceStart

LEMMA AlignBounds ==
  ASSUME NEW x \in Nat
  PROVE  AlignToPage(x) \in Nat /\ AlignToPage(x) <= x /\ x < AlignToPage(x) + PageSize
  BY PageAssumption DEF AlignToPage

LEMMA PagesForTypes ==
  ASSUME TypeOK, Tiling, NEW a \in Header, NEW size \in Sizes, NEW align \in Aligns,
         Fits(a, size, align)
  PROVE  PagesFor(a, size, align) \subseteq Nat
  <1>1. StartAddress(a) \in Nat /\ EndFor(a, size, align) \in Nat
    <2>1. StartAddress(a) \in Nat
      BY HeaderTypes DEF StartAddress
    <2>2. StartFor(a, align) \in Nat /\ size \in Nat /\ size > 0
      BY FitBounds, Zenon
    <2> QED
      BY <2>1, <2>2 DEF EndFor
  <1>2. AlignToPage(StartAddress(a)) \in Nat /\ AlignToPage(EndFor(a, size, align)) \in Nat
    BY <1>1, AlignBounds
  <1> QED
    BY <1>2 DEF PagesFor

\* Contains in terms of the address of the next header.
LEMMA ContainsNext ==
  ASSUME TypeOK, Tiling, NEW a \in Header, NEW p \in Int
  PROVE  Contains(a, p) <=> (a + HeaderSize <= p /\ p < GetNext(a))
  BY HeaderTypes DEF Contains, MaxAddr, StartAddress, GetNext

\* No allocation lies in a free block.
LEMMA FreeHoldsNone ==
  ASSUME IInv, NEW a \in Header, ~block[a].used, NEW q \in DOMAIN live
  PROVE  ~Contains(a, q)
  <1> SUFFICES ASSUME Contains(a, q) PROVE FALSE
    OBVIOUS
  <1> USE DEF IInv
  <1>1. q \in Int /\ live[q] \in Nat /\ live[q] > 0
    BY HeapAssumption DEF TypeOK, HeapEnd
  <1>2. PICK x \in Header : /\ block[x].used
                            /\ StartAddress(x) <= q /\ q + live[q] <= GetNext(x)
    BY DEF LiveBlocks
  <1>3. Contains(x, q)
    BY <1>1, <1>2, HeaderTypes, ContainsNext DEF StartAddress
  <1>4. x = a
    BY <1>1, <1>3, ContainsUnique
  <1> QED
    BY <1>2, <1>4

\* The header that a split writes is inside the block that it splits.
LEMMA SplitInside ==
  ASSUME TypeOK, Tiling, NEW a \in Header, NEW size \in Sizes, NEW align \in Aligns,
         Fits(a, size, align), NewSpaceStart(a, size, align) < MaxAddr(a)
  PROVE  /\ a < NewBlockAddr(a, size, align)
         /\ NewBlockAddr(a, size, align) < GetNext(a)
         /\ NewBlockAddr(a, size, align) \notin Header
  <1> DEFINE new == NewBlockAddr(a, size, align)
  <1>1. /\ a \in Nat /\ GetNext(a) \in Nat /\ GetNext(a) = MaxAddr(a) + 1
        /\ HeaderSize \in Nat /\ HeaderSize > 0 /\ MaxAddr(a) \in Int
    BY HeaderTypes DEF MaxAddr, StartAddress
  <1>2. /\ size \in Nat /\ size > 0 /\ StartFor(a, align) \in Nat /\ new \in Nat
        /\ a + HeaderSize <= StartFor(a, align)
        /\ StartFor(a, align) + (size - 1) < new
        /\ new + HeaderSize < MaxAddr(a)
    BY FitBounds, Zenon
  <1> HIDE DEF new
  <1>3. a < new /\ new < GetNext(a)
    BY <1>1, <1>2
  <1>4. new \notin Header
    <2> SUFFICES ASSUME new \in Header PROVE FALSE
      OBVIOUS
    <2>1. GetNext(a) <= new
      BY <1>3 DEF Tiling
    <2> QED
      BY <2>1, <1>1, <1>2, <1>3
  <1> QED
    BY <1>3, <1>4 DEF new

\* alloc keeps the invariant when it splits a block.
LEMMA SplitKeeps ==
  ASSUME IInv, NEW a \in Header, NEW size \in Sizes, NEW align \in Aligns,
         AllocSplit(a, size, align)
  PROVE  IInv'
  <1> DEFINE new == NewBlockAddr(a, size, align)
             p == StartFor(a, align)
             lu == new - StartAddress(a)
             lf == MaxAddr(a) - NewSpaceStart(a, size, align) + 1
             used == [len |-> lu, used |-> TRUE, has_next |-> TRUE]
             free == [len |-> lf, used |-> FALSE, has_next |-> block[a].has_next]
  <1> USE DEF IInv
  <1>fit. Fits(a, size, align)
    BY DEF AllocSplit, FirstFit
  <1>h. /\ a \in Nat /\ HeapStart <= a /\ First <= a
        /\ block[a].len \in Nat /\ block[a].len > 0
        /\ block[a].used = FALSE /\ block[a].has_next \in BOOLEAN
        /\ GetNext(a) \in Nat /\ GetNext(a) = MaxAddr(a) + 1 /\ GetNext(a) <= HeapEnd
        /\ HeaderSize \in Nat /\ HeaderSize > 0
        /\ HeapStart \in Nat /\ HeapEnd \in Nat
    BY <1>fit, HeaderTypes, NextInHeap DEF Tiling, Fits
  <1>m. MaxAddr(a) \in Int
    BY <1>h DEF MaxAddr, StartAddress
  <1>b. /\ size \in Nat /\ size > 0 /\ p \in Nat /\ new \in Nat
        /\ StartAddress(a) = a + HeaderSize
        /\ a + HeaderSize <= p /\ p + size <= new
        /\ new + HeaderSize < MaxAddr(a)
        /\ NewSpaceStart(a, size, align) = new + HeaderSize
    <2>1. NewSpaceStart(a, size, align) < MaxAddr(a)
      BY DEF AllocSplit
    <2>2. /\ size \in Nat /\ size > 0 /\ p \in Nat /\ new \in Nat
          /\ StartAddress(a) = a + HeaderSize
          /\ StartAddress(a) <= p
          /\ EndFor(a, size, align) = p + (size - 1)
          /\ EndFor(a, size, align) < new
          /\ NewSpaceStart(a, size, align) = new + HeaderSize
      BY <1>fit, FitBounds, Zenon
    <2> QED
      BY <2>1, <2>2, <1>h, <1>m
  <1>l. /\ lu \in Nat /\ lu > 0 /\ lf \in Nat /\ lf > 0
        /\ a + HeaderSize + lu = new
        /\ new + HeaderSize + lf = GetNext(a)
        /\ a < new /\ new < GetNext(a)
    BY <1>b, <1>h, <1>m
  <1>n. new \notin Header
    BY <1>fit, SplitInside DEF AllocSplit
  <1>blk. /\ Header' = Header \cup {new}
          /\ block' = [x \in Header \cup {new} |->
                         IF x = new THEN free ELSE IF x = a THEN used ELSE block[x]]
    <2>1. block' = Extend([block EXCEPT ![a] = used], new, free)
      BY DEF AllocSplit
    <2>2. block = [x \in Header |-> block[x]]
      BY DEF TypeOK
    <2>3. block' = [x \in Header \cup {new} |->
                     IF x = new THEN free ELSE IF x = a THEN used ELSE block[x]]
      BY <2>1, <2>2 DEF Extend, Header
    <2> QED
      BY <2>3 DEF Header
  <1>liv. /\ DOMAIN live' = DOMAIN live \cup {p}
          /\ live'[p] = size
          /\ \A q \in DOMAIN live : q # p => live'[q] = live[q]
          /\ live' = [q \in DOMAIN live \cup {p} |-> IF q = p THEN size ELSE live[q]]
    BY DEF AllocSplit, Extend
  <1>u. used \in Block /\ free \in Block
    BY <1>l, <1>h DEF Block
  <1>nx. /\ block'[a] = used /\ block'[new] = free
         /\ \A x \in Header : x # a => block'[x] = block[x]
         /\ GetNext(a)' = new
         /\ GetNext(new)' = GetNext(a)
         /\ \A x \in Header : x # a => GetNext(x)' = GetNext(x)
    <2>1. /\ block'[a] = used /\ block'[new] = free
          /\ \A x \in Header : x # a => block'[x] = block[x]
      BY <1>blk, <1>n
    <2>2. /\ used.len = lu /\ free.len = lf
      OBVIOUS
    <2> HIDE DEF used, free, lu, lf, new
    <2> QED
      BY <2>1, <2>2, <1>l DEF GetNext
  <1>fl. /\ used.used = TRUE /\ free.used = FALSE /\ used.has_next = TRUE
         /\ free.has_next = block[a].has_next /\ used.len = lu /\ free.len = lf
    OBVIOUS
  <1> HIDE DEF new, p, lu, lf, used, free
  <1>1. TypeOK'
    <2>1. new \in HeapStart .. HeapEnd /\ p \in HeapStart .. HeapEnd
      BY <1>h, <1>l, <1>b, <1>m
    <2>2. Header' \subseteq HeapStart .. HeapEnd
      BY <2>1, <1>blk DEF TypeOK
    <2>3. block' \in [Header' -> Block]
      BY <1>blk, <1>u DEF TypeOK
    <2>4. mapped' \subseteq Nat
      <3>1. AlignToPage(new) \in Nat
        BY <1>b, AlignBounds
      <3>2. PagesFor(a, size, align) \subseteq Nat
        BY <1>fit, PagesForTypes
      <3> QED
        BY <3>1, <3>2 DEF TypeOK, AllocSplit, new
    <2>5. /\ DOMAIN live' \subseteq HeapStart .. HeapEnd
          /\ live' \in [DOMAIN live' -> Nat \ {0}]
      BY <2>1, <1>liv, <1>b DEF TypeOK
    <2>6. lost' \subseteq Header' /\ stopped' \in BOOLEAN
      BY <1>blk DEF TypeOK, AllocSplit
    <2> QED
      BY <2>2, <2>3, <2>4, <2>5, <2>6 DEF TypeOK
  <1>2. Tiling'
    <2>1. First \in Header'
      BY <1>blk DEF Tiling
    <2>2. ASSUME NEW x \in Header'
          PROVE  /\ First <= x /\ block'[x].len > 0
                 /\ IF block'[x].has_next THEN GetNext(x)' \in Header' ELSE GetNext(x)' = HeapEnd
      <3>1. CASE x = a
        BY <3>1, <1>h, <1>l, <1>fl, <1>nx, <1>blk
      <3>2. CASE x = new
        <4>1. First <= x /\ block'[x].len > 0
          BY <3>2, <1>h, <1>l, <1>b, <1>fl, <1>nx, FirstBounds
        <4>2. IF block[a].has_next THEN GetNext(a) \in Header ELSE GetNext(a) = HeapEnd
          BY DEF Tiling
        <4> QED
          BY <4>1, <4>2, <3>2, <1>fl, <1>nx, <1>blk
      <3>3. CASE x \in Header /\ x # a
        BY <3>3, <1>nx, <1>blk DEF Tiling
      <3> QED
        BY <3>1, <3>2, <3>3, <1>blk
    <2>3. ASSUME NEW x \in Header', NEW y \in Header', x < y
          PROVE  GetNext(x)' <= y
      <3>0. \A z \in Header : z \in Nat /\ GetNext(z) \in Nat /\ z < GetNext(z)
        BY HeaderTypes
      <3>1. CASE x = a
        <4>1. y \in Header => GetNext(a) <= y
          BY <2>3, <3>1 DEF Tiling
        <4>2. y \in Nat
          BY <3>0, <1>b, <1>blk
        <4>3. y \in Header => new <= y
          BY <4>1, <4>2, <1>l, <1>b, <1>h
        <4> QED
          BY <4>2, <4>3, <3>1, <1>nx, <1>b, <1>blk
      <3>2. CASE x = new
        <4>1. y \in Header
          BY <3>2, <2>3, <1>blk, <1>b
        <4>2. a < y
          <5>1. y \in Nat
            BY <4>1, <3>0
          <5> QED
            BY <5>1, <3>2, <1>l, <1>b, <1>h, <2>3
        <4> QED
          BY <4>1, <4>2, <3>2, <1>nx DEF Tiling
      <3>3. CASE x \in Header /\ x # a
        <4>1. CASE y \in Header
          BY <4>1, <3>3, <2>3, <1>nx DEF Tiling
        <4>2. CASE y = new
          <5>1. ~(a < x)
            <6> SUFFICES ASSUME a < x PROVE FALSE
              OBVIOUS
            <6>1. GetNext(a) <= x
              BY <3>3 DEF Tiling
            <6> QED
              BY <6>1, <4>2, <3>0, <3>3, <2>3, <1>l, <1>b, <1>h
          <5>2. x < a
            <6>1. x \in Nat
              BY <3>0, <3>3
            <6> QED
              BY <6>1, <5>1, <3>3, <1>h
          <5>3. GetNext(x) <= a
            BY <5>2, <3>3 DEF Tiling
          <5> QED
            BY <5>3, <4>2, <3>0, <3>3, <1>nx, <1>l, <1>b, <1>h
        <4> QED
          BY <4>1, <4>2, <1>blk
      <3> QED
        BY <3>1, <3>2, <3>3, <1>blk
    <2> QED
      BY <2>1, <2>2, <2>3 DEF Tiling, First, HeapEnd
  <1>3. Coalesced'
    <2> SUFFICES ASSUME NEW x \in Header', ~block'[x].used, block'[x].has_next
                 PROVE  block'[GetNext(x)'].used
      BY DEF Coalesced, GetNext
    <2>1. x # a
      BY <1>nx, <1>fl
    <2>2. CASE x = new
      <3>1. GetNext(a) \in Header /\ block[GetNext(a)].used
        BY <2>2, <1>nx, <1>fl, <1>h DEF Coalesced, Tiling
      <3> QED
        BY <3>1, <2>2, <1>nx, <1>h
    <2>3. CASE x \in Header
      <3>1. GetNext(x) \in Header /\ block[GetNext(x)].used
        BY <2>1, <2>3, <1>nx DEF Coalesced, Tiling
      <3> QED
        BY <3>1, <2>1, <2>3, <1>nx, <1>h, Zenon
    <2> QED
      BY <2>2, <2>3, <1>blk
  <1>4. LiveBlocks'
    <2>c. \A x \in Header', q \in DOMAIN live' :
            Contains(x, q)' <=> (x + HeaderSize <= q /\ q < GetNext(x)')
      <3> TAKE x \in Header', q \in DOMAIN live'
      <3>1. x \in Int /\ q \in Int /\ block'[x].len \in Nat
        BY <1>1, <1>h DEF TypeOK, Block
      <3> QED
        BY <3>1, <1>h DEF Contains, MaxAddr, StartAddress, GetNext
    <2>t. \A q \in DOMAIN live : q \in Int /\ live[q] \in Nat
      BY <1>h DEF TypeOK
    <2>a. Contains(a, p)
      BY <1>b, <1>l, <1>h, ContainsNext
    <2>o. \A q \in DOMAIN live : ~Contains(a, q)
      BY <1>h, FreeHoldsNone
    <2>1. ASSUME NEW q \in DOMAIN live'
          PROVE  \E x \in Header' : /\ block'[x].used
                                    /\ StartAddress(x) <= q /\ q + live'[q] <= GetNext(x)'
      <3>1. CASE q = p
        BY <3>1, <1>b, <1>nx, <1>fl, <1>blk, <1>liv
      <3>2. CASE q # p
        <4>1. PICK x \in Header : /\ block[x].used
                                  /\ StartAddress(x) <= q /\ q + live[q] <= GetNext(x)
          BY <3>2, <1>liv DEF LiveBlocks
        <4>2. x # a
          BY <4>1, <1>h
        <4> QED
          BY <4>1, <4>2, <3>2, <1>nx, <1>blk, <1>liv
      <3> QED
        BY <3>1, <3>2
    <2>2. ASSUME NEW x \in Header', block'[x].used
          PROVE  \E q \in DOMAIN live' : Contains(x, q)'
      <3>1. CASE x = a
        <4>1. p \in DOMAIN live' /\ x + HeaderSize <= p /\ p < GetNext(x)'
          BY <3>1, <1>b, <1>nx, <1>liv
        <4> QED
          BY <4>1, <2>c
      <3>2. CASE x \in Header /\ x # a
        <4>1. PICK q \in DOMAIN live : Contains(x, q)
          BY <3>2, <2>2, <1>nx DEF LiveBlocks
        <4>2. x + HeaderSize <= q /\ q < GetNext(x)'
          BY <4>1, <3>2, <2>t, <1>nx, ContainsNext
        <4> QED
          BY <4>2, <2>c, <1>liv
      <3>3. x # new
        BY <2>2, <1>nx, <1>fl
      <3> QED
        BY <3>1, <3>2, <3>3, <1>blk
    <2>3. ASSUME NEW x \in Header', NEW q \in DOMAIN live', NEW r \in DOMAIN live',
                 Contains(x, q)', Contains(x, r)'
          PROVE  q = r
      <3>1. CASE x = a \/ x = new
        <4>1. \A z \in DOMAIN live : ~Contains(x, z)'
          <5> SUFFICES ASSUME NEW z \in DOMAIN live, Contains(x, z)' PROVE FALSE
            OBVIOUS
          <5>1. a + HeaderSize <= z /\ z < GetNext(a)
            BY <3>1, <2>c, <2>t, <1>nx, <1>l, <1>b, <1>h, <1>liv
          <5> QED
            BY <5>1, <2>t, <2>o, ContainsNext
        <4> QED
          BY <4>1, <2>3, <1>liv
      <3>2. CASE x \in Header /\ x # a
        <4>1. \A z \in DOMAIN live' : Contains(x, z)' => z # p /\ Contains(x, z)
          <5> SUFFICES ASSUME NEW z \in DOMAIN live', Contains(x, z)'
                       PROVE  z # p /\ Contains(x, z)
            OBVIOUS
          <5>1. z \in Int
            BY <1>1, <1>h DEF TypeOK
          <5>2. Contains(x, z)
            BY <5>1, <3>2, <2>c, <1>nx, ContainsNext
          <5> QED
            BY <5>1, <5>2, <3>2, <2>a, ContainsUnique
        <4> QED
          BY <4>1, <3>2, <2>3, <1>liv DEF LiveBlocks
      <3> QED
        BY <3>1, <3>2, <1>blk
    <2> QED
      BY <2>1, <2>2, <2>3 DEF LiveBlocks, StartAddress
  <1> QED
    BY <1>1, <1>2, <1>3, <1>4

\* alloc keeps the invariant when it hands out a whole block.
LEMMA WholeKeeps ==
  ASSUME IInv, NEW a \in Header, NEW size \in Sizes, NEW align \in Aligns,
         AllocWhole(a, size, align)
  PROVE  IInv'
  <1> DEFINE p == StartFor(a, align)
  <1> USE DEF IInv
  <1>fit. Fits(a, size, align)
    BY DEF AllocWhole, FirstFit
  <1>h. /\ a \in Nat /\ HeapStart <= a /\ block[a].used = FALSE
        /\ GetNext(a) \in Nat /\ GetNext(a) = MaxAddr(a) + 1 /\ GetNext(a) <= HeapEnd
        /\ HeaderSize \in Nat /\ HeapStart \in Nat /\ HeapEnd \in Nat
        /\ block[a] \in Block
    BY <1>fit, HeaderTypes, NextInHeap DEF Fits
  <1>m. MaxAddr(a) \in Int
    BY HeaderTypes DEF MaxAddr, StartAddress
  <1>b. /\ size \in Nat /\ size > 0 /\ p \in Nat
        /\ StartAddress(a) = a + HeaderSize
        /\ a + HeaderSize <= p /\ p + size <= GetNext(a)
    <2>1. /\ size \in Nat /\ size > 0 /\ p \in Nat
          /\ StartAddress(a) = a + HeaderSize
          /\ StartAddress(a) <= p
          /\ EndFor(a, size, align) = p + (size - 1)
          /\ EndFor(a, size, align) <= MaxAddr(a)
      BY <1>fit, FitBounds, Zenon
    <2> QED
      BY <2>1, <1>h, <1>m
  <1>blk. /\ Header' = Header
          /\ block' \in [Header -> Block]
          /\ block'[a].used = TRUE
          /\ \A x \in Header : x # a => block'[x] = block[x]
          /\ \A x \in Header : /\ block'[x].len = block[x].len
                               /\ block'[x].has_next = block[x].has_next
    <2>1. block' = [block EXCEPT ![a].used = TRUE]
      BY DEF AllocWhole
    <2>2. block \in [Header -> Block]
      BY DEF TypeOK
    <2> QED
      BY <2>1, <2>2, <1>h, Zenon DEF Header, Block
  <1>liv. /\ DOMAIN live' = DOMAIN live \cup {p}
          /\ live'[p] = size
          /\ \A q \in DOMAIN live : q # p => live'[q] = live[q]
          /\ live' = [q \in DOMAIN live \cup {p} |-> IF q = p THEN size ELSE live[q]]
    BY DEF AllocWhole, Extend
  <1>nx. /\ \A x \in Header : GetNext(x)' = GetNext(x)
         /\ \A x \in Header, q \in DOMAIN live' : Contains(x, q)' <=> Contains(x, q)
    BY <1>blk DEF GetNext, Contains, MaxAddr, StartAddress
  <1>pages. PagesFor(a, size, align) \subseteq Nat
    BY <1>fit, PagesForTypes
  <1>map. mapped' = mapped \cup PagesFor(a, size, align) /\ lost' = lost /\ stopped' = stopped
    BY DEF AllocWhole
  <1> HIDE DEF p
  <1>1. TypeOK'
    <2>1. p \in HeapStart .. HeapEnd
      BY <1>b, <1>h
    <2>2. /\ DOMAIN live' \subseteq HeapStart .. HeapEnd
          /\ live' \in [DOMAIN live' -> Nat \ {0}]
      BY <2>1, <1>liv, <1>b DEF TypeOK
    <2> QED
      BY <2>2, <1>blk, <1>pages, <1>map DEF TypeOK
  <1>2. Tiling'
    BY <1>blk, <1>nx DEF Tiling
  <1>3. Coalesced'
    <2> SUFFICES ASSUME NEW x \in Header, ~block'[x].used, block'[x].has_next
                 PROVE  block'[GetNext(x)].used
      BY <1>blk, <1>nx DEF Coalesced
    <2>1. GetNext(x) \in Header /\ block[GetNext(x)].used
      BY <1>blk DEF Coalesced, Tiling
    <2> QED
      BY <2>1, <1>blk
  <1>4. LiveBlocks'
    <2>t. \A q \in DOMAIN live' : q \in Int
      BY <1>1, <1>h DEF TypeOK
    <2>a. Contains(a, p)
      BY <1>b, <1>h, ContainsNext
    <2>o. \A q \in DOMAIN live : ~Contains(a, q)
      BY <1>h, FreeHoldsNone
    <2>1. ASSUME NEW q \in DOMAIN live'
          PROVE  \E x \in Header' : /\ block'[x].used
                                    /\ StartAddress(x) <= q /\ q + live'[q] <= GetNext(x)'
      <3>1. CASE q = p
        BY <3>1, <1>b, <1>nx, <1>blk, <1>liv
      <3>2. CASE q # p
        <4>1. PICK x \in Header : /\ block[x].used
                                  /\ StartAddress(x) <= q /\ q + live[q] <= GetNext(x)
          BY <3>2, <1>liv DEF LiveBlocks
        <4> QED
          BY <4>1, <3>2, <1>h, <1>nx, <1>blk, <1>liv
      <3> QED
        BY <3>1, <3>2
    <2>2. ASSUME NEW x \in Header', block'[x].used
          PROVE  \E q \in DOMAIN live' : Contains(x, q)'
      <3>1. CASE x = a
        BY <3>1, <2>a, <1>nx, <1>liv
      <3>2. CASE x # a
        BY <3>2, <2>2, <1>nx, <1>blk, <1>liv DEF LiveBlocks
      <3> QED
        BY <3>1, <3>2
    <2>3. ASSUME NEW x \in Header', NEW q \in DOMAIN live', NEW r \in DOMAIN live',
                 Contains(x, q)', Contains(x, r)'
          PROVE  q = r
      <3>0. x \in Header /\ Contains(x, q) /\ Contains(x, r)
        BY <2>3, <1>nx, <1>blk
      <3>1. CASE x = a
        BY <3>0, <3>1, <2>o, <1>liv
      <3>2. CASE x # a
        BY <3>0, <3>2, <2>a, <2>t, <1>b, <1>liv, ContainsUnique DEF LiveBlocks
      <3> QED
        BY <3>1, <3>2
    <2> QED
      BY <2>1, <2>2, <2>3 DEF LiveBlocks, StartAddress
  <1> QED
    BY <1>1, <1>2, <1>3, <1>4

\* What dealloc makes of the list when it frees the block at a: the free
\* blocks next to it (G, with a unless h = a) vanish into the block at h, which
\* now reaches to E.
MergeShape(a, h, G, E, hn) ==
  /\ h \in Header \ G
  /\ a \in G \cup {h}
  /\ E \in Nat /\ h + HeaderSize < E /\ E <= HeapEnd
  /\ \A x \in Header : x \in G <=> (h < x /\ x < E)
  /\ \A x \in (G \cup {h}) \ {a} : ~block[x].used
  /\ IF hn THEN E \in Header /\ block[E].used ELSE E = HeapEnd
  /\ \A x \in Header \ (G \cup {h}) :
       ~block[x].used /\ block[x].has_next => GetNext(x) \notin G \cup {h}
  /\ Header' = Header \ G
  /\ block' = [x \in Header \ G |->
                 IF x = h THEN [len |-> E - h - HeaderSize, used |-> FALSE, has_next |-> hn]
                 ELSE block[x]]

\* The header before a, if there is one, is the one whose next is a.
LEMMA PreviousIsAdjacent ==
  ASSUME TypeOK, Tiling, NEW a \in Header, NEW b \in Header
  PROVE  b \in Previous(a) <=> GetNext(b) = a
  <1>0. \A z \in Header : z \in Nat /\ GetNext(z) \in Nat /\ z < GetNext(z)
    BY HeaderTypes
  <1>1. ASSUME b \in Previous(a) PROVE GetNext(b) = a
    <2>1. b < a /\ \A c \in Header : c < a => c <= b
      BY <1>1 DEF Previous
    <2>2. GetNext(b) <= a
      BY <2>1 DEF Tiling
    <2>3. GetNext(b) \in Header
      <3> SUFFICES ASSUME ~block[b].has_next PROVE FALSE
        BY DEF Tiling
      <3>1. GetNext(b) = HeapEnd
        BY DEF Tiling
      <3>2. GetNext(a) <= HeapEnd
        BY NextInHeap
      <3> QED
        BY <3>1, <3>2, <2>2, <1>0, FirstBounds
    <2>4. ~(GetNext(b) < a)
      BY <2>1, <2>3, <1>0
    <2> QED
      BY <2>2, <2>4, <1>0
  <1>2. ASSUME GetNext(b) = a PROVE b \in Previous(a)
    <2>1. b < a
      BY <1>2, <1>0
    <2>2. ASSUME NEW c \in Header, c < a PROVE c <= b
      <3> SUFFICES ASSUME b < c PROVE FALSE
        BY <1>0
      <3>1. GetNext(b) <= c
        BY DEF Tiling
      <3> QED
        BY <3>1, <2>2, <1>2, <1>0
    <2> QED
      BY <2>1, <2>2 DEF Previous
  <1> QED
    BY <1>1, <1>2

\* No header lies strictly between a header and the next.
LEMMA NoneBetween ==
  ASSUME TypeOK, Tiling, NEW a \in Header, NEW x \in Header
  PROVE  ~(a < x /\ x < GetNext(a))
  <1> SUFFICES ASSUME a < x, x < GetNext(a) PROVE FALSE
    OBVIOUS
  <1>1. GetNext(a) <= x
    BY DEF Tiling
  <1> QED
    BY <1>1, HeaderTypes

\* dealloc merges the freed block with the free blocks on both sides.
LEMMA DeallocMerges ==
  ASSUME IInv, NEW a \in Header, NEW ptr \in DOMAIN live, Dealloc(a, ptr)
  PROVE  \E h \in Header, G \in SUBSET Header, E \in Nat, hn \in BOOLEAN :
           MergeShape(a, h, G, E, hn)
  <1> USE DEF IInv
  <1> DEFINE n == GetNext(a)
             fwd == MergesForward(a)
             gone == IF fwd THEN {n} ELSE {}
             hn == IF fwd THEN block[n].has_next ELSE block[a].has_next
             E == IF fwd THEN GetNext(n) ELSE n
  <1>0. \A z \in Header : /\ z \in Nat /\ GetNext(z) \in Nat /\ z + HeaderSize < GetNext(z)
                          /\ GetNext(z) <= HeapEnd
                          /\ block[z].len \in Nat /\ block[z].has_next \in BOOLEAN
                          /\ GetNext(z) = z + HeaderSize + block[z].len
    BY HeaderTypes, NextInHeap DEF GetNext
  <1>1. HeaderSize \in Nat /\ HeapEnd \in Nat
    BY HeaderTypes
  <1>2. fwd => n \in Header /\ ~block[n].used
    BY DEF MergesForward, Tiling
  <1>3. /\ E \in Nat /\ a + HeaderSize < E /\ E <= HeapEnd
        /\ hn \in BOOLEAN /\ gone \in SUBSET Header /\ a \notin gone
        /\ \A x \in gone : ~block[x].used
    BY <1>0, <1>1, <1>2
  <1>4. \A x \in Header : x \in gone <=> (a < x /\ x < E)
    <2> TAKE x \in Header
    <2>1. CASE fwd
      <3>1. ~(a < x /\ x < n) /\ ~(n < x /\ x < GetNext(n))
        BY <2>1, <1>2, NoneBetween
      <3> QED
        BY <3>1, <2>1, <1>0, <1>1, <1>2
    <2>2. CASE ~fwd
      BY <2>2, NoneBetween
    <2> QED
      BY <2>1, <2>2
  <1>5. IF hn THEN E \in Header /\ block[E].used ELSE E = HeapEnd
    <2>1. CASE fwd
      BY <2>1, <1>2 DEF Tiling, Coalesced
    <2>2. CASE ~fwd
      BY <2>2 DEF Tiling, MergesForward
    <2> QED
      BY <2>1, <2>2, SMTT(30)
  <1>6. Merged(a) = [len |-> E - a - HeaderSize, used |-> FALSE, has_next |-> hn]
    <2>1. CASE fwd
      <3>1. E - a - HeaderSize = block[a].len + HeaderSize + block[n].len
        BY <2>1, <1>0, <1>1, <1>2
      <3> QED
        BY <3>1, <2>1, Zenon DEF Merged
    <2>2. CASE ~fwd
      <3>1. E - a - HeaderSize = block[a].len
        BY <2>2, <1>0, <1>1
      <3>2. block[a] \in Block
        BY HeaderTypes
      <3> QED
        BY <3>1, <3>2, <2>2, Zenon DEF Merged, Block
    <2> QED
      BY <2>1, <2>2
  <1>7. \A x \in Header : x \in Previous(a) <=> GetNext(x) = a
    BY PreviousIsAdjacent
  <1>8. ASSUME NEW x \in Header, ~block[x].used, block[x].has_next
        PROVE  GetNext(x) \notin gone
    BY <1>3, <1>8 DEF Coalesced
  <1>9. CASE ~MergesBackward(a)
    <2>1. block' = [x \in Header \ gone |-> IF x = a THEN Merged(a) ELSE block[x]]
      BY <1>9 DEF Dealloc
    <2>2. Header' = Header \ gone
      BY <2>1 DEF Header
    <2>3. \A x \in Header : ~block[x].used => GetNext(x) # a
      BY <1>9, <1>7 DEF MergesBackward
    <2>4. MergeShape(a, a, gone, E, hn)
      <3> HIDE DEF gone, E, hn
      <3> QED
        BY <2>1, <2>2, <2>3, <1>3, <1>4, <1>5, <1>6, <1>8, SMTT(30) DEF MergeShape
    <2> QED
      BY <2>4, <1>3
  <1>10. CASE MergesBackward(a)
    <2>1. PICK b \in Previous(a) : ~block[b].used
      BY <1>10 DEF MergesBackward
    <2>2. b \in Header /\ b < a /\ GetNext(b) = a
      BY <1>7 DEF Previous
    <2>3. \A x \in Header : x \in Previous(a) <=> x = b
      <3> TAKE x \in Header
      <3>1. x \in Previous(a) => x = b
        BY <2>2, <1>0 DEF Previous
      <3> QED
        BY <3>1
    <2>4. E - b - HeaderSize = block[b].len + HeaderSize + (E - a - HeaderSize)
      <3>1. a = b + HeaderSize + block[b].len
        BY <2>2, <1>0
      <3> HIDE DEF E
      <3> QED
        BY <3>1, <2>2, <1>0, <1>1, <1>3
    <2> DEFINE G == gone \cup {a}
               whole == [len |-> E - b - HeaderSize, used |-> FALSE, has_next |-> hn]
    <2>5. block' = [x \in Header \ G |-> IF x = b THEN whole ELSE block[x]]
      <3>1. block' = [x \in Header \ G |->
                        IF x \in Previous(a)
                        THEN [len      |-> block[x].len + HeaderSize + Merged(a).len,
                              used     |-> FALSE,
                              has_next |-> Merged(a).has_next]
                        ELSE block[x]]
        BY <1>10 DEF Dealloc
      <3>2. Merged(a).len = E - a - HeaderSize /\ Merged(a).has_next = hn
        BY <1>6, SMTT(30)
      <3> HIDE DEF E, hn, gone
      <3> QED
        BY <3>1, <3>2, <2>3, <2>4, Zenon
    <2>6. Header' = Header \ G
      BY <2>5 DEF Header
    <2>7. \A x \in Header : x \in G <=> (b < x /\ x < E)
      <3> TAKE x \in Header
      <3>1. ~(b < x /\ x < a)
        BY <2>2, NoneBetween
      <3> HIDE DEF E, gone
      <3>2. x \in gone <=> (a < x /\ x < E)
        BY <1>4
      <3>3. x \in Nat /\ a \in Nat /\ b \in Nat
        BY <2>2, <1>0
      <3> QED
        BY <3>1, <3>2, <3>3, <2>2, <1>1, <1>3
    <2>8. b \in Header \ G
      BY <2>2, <2>7, <1>0
    <2>9. b + HeaderSize < E
      <3> HIDE DEF E
      <3> QED
        BY <2>2, <1>0, <1>1, <1>3
    <2>10. ASSUME NEW x \in Header \ (G \cup {b}), ~block[x].used, block[x].has_next
           PROVE  GetNext(x) \notin G \cup {b}
      <3>1. GetNext(x) \notin gone
        BY <2>10, <1>8
      <3>2. GetNext(x) # a
        BY <2>10, <2>3, <1>7
      <3>3. GetNext(x) # b
        BY <2>10, <2>1, SMTT(30) DEF Coalesced
      <3> QED
        BY <3>1, <3>2, <3>3
    <2>11. MergeShape(a, b, G, E, hn)
      <3>1. \A x \in (G \cup {b}) \ {a} : ~block[x].used
        BY <2>1, <1>3
      <3>2. a \in G \cup {b}
        OBVIOUS
      <3> HIDE DEF G, E, hn, gone
      <3> QED
        BY <3>1, <3>2, <2>5, <2>6, <2>7, <2>8, <2>9, <2>10, <1>3, <1>5, SMTT(30) DEF MergeShape
    <2>12. G \in SUBSET Header
      BY <1>3
    <2> QED
      BY <2>11, <2>12, <2>2, <1>3
  <1> QED
    BY <1>9, <1>10

\* dealloc keeps the invariant.
LEMMA DeallocKeeps ==
  ASSUME IInv, NEW a \in Header, NEW ptr \in DOMAIN live, Dealloc(a, ptr)
  PROVE  IInv'
  <1> USE DEF IInv
  <1>s. PICK h \in Header, G \in SUBSET Header, E \in Nat, hn \in BOOLEAN :
          MergeShape(a, h, G, E, hn)
    BY DeallocMerges
  <1>0. \A z \in Header : /\ z \in Nat /\ GetNext(z) \in Nat /\ z + HeaderSize < GetNext(z)
                          /\ GetNext(z) <= HeapEnd /\ First <= z
    BY HeaderTypes, NextInHeap DEF Tiling
  <1>1. HeaderSize \in Nat /\ HeapEnd \in Nat /\ HeapStart \in Nat
    BY HeaderTypes, SMTT(30)
  <1>2. /\ h \in Header \ G /\ a \in G \cup {h}
        /\ h + HeaderSize < E /\ E <= HeapEnd
        /\ \A x \in Header : x \in G <=> (h < x /\ x < E)
        /\ \A x \in (G \cup {h}) \ {a} : ~block[x].used
        /\ IF hn THEN E \in Header /\ block[E].used ELSE E = HeapEnd
        /\ \A x \in Header \ (G \cup {h}) :
             ~block[x].used /\ block[x].has_next => GetNext(x) \notin G \cup {h}
        /\ Header' = Header \ G
    BY <1>s DEF MergeShape
  <1>3. /\ block'[h].len = E - h - HeaderSize
        /\ block'[h].used = FALSE /\ block'[h].has_next = hn
        /\ \A x \in Header \ G : x # h => block'[x] = block[x]
        /\ block' \in [Header \ G -> Block]
    <2> DEFINE m == [len |-> E - h - HeaderSize, used |-> FALSE, has_next |-> hn]
    <2>1. block' = [x \in Header \ G |-> IF x = h THEN m ELSE block[x]]
      BY <1>s DEF MergeShape
    <2>2. E - h - HeaderSize \in Nat
      BY <1>0, <1>1, <1>2
    <2>3. m \in Block
      BY <2>2 DEF Block
    <2>4. \A x \in Header : block[x] \in Block
      BY DEF TypeOK
    <2>5. block'[h] = m
      BY <2>1, <1>2, SMTT(30)
    <2> QED
      BY <2>1, <2>3, <2>4, <2>5, SMTT(30)
  <1>4. /\ GetNext(h)' = E
        /\ \A x \in Header \ G : x # h => GetNext(x)' = GetNext(x)
    BY <1>0, <1>1, <1>2, <1>3 DEF GetNext
  <1>5. /\ DOMAIN live' = DOMAIN live \ {ptr}
        /\ \A q \in DOMAIN live' : live'[q] = live[q]
        /\ live' = [q \in DOMAIN live \ {ptr} |-> live[q]]
        /\ Contains(a, ptr)
        /\ mapped' \subseteq mapped /\ lost' \subseteq Header' /\ stopped' = stopped
    BY DEF Dealloc, Without, Holder
  <1>6. TypeOK'
    <2>1. live' \in [DOMAIN live' -> Nat \ {0}]
      BY <1>5, SMTT(30) DEF TypeOK
    <2> QED
      BY <2>1, <1>2, <1>3, <1>5 DEF TypeOK
  <1>7. Tiling'
    <2>1. First \in Header'
      <3>1. First \in Header /\ First <= h
        BY <1>0, <1>2 DEF Tiling
      <3>2. ~(h < First)
        BY <3>1, <1>0, <1>2, FirstBounds
      <3> QED
        BY <3>1, <3>2, <1>2
    <2>2. ASSUME NEW x \in Header'
          PROVE  /\ First <= x /\ block'[x].len > 0
                 /\ IF block'[x].has_next THEN GetNext(x)' \in Header' ELSE GetNext(x)' = HeapEnd
      <3>1. CASE x = h
        <4>1. block'[x].len > 0
          BY <3>1, <1>0, <1>1, <1>2, <1>3
        <4>2. hn => E \in Header'
          BY <1>0, <1>2
        <4> QED
          BY <4>1, <4>2, <3>1, <1>0, <1>2, <1>3, <1>4
      <3>2. CASE x # h
        <4>1. x \in Header \ G /\ block'[x] = block[x] /\ GetNext(x)' = GetNext(x)
          BY <3>2, <1>2, <1>3, <1>4
        <4>2. /\ First <= x /\ block[x].len > 0
              /\ IF block[x].has_next THEN GetNext(x) \in Header ELSE GetNext(x) = HeapEnd
          BY <4>1 DEF Tiling
        <4>3. GetNext(x) \notin G
          <5> SUFFICES ASSUME GetNext(x) \in G PROVE FALSE
            OBVIOUS
          <5>1. h < GetNext(x) /\ GetNext(x) < E
            BY <1>2
          <5>2. ~(x < h)
            <6> SUFFICES ASSUME x < h PROVE FALSE
              OBVIOUS
            <6>1. GetNext(x) <= h
              BY <4>1, <1>2 DEF Tiling
            <6> QED
              BY <6>1, <5>1, <4>1, <1>0, <1>2
          <5>3. h < x
            BY <5>2, <4>1, <3>2, <1>0, <1>2
          <5>4. x < E
            BY <5>1, <4>1, <1>0, <1>1
          <5> QED
            BY <5>3, <5>4, <4>1, <1>2
        <4> QED
          BY <4>1, <4>2, <4>3, <1>2, SMTT(30)
      <3> QED
        BY <3>1, <3>2, SMTT(30)
    <2>3. ASSUME NEW x \in Header', NEW y \in Header', x < y
          PROVE  GetNext(x)' <= y
      <3>1. CASE x = h
        <4>1. ~(y < E)
          BY <3>1, <2>3, <1>2
        <4> QED
          BY <4>1, <3>1, <1>0, <1>2, <1>4
      <3>2. CASE x # h
        BY <3>2, <2>3, <1>2, <1>4 DEF Tiling
      <3> QED
        BY <3>1, <3>2
    <2> QED
      BY <2>1, <2>2, <2>3 DEF Tiling, First, HeapEnd
  <1>8. Coalesced'
    <2> SUFFICES ASSUME NEW x \in Header', ~block'[x].used, block'[x].has_next
                 PROVE  block'[GetNext(x)'].used
      BY DEF Coalesced, GetNext
    <2>1. CASE x = h
      <3>1. E \in Header \ G /\ E # h /\ block[E].used
        BY <2>1, <1>0, <1>1, <1>2, <1>3, SMTT(30)
      <3> QED
        BY <3>1, <2>1, <1>3, <1>4, SMTT(30)
    <2>2. CASE x # h
      <3>1. x \in Header \ (G \cup {h}) /\ block'[x] = block[x] /\ GetNext(x)' = GetNext(x)
        BY <2>2, <1>2, <1>3, <1>4
      <3>2. GetNext(x) \in Header /\ block[GetNext(x)].used
        BY <3>1 DEF Coalesced, Tiling
      <3>3. GetNext(x) \notin G \cup {h}
        BY <3>1, <1>2
      <3> QED
        BY <3>1, <3>2, <3>3, <1>3
    <2> QED
      BY <2>1, <2>2
  <1>9. LiveBlocks'
    <2>t. \A q \in DOMAIN live : q \in Int /\ live[q] \in Nat /\ live[q] > 0
      BY <1>1 DEF TypeOK
    <2>c. \A x \in Header \ G, q \in DOMAIN live :
            Contains(x, q)' <=> (x + HeaderSize <= q /\ q < GetNext(x)')
      <3> TAKE x \in Header \ G, q \in DOMAIN live
      <3>1. x \in Int /\ q \in Int /\ block'[x].len \in Nat
        BY <2>t, <1>0, <1>3 DEF Block
      <3> QED
        BY <3>1, <1>1 DEF Contains, MaxAddr, StartAddress, GetNext
    <2>k. \A x \in Header \ (G \cup {h}), q \in DOMAIN live : Contains(x, q)' <=> Contains(x, q)
      BY <2>c, <2>t, <1>4, ContainsNext
    <2>1. ASSUME NEW q \in DOMAIN live'
          PROVE  \E x \in Header \ (G \cup {h}) :
                   /\ block[x].used /\ Contains(x, q)
                   /\ StartAddress(x) <= q /\ q + live[q] <= GetNext(x)
      <3>1. q \in DOMAIN live /\ q # ptr
        BY <1>5
      <3>2. PICK x \in Header : /\ block[x].used
                                /\ StartAddress(x) <= q /\ q + live[q] <= GetNext(x)
        BY <3>1 DEF LiveBlocks
      <3>3. Contains(x, q)
        BY <3>1, <3>2, <2>t, <1>0, <1>1, ContainsNext DEF StartAddress
      <3>4. x # a
        BY <3>1, <3>3, <1>5 DEF LiveBlocks
      <3>5. x \notin G \cup {h}
        BY <3>2, <3>4, <1>2
      <3> QED
        BY <3>2, <3>3, <3>5
    <2>2. ASSUME NEW x \in Header', block'[x].used
          PROVE  \E q \in DOMAIN live' : Contains(x, q)'
      <3>1. x # h /\ x \in Header \ (G \cup {h}) /\ block[x].used
        BY <2>2, <1>2, <1>3
      <3>2. PICK q \in DOMAIN live : Contains(x, q)
        BY <3>1 DEF LiveBlocks
      <3>3. q # ptr
        <4>1. x # a
          BY <3>1, <1>2
        <4> QED
          BY <4>1, <3>1, <3>2, <2>t, <1>5, ContainsUnique
      <3> QED
        BY <3>1, <3>2, <3>3, <2>k, <1>5, SMTT(30)
    <2>3. ASSUME NEW x \in Header', NEW q \in DOMAIN live', NEW r \in DOMAIN live',
                 Contains(x, q)', Contains(x, r)'
          PROVE  q = r
      <3>1. x # h
        <4> SUFFICES ASSUME x = h PROVE FALSE
          OBVIOUS
        <4>1. PICK y \in Header \ (G \cup {h}) : Contains(y, q)
          BY <2>1
        <4>2. y + HeaderSize <= q /\ q < GetNext(y)
          BY <4>1, <2>t, <1>5, ContainsNext, SMTT(30)
        <4>3. h + HeaderSize <= q /\ q < E
          BY <2>3, <2>c, <1>2, <1>4, <1>5, SMTT(30)
        <4>4. y < h => GetNext(y) <= h
          BY <1>2 DEF Tiling
        <4>5. h < y => E <= y
          BY <1>0, <1>2, SMTT(30)
        <4> QED
          BY <4>2, <4>3, <4>4, <4>5, <2>t, <1>0, <1>1, <1>2, <1>5
      <3> QED
        BY <3>1, <2>3, <2>k, <1>2, <1>5, SMTT(30) DEF LiveBlocks
    <2>4. ASSUME NEW q \in DOMAIN live'
          PROVE  \E x \in Header' : /\ block'[x].used
                                    /\ StartAddress(x) <= q /\ q + live'[q] <= GetNext(x)'
      <3>1. PICK x \in Header \ (G \cup {h}) : /\ block[x].used
                                              /\ StartAddress(x) <= q /\ q + live[q] <= GetNext(x)
        BY <2>1
      <3>2. live'[q] = live[q]
        BY <1>5, SMTT(30)
      <3>3. x \in Header' /\ block'[x] = block[x] /\ GetNext(x)' = GetNext(x)
        BY <3>1, <1>2, <1>3, <1>4
      <3> QED
        BY <3>1, <3>2, <3>3
    <2> QED
      BY <2>2, <2>3, <2>4 DEF LiveBlocks, StartAddress
  <1> QED
    BY <1>6, <1>7, <1>8, <1>9

LEMMA InitIInv ==
  ASSUME Init
  PROVE  IInv
  <1>1. HeapEnd - First - HeaderSize \in Nat /\ HeapEnd - First - HeaderSize > 0
    BY FirstBounds, HeaderAssumption
  <1>2. Header = {First} /\ block \in [Header -> Block]
    BY <1>1 DEF Init, Header, Block
  <1>3. /\ block[First].len = HeapEnd - First - HeaderSize
        /\ block[First].used = FALSE /\ block[First].has_next = FALSE
    BY DEF Init
  <1>4. GetNext(First) = HeapEnd
    BY <1>3, FirstBounds, HeaderAssumption DEF GetNext
  <1>5. AlignToPage(First) \in Nat
    BY FirstBounds, AlignBounds
  <1>6. TypeOK
    <2>1. First \in HeapStart .. HeapEnd
      BY FirstBounds, HeaderAssumption
    <2>2. DOMAIN live = {} /\ live \in [DOMAIN live -> Nat \ {0}]
      BY DEF Init
    <2> QED
      BY <2>1, <2>2, <1>2, <1>5, Zenon DEF Init, TypeOK
  <1>7. Tiling
    BY <1>1, <1>2, <1>3, <1>4, FirstBounds DEF Tiling
  <1> QED
    BY <1>2, <1>3, <1>6, <1>7 DEF IInv, Coalesced, LiveBlocks, Init

LEMMA NextIInv ==
  ASSUME IInv, [Next]_vars
  PROVE  IInv'
  <1>1. ASSUME UNCHANGED <<block, live>>, mapped' = mapped, lost' = lost, stopped' \in BOOLEAN
        PROVE  IInv'
    BY <1>1 DEF IInv, TypeOK, Tiling, Coalesced, LiveBlocks, Header, GetNext, Contains,
                MaxAddr, StartAddress, First, HeapEnd, NextMultipleOf
  <1>2. CASE UNCHANGED vars
    BY <1>1, <1>2 DEF vars, IInv, TypeOK
  <1>3. CASE Next
    BY <1>1, <1>3, SplitKeeps, WholeKeeps, DeallocKeeps, Zenon
    DEF Next, AllocOutOfPages, AllocFault, DeallocFault
  <1> QED
    BY <1>2, <1>3, SMTT(30)

\* The list of blocks is sound in every reachable state, for every heap:
\* it tiles the heap, has no two free neighbours, and its used blocks are
\* exactly the live allocations.
THEOREM HeapCorrect == Spec => [](TypeOK /\ Tiling /\ Coalesced /\ LiveBlocks)
  <1>1. Init => IInv
    BY InitIInv
  <1>2. IInv /\ [Next]_vars => IInv'
    BY NextIInv
  <1> QED
    BY <1>1, <1>2, PTL DEF Spec, IInv

\* dealloc leaves no two free blocks next to each other.
THEOREM FreeNeighboursMerge == Spec => []Coalesced
  BY HeapCorrect, PTL

\* The used blocks are those of the allocations that clients hold: dealloc finds
\* the block of the pointer that it is given, and no block stays in use.
THEOREM UsedBlocksAreLive == Spec => []LiveBlocks
  BY HeapCorrect, PTL

\* alloc never hands out memory that a client already holds.
THEOREM AllocationsNeverOverlap == Spec => []AllocationsDisjoint
  <1>1. ASSUME IInv, NEW p \in DOMAIN live, NEW q \in DOMAIN live, p < q
        PROVE  p + live[p] <= q
    <2> USE <1>1 DEF IInv
    <2>0. /\ \A z \in Header : z \in Nat /\ GetNext(z) \in Nat
          /\ HeaderSize \in Nat /\ HeaderSize > 0
      BY HeaderTypes, HeaderAssumption
    <2>1. p \in Int /\ live[p] \in Nat /\ live[p] > 0 /\ q \in Int /\ live[q] \in Nat /\ live[q] > 0
      BY FirstBounds DEF TypeOK
    <2>2. PICK x \in Header : StartAddress(x) <= p /\ p + live[p] <= GetNext(x)
      BY DEF LiveBlocks
    <2>3. PICK y \in Header : StartAddress(y) <= q /\ q + live[q] <= GetNext(y)
      BY DEF LiveBlocks
    <2>4. Contains(x, p) /\ Contains(y, q)
      BY <2>0, <2>1, <2>2, <2>3, ContainsNext DEF StartAddress
    <2>5. x # y
      BY <2>4, <2>1 DEF LiveBlocks
    <2>6. (x < y => GetNext(x) <= y) /\ (y < x => GetNext(y) <= x)
      BY DEF Tiling
    <2> QED
      BY <2>0, <2>1, <2>2, <2>3, <2>5, <2>6 DEF StartAddress
  <1>2. IInv => AllocationsDisjoint
    BY <1>1 DEF AllocationsDisjoint
  <1>3. Spec => []IInv
    BY HeapCorrect, PTL DEF IInv
  <1> QED
    BY <1>2, <1>3, PTL

\* Freeing every allocation gives the heap back in one piece.
THEOREM HeapIsReclaimed == Spec => []EmptyHeapIsWhole
  <1>1. ASSUME IInv, live = [p \in {} |-> 0]
        PROVE  Header = {First} /\ ~block[First].used /\ GetNext(First) = HeapEnd
    <2> USE <1>1 DEF IInv
    <2>1. \A x \in Header : ~block[x].used
      BY DEF LiveBlocks
    <2>2. \A x \in Header : GetNext(x) = HeapEnd
      BY <2>1 DEF Coalesced, Tiling
    <2>3. ASSUME NEW x \in Header, x # First PROVE FALSE
      <3>1. First \in Header /\ First <= x
        BY DEF Tiling
      <3>2. x \in Nat /\ x < HeapEnd
        BY <2>2, HeaderTypes
      <3>3. First < x
        BY <3>1, <3>2, <2>3, FirstBounds
      <3>4. GetNext(First) <= x
        BY <3>1, <3>3 DEF Tiling
      <3> QED
        BY <3>1, <3>2, <3>4, <2>2, FirstBounds
    <2> QED
      BY <2>1, <2>2, <2>3 DEF Tiling
  <1>2. IInv => EmptyHeapIsWhole
    BY <1>1 DEF EmptyHeapIsWhole
  <1>3. Spec => []IInv
    BY HeapCorrect, PTL DEF IInv
  <1> QED
    BY <1>2, <1>3, PTL

\* An operation on one allocation leaves the block of every other as it is.
THEOREM OthersAreUndisturbed == Spec => OthersUndisturbed
  <1>1. ASSUME IInv, [Next]_vars
        PROVE  LiveUndisturbed
    <2> USE <1>1 DEF IInv
    <2> SUFFICES ASSUME NEW p \in DOMAIN live, p \in DOMAIN live'
                 PROVE  /\ live'[p] = live[p]
                        /\ \A x \in Header : Contains(x, p) => x \in Header' /\ block'[x].used
      BY DEF LiveUndisturbed
    <2>0. p \in Int
      BY FirstBounds, SMTT(30) DEF TypeOK
    <2>1. \A x \in Header : Contains(x, p) => block[x].used
      BY FreeHoldsNone
    <2>2. ASSUME NEW a \in Header, NEW size \in Sizes, NEW align \in Aligns,
                 AllocSplit(a, size, align) \/ AllocWhole(a, size, align)
          PROVE  /\ live'[p] = live[p]
                 /\ \A x \in Header : Contains(x, p) => x \in Header' /\ block'[x].used
      <3>1. Fits(a, size, align) /\ ~block[a].used
        BY <2>2 DEF AllocSplit, AllocWhole, FirstFit, Fits
      <3>2. /\ StartFor(a, align) \in Int
            /\ a + HeaderSize <= StartFor(a, align) /\ StartFor(a, align) < GetNext(a)
        <4>1. /\ size \in Nat /\ size > 0 /\ StartFor(a, align) \in Nat
              /\ a + HeaderSize <= StartFor(a, align)
              /\ StartFor(a, align) + (size - 1) <= MaxAddr(a)
          BY <3>1, FitBounds, Zenon
        <4>2. GetNext(a) \in Nat /\ GetNext(a) = MaxAddr(a) + 1
          BY HeaderTypes
        <4>3. MaxAddr(a) \in Int
          BY HeaderTypes DEF MaxAddr, StartAddress
        <4> QED
          BY <4>1, <4>2, <4>3, SMTT(30)
      <3>3. p # StartFor(a, align)
        BY <3>1, <3>2, <2>1, ContainsNext
      <3>4. live'[p] = live[p]
        BY <3>3, <2>2 DEF AllocSplit, AllocWhole, Extend
      <3>5. ASSUME NEW x \in Header, Contains(x, p)
            PROVE  x \in Header' /\ block'[x].used
        <4>1. x # a /\ block[x].used
          BY <3>1, <3>5, <2>1, SMTT(30)
        <4>2. CASE AllocSplit(a, size, align)
          <5>1. x # NewBlockAddr(a, size, align)
            BY <4>2, <3>1, SplitInside DEF AllocSplit
          <5> QED
            BY <5>1, <4>1, <4>2 DEF AllocSplit, Extend, Header
        <4>3. CASE AllocWhole(a, size, align)
          BY <4>1, <4>3, SMTT(30) DEF AllocWhole, Header, TypeOK
        <4> QED
          BY <4>2, <4>3, <2>2, SMTT(30)
      <3> QED
        BY <3>4, <3>5
    <2>3. ASSUME NEW a \in Header, NEW ptr \in DOMAIN live, Dealloc(a, ptr)
          PROVE  /\ live'[p] = live[p]
                 /\ \A x \in Header : Contains(x, p) => x \in Header' /\ block'[x].used
      <3>1. live'[p] = live[p] /\ p # ptr /\ Contains(a, ptr)
        BY <2>3 DEF Dealloc, Without, Holder
      <3>2. PICK h \in Header, G \in SUBSET Header, E \in Nat, hn \in BOOLEAN :
              MergeShape(a, h, G, E, hn)
        BY <2>3, DeallocMerges, SMTT(30)
      <3>3. ASSUME NEW x \in Header, Contains(x, p)
            PROVE  x \in Header' /\ block'[x].used
        <4>1. block[x].used
          BY <3>3, <2>1
        <4>2. x # a
          BY <3>1, <3>3, SMTT(30) DEF LiveBlocks
        <4>3. x \notin G \cup {h}
          BY <4>1, <4>2, <3>2 DEF MergeShape
        <4> QED
          BY <4>1, <4>3, <3>2 DEF MergeShape
      <3> QED
        BY <3>1, <3>3
    <2>4. CASE block' = block /\ live' = live
      BY <2>1, <2>4 DEF Header
    <2> QED
      BY <1>1, <2>2, <2>3, <2>4
      DEF Next, vars, AllocOutOfPages, AllocFault, DeallocFault
  <1>2. Spec => []IInv
    BY HeapCorrect, PTL DEF IInv
  <1> QED
    BY <1>1, <1>2, PTL DEF Spec, OthersUndisturbed

\* The page of an address is a multiple of the page size, and a later address is
\* not on an earlier page.
LEMMA AlignOrder ==
  ASSUME NEW x \in Nat, NEW y \in Nat, x <= y
  PROVE  AlignToPage(x) <= AlignToPage(y) /\ (AlignToPage(y) % PageSize) = 0
  <1> DEFINE p == x \div PageSize
             q == y \div PageSize
  <1>0. PageSize \in Nat \ {0}
    BY PageAssumption
  <1>1. p \in Nat /\ q \in Nat
    BY <1>0, DivMod
  <1>2. AlignToPage(x) = PageSize * p /\ AlignToPage(y) = PageSize * q
    <2>1. /\ x = PageSize * p + (x % PageSize) /\ (x % PageSize) \in Nat
          /\ y = PageSize * q + (y % PageSize) /\ (y % PageSize) \in Nat
      BY <1>0, DivMod
    <2>2. PageSize * p \in Int /\ PageSize * q \in Int
      BY <1>0, <1>1
    <2> HIDE DEF p, q
    <2> QED
      BY <2>1, <2>2 DEF AlignToPage
  <1>3. p <= q
    <2>1. ~(q < p)
      <3>1. q < p => y < x
        BY <1>0, DivOrder
      <3> QED
        BY <3>1
    <2> HIDE DEF p, q
    <2> QED
      BY <1>1, <2>1
  <1> HIDE DEF p, q
  <1>4. PageSize * p <= PageSize * q
    BY <1>0, <1>1, <1>3, ProductOrder
  <1>5. ((PageSize * q) % PageSize) = 0
    <2> DEFINE m == PageSize * q
    <2>1. m \in Nat /\ PageSize * q <= m /\ m < PageSize * q + PageSize
      BY <1>0, <1>1
    <2> HIDE DEF m
    <2>2. (m \div PageSize) = q
      BY <1>0, <1>1, <2>1, DivUnique
    <2>3. m = PageSize * (m \div PageSize) + (m % PageSize) /\ (m % PageSize) \in Nat
      BY <1>0, <2>1, DivMod
    <2>4. m = m + (m % PageSize)
      BY <2>2, <2>3 DEF m
    <2>5. (m % PageSize) = 0
      BY <2>1, <2>3, <2>4
    <2> QED
      BY <2>5 DEF m
  <1> QED
    BY <1>2, <1>4, <1>5

\* Every byte that alloc returns is on one of the pages from the block's start to
\* the end of the allocation, all of which alloc maps (map_page in the loop of
\* alloc), whatever the alignment and the page size.
THEOREM AllocationIsMapped == Spec => AllocationMapped
  <1>1. ASSUME IInv, [Next]_vars
        PROVE  NewIsMapped
    <2> USE <1>1 DEF IInv
    <2> SUFFICES ASSUME NEW p \in DOMAIN live', p \notin DOMAIN live,
                        NEW x \in p .. p + live'[p] - 1
                 PROVE  AlignToPage(x) \in mapped'
      BY DEF NewIsMapped
    <2>1. PICK a \in Header, size \in Sizes, align \in Aligns :
            AllocSplit(a, size, align) \/ AllocWhole(a, size, align)
      <3>1. DOMAIN live' \subseteq DOMAIN live
              \/ \E a \in Header, size \in Sizes, align \in Aligns :
                   AllocSplit(a, size, align) \/ AllocWhole(a, size, align)
        <4>1. ASSUME NEW a \in Header, NEW ptr \in DOMAIN live, Dealloc(a, ptr)
              PROVE  DOMAIN live' \subseteq DOMAIN live
          BY <4>1 DEF Dealloc, Without
        <4> QED
          BY <1>1, <4>1 DEF Next, vars, AllocOutOfPages, AllocFault, DeallocFault
      <3> QED
        BY <3>1, SMTT(30)
    <2>2. Fits(a, size, align) /\ PagesFor(a, size, align) \subseteq mapped'
      BY <2>1 DEF AllocSplit, AllocWhole, FirstFit
    <2>3. p = StartFor(a, align) /\ live'[p] = size
      BY <2>1, SMTT(30) DEF AllocSplit, AllocWhole, Extend
    <2>4. /\ size \in Nat /\ size > 0 /\ p \in Nat
          /\ StartAddress(a) = a + HeaderSize /\ StartAddress(a) <= p
          /\ EndFor(a, size, align) = p + (size - 1)
      BY <2>2, <2>3, FitBounds, Zenon
    <2>5. StartAddress(a) \in Nat
      BY HeaderTypes DEF StartAddress
    <2>6. x \in Nat /\ EndFor(a, size, align) \in Nat
          /\ StartAddress(a) <= x /\ x <= EndFor(a, size, align)
      BY <2>3, <2>4, <2>5
    <2>7. /\ AlignToPage(StartAddress(a)) <= AlignToPage(x)
          /\ AlignToPage(x) <= AlignToPage(EndFor(a, size, align))
          /\ (AlignToPage(x) % PageSize) = 0
      BY <2>5, <2>6, AlignOrder
    <2>8. /\ AlignToPage(x) \in Nat /\ AlignToPage(StartAddress(a)) \in Nat
          /\ AlignToPage(EndFor(a, size, align)) \in Nat
      BY <2>5, <2>6, AlignBounds
    <2>9. AlignToPage(x) \in PagesFor(a, size, align)
      BY <2>7, <2>8 DEF PagesFor
    <2> QED
      BY <2>2, <2>9
  <1>2. Spec => []IInv
    BY HeapCorrect, PTL DEF IInv
  <1> QED
    BY <1>1, <1>2, PTL DEF Spec, AllocationMapped
=============================================================================
