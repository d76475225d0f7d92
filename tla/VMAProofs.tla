----------------------------- MODULE VMAProofs ------------------------------
(***************************************************************************)
(* Proofs about the two halves of vma.rs.                                  *)
(*                                                                         *)
(* NodeStorage, for every number of entries of a page, also when the mask  *)
(* of the last byte is inverted, and every set of frames.  The inductive   *)
(* invariant says that the pages can be numbered in the order of the list, *)
(* each once.  The links alone also allow a cycle of pages apart from the  *)
(* list; of a cycle of two pages, the one that is left when the other is   *)
(* unlinked would keep a link to it.                                       *)
(*                                                                         *)
(* VMAAllocator, for an address space of any size and any number of tasks. *)
(***************************************************************************)
EXTENDS NodeStorage, VMAAllocator, FiniteSetTheorems, NaturalsFacts, TLAPS

Linked ==
  /\ page[head].prev_page = Null
  /\ \A f \in DOMAIN page : page[f].next_page # Null =>
       page[f].next_page \in DOMAIN page /\ page[page[f].next_page].prev_page = f
  /\ \A f \in DOMAIN page \ {head} :
       page[f].prev_page \in DOMAIN page /\ page[page[f].prev_page].next_page = f

\* list numbers the pages in the order of the list.
Numbering(n, list) ==
  /\ list \in [1 .. n -> DOMAIN page]
  /\ IsList(n, list)
  /\ \A k, l \in 1 .. n : list[k] = list[l] => k = l

Chained == \E n \in Nat \ {0} : \E list : Numbering(n, list)

\* The bitmap and the count of a page agree with the nodes in use on it, none of
\* which has a bit that was set from the start.
Agrees(p, mine) ==
  /\ mine \cap INITIAL_USAGE_BITMAP = {}
  /\ p.usage_bitmap = mine \cup INITIAL_USAGE_BITMAP
  /\ p.free_entries = MaxNodes - Cardinality(mine)

Counted == \A f \in DOMAIN page : Agrees(page[f], Mine(f))

IInv == TypeOK /\ Linked /\ Chained /\ Counted /\ PagesInUse

-----------------------------------------------------------------------------
\* The links.

\* A page is in a frame, and no frame is Null.
LEMMA PagesAreFrames ==
  ASSUME TypeOK
  PROVE  \A f \in DOMAIN page : f \in Nat /\ f # Null
  BY FramesAssumption DEF TypeOK, Null

LEMMA LinksSame ==
  ASSUME TypeOK, Linked, Chained, head' = head, DOMAIN page' = DOMAIN page,
         \A g \in DOMAIN page : /\ page'[g].next_page = page[g].next_page
                                /\ page'[g].prev_page = page[g].prev_page
  PROVE  Linked' /\ Chained'
  <1>0. head \in DOMAIN page
    BY DEF TypeOK
  <1>1. Linked'
    BY <1>0 DEF Linked
  <1>n. PICK n \in Nat \ {0} : \E list : Numbering(n, list)
    BY DEF Chained
  <1>2. PICK list : Numbering(n, list)
    BY <1>n
  <1>3. Numbering(n, list)'
    <2>1. \A k \in 1 .. n : list[k] \in DOMAIN page
      BY <1>2 DEF Numbering
    <2>2. n \in 1 .. n /\ \A k \in 1 .. n - 1 : k \in 1 .. n
      OBVIOUS
    <2>3. IsList(n, list)'
      BY <1>2, <2>1, <2>2 DEF Numbering, IsList
    <2> QED
      BY <1>2, <2>3 DEF Numbering
  <1> QED
    BY <1>1, <1>3 DEF Chained

\* The last page of the list is the only one without a next page.
LEMMA LastPage ==
  ASSUME TypeOK, NEW n \in Nat \ {0}, NEW list, Numbering(n, list),
         NEW k \in 1 .. n
  PROVE  /\ list[k] \in DOMAIN page
         /\ page[list[k]].next_page = Null <=> k = n
         /\ k < n => k + 1 \in 1 .. n /\ page[list[k]].next_page = list[k + 1]
  <1>1. list[k] \in DOMAIN page
    BY DEF Numbering
  <1>2. CASE k = n
    BY <1>1, <1>2 DEF Numbering, IsList
  <1>3. CASE k # n
    <2>1. k \in 1 .. n - 1 /\ k + 1 \in 1 .. n /\ k < n
      BY <1>3
    <2>2. page[list[k]].next_page = list[k + 1] /\ list[k + 1] \in DOMAIN page
      BY <2>1 DEF Numbering, IsList
    <2> QED
      BY <1>1, <1>3, <2>1, <2>2, PagesAreFrames
  <1> QED
    BY <1>2, <1>3

\* A page is added at the end of the list.
LEMMA LinksAppend ==
  ASSUME TypeOK, Linked, Chained, head' = head,
         NEW last \in DOMAIN page, page[last].next_page = Null,
         NEW new \in Frames \ DOMAIN page,
         DOMAIN page' = DOMAIN page \cup {new},
         page'[new].next_page = Null, page'[new].prev_page = last,
         page'[last].next_page = new, page'[last].prev_page = page[last].prev_page,
         \A g \in DOMAIN page \ {last} : page'[g] = page[g]
  PROVE  Linked' /\ Chained'
  <1>1. new \in Nat /\ new # Null /\ last # new /\ head \in DOMAIN page /\ new # head
    BY FramesAssumption DEF TypeOK, Null
  <1>2. \A g \in DOMAIN page : g \in Nat /\ g # Null /\ g # new
    BY PagesAreFrames
  <1>3. \A g \in DOMAIN page : page'[g].prev_page = page[g].prev_page
    OBVIOUS
  <1>4. Linked'
    <2>1. page'[head].prev_page = Null
      BY <1>1, <1>3 DEF Linked
    <2>2. ASSUME NEW f \in DOMAIN page', page'[f].next_page # Null
          PROVE  /\ page'[f].next_page \in DOMAIN page'
                 /\ page'[page'[f].next_page].prev_page = f
      <3>1. CASE f = last
        BY <3>1
      <3>2. CASE f # last
        <4>1. f \in DOMAIN page /\ page'[f] = page[f]
          BY <2>2, <3>2
        <4> QED
          BY <1>3, <2>2, <4>1 DEF Linked
      <3> QED
        BY <3>1, <3>2
    <2>3. ASSUME NEW f \in DOMAIN page' \ {head}
          PROVE  /\ page'[f].prev_page \in DOMAIN page'
                 /\ page'[page'[f].prev_page].next_page = f
      <3>1. CASE f = new
        BY <3>1
      <3>2. CASE f # new
        <4>1. /\ f \in DOMAIN page \ {head} /\ page'[f].prev_page = page[f].prev_page
              /\ page[f].prev_page \in DOMAIN page /\ page[page[f].prev_page].next_page = f
          BY <1>3, <3>2 DEF Linked
        <4>2. page[f].prev_page # last
          BY <1>2, <4>1
        <4> QED
          BY <4>1, <4>2
      <3> QED
        BY <3>1, <3>2
    <2> QED
      BY <2>1, <2>2, <2>3 DEF Linked
  <1>5. Chained'
    <2>n. PICK n \in Nat \ {0} : \E list : Numbering(n, list)
      BY DEF Chained
    <2>1. PICK list : Numbering(n, list)
      BY <2>n
    <2> DEFINE longer == [k \in 1 .. n + 1 |-> IF k = n + 1 THEN new ELSE list[k]]
    <2>2. \A k \in 1 .. n + 1 : k \in 1 .. n \/ k = n + 1
      OBVIOUS
    <2>3. /\ longer[n + 1] = new
          /\ \A k \in 1 .. n : longer[k] = list[k] /\ list[k] \in DOMAIN page
      BY <2>1, LastPage
    <2>4. longer \in [1 .. n + 1 -> DOMAIN page']
      BY <2>2, <2>3, Zenon
    <2> HIDE DEF longer
    <2>5. list[n] = last
      <3>1. PICK k \in 1 .. n : list[k] = last
        BY <2>1 DEF Numbering, IsList
      <3> QED
        BY <2>1, <3>1, LastPage
    <2>6. \A k \in 1 .. n : list[k] = last => k = n
      BY <2>1, <2>5 DEF Numbering
    <2>7. ASSUME NEW k \in 1 .. n PROVE page'[longer[k]].next_page = longer[k + 1]
      <3>1. CASE k = n
        BY <2>3, <2>5, <3>1
      <3>2. CASE k # n
        <4>1. k < n /\ k + 1 \in 1 .. n
          BY <3>2
        <4>2. page[list[k]].next_page = list[k + 1] /\ list[k] # last
          BY <2>1, <2>6, <3>2, <4>1, LastPage
        <4> QED
          BY <2>3, <4>1, <4>2
      <3> QED
        BY <3>1, <3>2
    <2>8. longer[1] = head
      BY <2>1, <2>3 DEF Numbering, IsList
    <2>9. \A f \in DOMAIN page' : \E k \in 1 .. n + 1 : longer[k] = f
      <3> SUFFICES ASSUME NEW f \in DOMAIN page' PROVE \E k \in 1 .. n + 1 : longer[k] = f
        OBVIOUS
      <3>1. CASE f = new
        BY <2>3, <3>1
      <3>2. CASE f # new
        <4>1. PICK k \in 1 .. n : list[k] = f
          BY <2>1, <3>2 DEF Numbering, IsList
        <4>2. k \in 1 .. n + 1
          OBVIOUS
        <4> QED
          BY <2>3, <4>1, <4>2
      <3> QED
        BY <3>1, <3>2
    <2>10. ASSUME NEW k \in 1 .. n + 1, NEW l \in 1 .. n + 1, longer[k] = longer[l]
           PROVE  k = l
      BY <1>2, <2>1, <2>2, <2>3, <2>10 DEF Numbering
    <2>11. n + 1 \in Nat \ {0} /\ (n + 1) - 1 = n
      OBVIOUS
    <2>12. IsList(n + 1, longer)'
      BY <2>3, <2>7, <2>8, <2>9, <2>11 DEF IsList
    <2>13. Numbering(n + 1, longer)'
      BY <2>4, <2>10, <2>12 DEF Numbering
    <2> QED
      BY <2>11, <2>13 DEF Chained
  <1> QED
    BY <1>4, <1>5

\* A page other than the head is unlinked.
LEMMA LinksRemove ==
  ASSUME TypeOK, Linked, Chained, head' = head,
         NEW f \in DOMAIN page, f # head, page' = Unlink(f)
  PROVE  Linked' /\ Chained'
  <1> DEFINE p == page[f].prev_page
             x == page[f].next_page
  <1>n. PICK n \in Nat \ {0} : \E list : Numbering(n, list)
    BY DEF Chained
  <1>1. PICK list : Numbering(n, list)
    BY <1>n
  <1>2. PICK j \in 1 .. n : list[j] = f
    BY <1>1 DEF Numbering, IsList
  <1>3. j > 1
    BY <1>1, <1>2 DEF Numbering, IsList
  <1>4. j - 1 \in 1 .. n /\ j - 1 < n /\ (j - 1) + 1 = j
    BY <1>3
  <1>5. \A k, l \in 1 .. n : list[k] = list[l] => k = l
    BY <1>1 DEF Numbering
  <1>6. \A g \in DOMAIN page : g \in Nat /\ g # Null
    BY PagesAreFrames
  <1>7. list[j - 1] \in DOMAIN page /\ page[list[j - 1]].next_page = f
    BY <1>1, <1>2, <1>4, LastPage
  <1>8. p = list[j - 1] /\ p \in DOMAIN page /\ page[p].next_page = f
    BY <1>6, <1>7 DEF Linked
  <1>9. /\ j = n => x = Null
        /\ j < n => j + 1 \in 1 .. n /\ x = list[j + 1]
    BY <1>1, <1>2, LastPage
  <1>10. x # Null => x \in DOMAIN page /\ page[x].prev_page = f
    BY DEF Linked
  <1>11. p # f /\ x # f /\ p # x
    <2>1. p # f
      BY <1>2, <1>4, <1>5, <1>8
    <2>2. x # f
      BY <1>2, <1>5, <1>6, <1>9
    <2>3. CASE j = n
      BY <1>6, <1>8, <1>9, <2>1, <2>2, <2>3
    <2>4. CASE j < n
      BY <1>4, <1>5, <1>8, <1>9, <2>1, <2>2, <2>4
    <2> QED
      BY <2>3, <2>4
  <1> HIDE DEF p, x
  <1>12. DOMAIN page' = DOMAIN page \ {f}
    BY DEF Unlink
  <1>13. ASSUME NEW g \in DOMAIN page \ {f}
         PROVE  /\ page'[g].next_page = IF g = p THEN x ELSE page[g].next_page
                /\ page'[g].prev_page = IF g = x THEN p ELSE page[g].prev_page
    <2>0. page[g] \in NodeStoragePage
      BY DEF TypeOK
    <2>1. CASE g = x
      <3>1. page'[g] = [page[g] EXCEPT !.prev_page = p]
        BY <2>1 DEF Unlink, x, p
      <3> QED
        BY <1>11, <2>0, <2>1, <3>1 DEF NodeStoragePage
    <2>2. CASE g = p
      <3>1. page'[g] = [page[g] EXCEPT !.next_page = x]
        BY <1>11, <2>2 DEF Unlink, x, p
      <3> QED
        BY <1>11, <2>0, <2>2, <3>1 DEF NodeStoragePage
    <2>3. CASE g # x /\ g # p
      BY <2>3 DEF Unlink, x, p
    <2> QED
      BY <2>1, <2>2, <2>3
  <1>14. Linked'
    <2>0. head \in DOMAIN page /\ page[head].prev_page = Null
      BY DEF TypeOK, Linked
    <2>1. page'[head].prev_page = Null
      <3>1. head # x
        BY <1>6, <1>10, <2>0
      <3> QED
        BY <1>13, <2>0, <3>1
    <2>2. ASSUME NEW g \in DOMAIN page', page'[g].next_page # Null
          PROVE  /\ page'[g].next_page \in DOMAIN page'
                 /\ page'[page'[g].next_page].prev_page = g
      <3>0. g \in DOMAIN page \ {f}
        BY <1>12
      <3>1. CASE g = p
        <4>1. page'[g].next_page = x /\ x # Null
          BY <1>13, <2>2, <3>0, <3>1
        <4>2. x \in DOMAIN page \ {f}
          BY <1>10, <1>11, <4>1
        <4> QED
          BY <1>12, <1>13, <3>1, <4>1, <4>2
      <3>2. CASE g # p
        <4> DEFINE y == page[g].next_page
        <4>1. page'[g].next_page = y /\ y # Null
          BY <1>13, <2>2, <3>0, <3>2
        <4>2. y \in DOMAIN page /\ page[y].prev_page = g
          BY <3>0, <4>1 DEF Linked
        <4> HIDE DEF y
        <4>3. y # f /\ y # x
          BY <1>6, <1>10, <3>0, <3>2, <4>1, <4>2 DEF p
        <4> QED
          BY <1>12, <1>13, <4>1, <4>2, <4>3
      <3> QED
        BY <3>1, <3>2
    <2>3. ASSUME NEW g \in DOMAIN page' \ {head}
          PROVE  /\ page'[g].prev_page \in DOMAIN page'
                 /\ page'[page'[g].prev_page].next_page = g
      <3>0. g \in DOMAIN page \ {f} /\ g # head
        BY <1>12
      <3>1. CASE g = x
        <4>1. page'[g].prev_page = p /\ p \in DOMAIN page \ {f}
          BY <1>8, <1>11, <1>13, <3>0, <3>1
        <4> QED
          BY <1>12, <1>13, <3>1, <4>1
      <3>2. CASE g # x
        <4> DEFINE y == page[g].prev_page
        <4>1. page'[g].prev_page = y /\ y \in DOMAIN page /\ page[y].next_page = g
          BY <1>13, <3>0, <3>2 DEF Linked
        <4> HIDE DEF y
        <4>2. y # f /\ y # p
          BY <1>8, <3>0, <3>2, <4>1 DEF x
        <4> QED
          BY <1>12, <1>13, <4>1, <4>2
      <3> QED
        BY <3>1, <3>2
    <2> QED
      BY <2>1, <2>2, <2>3 DEF Linked
  <1>15. Chained'
    <2> DEFINE m == n - 1
               shorter == [k \in 1 .. m |-> IF k < j THEN list[k] ELSE list[k + 1]]
               At(k) == IF k < j THEN k ELSE k + 1
    <2>1. m \in Nat \ {0}
      BY <1>3
    <2>2. \A k \in 1 .. m : At(k) \in 1 .. n /\ At(k) # j /\ shorter[k] = list[At(k)]
      OBVIOUS
    <2>3. \A k \in 1 .. m : shorter[k] \in DOMAIN page \ {f}
      BY <1>1, <1>2, <1>5, <2>2, LastPage
    <2>4. shorter \in [1 .. m -> DOMAIN page']
      BY <1>12, <2>3
    <2> HIDE DEF shorter
    <2>5. ASSUME NEW k \in 1 .. m, NEW l \in 1 .. m, shorter[k] = shorter[l]
          PROVE  k = l
      <3>1. At(k) = At(l)
        BY <1>5, <2>2, <2>5
      <3> QED
        BY <3>1
    <2>6. shorter[1] = head
      <3>1. At(1) = 1 /\ 1 \in 1 .. m
        BY <1>3, <2>1
      <3> QED
        BY <1>1, <2>2, <3>1 DEF Numbering, IsList
    <2>7. ASSUME NEW k \in 1 .. m - 1
          PROVE  page'[shorter[k]].next_page = shorter[k + 1]
      <3>0. k \in 1 .. m /\ k + 1 \in 1 .. m
        OBVIOUS
      <3>1. CASE k = j - 1
        <4>1. At(k) = j - 1 /\ At(k + 1) = j + 1 /\ j < n
          BY <3>0, <3>1
        <4>2. shorter[k] = p /\ shorter[k + 1] = x
          BY <1>8, <1>9, <2>2, <3>0, <4>1
        <4> QED
          BY <1>13, <2>3, <3>0, <4>2
      <3>2. CASE k # j - 1
        <4>1. At(k) # j - 1 /\ At(k + 1) = At(k) + 1 /\ At(k) < n
          BY <3>0, <3>2
        <4>2. shorter[k] # p
          BY <1>4, <1>5, <1>8, <2>2, <3>0, <4>1
        <4>3. page[list[At(k)]].next_page = list[At(k) + 1]
          BY <1>1, <2>2, <3>0, <4>1, LastPage
        <4> QED
          BY <1>13, <2>2, <2>3, <3>0, <4>1, <4>2, <4>3
      <3> QED
        BY <3>1, <3>2
    <2>8. page'[shorter[m]].next_page = Null
      <3>0. m \in 1 .. m
        BY <2>1
      <3>1. CASE j = n
        <4>1. At(m) = j - 1
          BY <3>1
        <4>2. shorter[m] = p /\ x = Null
          BY <1>8, <1>9, <2>2, <3>0, <3>1, <4>1
        <4> QED
          BY <1>13, <2>3, <3>0, <4>2
      <3>2. CASE j # n
        <4>1. At(m) = n /\ n # j - 1
          BY <3>2
        <4>2. n \in 1 .. n /\ shorter[m] = list[n] /\ list[n] # p
          BY <1>4, <1>5, <1>8, <2>2, <3>0, <4>1
        <4>3. page[list[n]].next_page = Null
          BY <1>1 DEF Numbering, IsList
        <4> QED
          BY <1>13, <2>3, <3>0, <4>2, <4>3
      <3> QED
        BY <3>1, <3>2
    <2>9. \A g \in DOMAIN page' : \E k \in 1 .. m : shorter[k] = g
      <3> SUFFICES ASSUME NEW g \in DOMAIN page' PROVE \E k \in 1 .. m : shorter[k] = g
        OBVIOUS
      <3>1. PICK l \in 1 .. n : list[l] = g
        BY <1>1, <1>12 DEF Numbering, IsList
      <3>2. l # j
        BY <1>2, <1>12, <3>1
      <3>3. CASE l < j
        <4>1. l \in 1 .. m /\ At(l) = l
          BY <3>3
        <4> QED
          BY <2>2, <3>1, <4>1
      <3>4. CASE l > j
        <4>1. l - 1 \in 1 .. m /\ At(l - 1) = l
          BY <3>4
        <4> QED
          BY <2>2, <3>1, <4>1
      <3> QED
        BY <3>2, <3>3, <3>4
    <2>10. IsList(m, shorter)'
      <3> HIDE DEF m
      <3> QED
        BY <2>6, <2>7, <2>8, <2>9 DEF IsList
    <2>11. Numbering(m, shorter)'
      <3> HIDE DEF m
      <3> QED
        BY <2>4, <2>5, <2>10 DEF Numbering
    <2> QED
      BY <2>1, <2>11 DEF Chained
  <1> QED
    BY <1>14, <1>15
-----------------------------------------------------------------------------
\* The bitmaps and the counts.

LEMMA EntriesFinite ==
  ASSUME NEW M \in SUBSET Entry
  PROVE  /\ IsFiniteSet(M) /\ Cardinality(M) \in 0 .. MaxNodes
         /\ Cardinality(M) = MaxNodes => M = Entry
  <1>1. IsFiniteSet(Entry) /\ Cardinality(Entry) = MaxNodes
    BY MaxNodesAssumption, FS_Interval DEF Entry
  <1>2. IsFiniteSet(M) /\ Cardinality(M) <= MaxNodes /\ (Cardinality(M) = MaxNodes => M = Entry)
    BY <1>1, FS_Subset
  <1>3. Cardinality(M) \in Nat
    BY <1>2, FS_CardinalityType
  <1> QED
    BY <1>2, <1>3, MaxNodesAssumption

LEMMA BitmapLength ==
  /\ BITMAP_LEN \in Nat /\ Bits \subseteq Nat /\ Entry \subseteq Bits
  /\ INITIAL_USAGE_BITMAP \subseteq Bits
  /\ INITIAL_USAGE_BITMAP \subseteq Entry
  /\ INITIAL_USAGE_BITMAP \cap FullBytes = {} /\ FullBytes \subseteq Entry
  /\ MaxNodes % BitsPerByte = 0 => Bits = Entry /\ INITIAL_USAGE_BITMAP = {}
  /\ MaxNodes % BitsPerByte # 0 => MaxNodes \in Bits
  <1> DEFINE q == MaxNodes \div BitsPerByte
             r == MaxNodes % BitsPerByte
             B == BitsPerByte
             len == BITMAP_LEN
  <1>1. q \in Nat /\ r \in Nat /\ r < B /\ MaxNodes = B * q + r /\ B \in Nat \ {0}
    BY MaxNodesAssumption, BitsPerByteAssumption, DivMod
  <1>2. len = IF r > 0 THEN q + 1 ELSE q
    BY <1>1 DEF BITMAP_LEN
  <1>3. Bits = 0 .. len * B - 1
    BY DEF Bits
  <1>4. INITIAL_USAGE_BITMAP = IF r = 0 THEN {} ELSE (len - 1) * B .. (len - 1) * B + r - 1
    BY DEF INITIAL_USAGE_BITMAP
  <1>0. FullBytes = 0 .. q * B - 1
    BY DEF FullBytes
  <1> HIDE DEF q, r, B, len
  <1>5. len \in Nat /\ len * B \in Nat
    BY <1>1, <1>2
  <1>6. CASE r = 0
    <2>1. len * B = MaxNodes
      BY <1>1, <1>2, <1>6
    <2>2. q * B = MaxNodes
      BY <1>1, <1>6
    <2> QED
      BY <1>0, <1>3, <1>4, <1>5, <1>6, <2>1, <2>2 DEF Entry, len, r
  <1>7. CASE r # 0
    <2>1. len = q + 1 /\ len - 1 = q
      BY <1>1, <1>2, <1>7
    <2>2. len * B = q * B + B /\ q * B \in Nat
      BY <1>1, <2>1
    <2>3. /\ q * B .. q * B + r - 1 \subseteq 0 .. len * B - 1
          /\ MaxNodes = q * B + r /\ MaxNodes \in 0 .. len * B - 1
      BY <1>1, <2>2
    <2>4. /\ q * B .. q * B + r - 1 \subseteq Entry /\ FullBytes \subseteq Entry
          /\ (q * B .. q * B + r - 1) \cap FullBytes = {}
      BY <1>0, <1>1, <2>2, <2>3 DEF Entry
    <2>5. Entry \subseteq 0 .. len * B - 1
      BY <1>1, <2>2, <2>3, MaxNodesAssumption DEF Entry
    <2> QED
      BY <1>3, <1>4, <1>5, <1>7, <2>1, <2>3, <2>4, <2>5 DEF r, len
  <1> QED
    BY <1>6, <1>7

\* The bit that is set is the first clear one, of an entry that is not in use.
LEMMA ReservedAgrees ==
  ASSUME NEW p \in NodeStoragePage, NEW M \in SUBSET Entry, Agrees(p, M),
         Bits \ p.usage_bitmap # {}, FirstClear(p) \in Entry
  PROVE  /\ Reserved(p) \in NodeStoragePage
         /\ Reserved(p).next_page = p.next_page /\ Reserved(p).prev_page = p.prev_page
         /\ Agrees(Reserved(p), M \cup {FirstClear(p)})
  <1> DEFINE b == FirstClear(p)
             U == p.usage_bitmap \cup {b}
             c == p.free_entries - 1
  <1>1. b \in Bits \ p.usage_bitmap
    <2>1. Bits \ p.usage_bitmap \in SUBSET Nat
      BY BitmapLength, Zenon
    <2>2. \E y \in Bits \ p.usage_bitmap : \A z \in Bits \ p.usage_bitmap : y <= z
      BY <2>1, LeastNatural, Zenon
    <2> QED
      BY <2>2 DEF FirstClear
  <1>2. Reserved(p) = [p EXCEPT !.usage_bitmap = U, !.free_entries = c]
    BY DEF Reserved
  <1>3. b \in Entry /\ b \notin M /\ b \notin INITIAL_USAGE_BITMAP
    BY <1>1 DEF Agrees
  <1> HIDE DEF b
  <1>4. IsFiniteSet(M) /\ Cardinality(M) \in Nat
    BY EntriesFinite
  <1>5. M \cup {b} \in SUBSET Entry
    BY <1>3
  <1>6. Cardinality(M \cup {b}) = Cardinality(M) + 1
    BY <1>3, <1>4, FS_AddElement, Zenon
  <1>7. Cardinality(M \cup {b}) \in 0 .. MaxNodes
    BY <1>5, EntriesFinite
  <1>8. c = MaxNodes - Cardinality(M \cup {b})
    BY <1>4, <1>6, MaxNodesAssumption DEF Agrees
  <1>9. c \in 0 .. MaxNodes
    BY <1>7, <1>8, MaxNodesAssumption
  <1>10. U \in SUBSET Bits
    BY <1>1 DEF NodeStoragePage
  <1>11. /\ U = (M \cup {b}) \cup INITIAL_USAGE_BITMAP
         /\ (M \cup {b}) \cap INITIAL_USAGE_BITMAP = {}
    BY <1>3 DEF Agrees
  <1> HIDE DEF U, c
  <1>12. /\ Reserved(p) \in NodeStoragePage
         /\ Reserved(p).usage_bitmap = U /\ Reserved(p).free_entries = c
         /\ Reserved(p).next_page = p.next_page /\ Reserved(p).prev_page = p.prev_page
    BY <1>2, <1>9, <1>10, Zenon DEF NodeStoragePage
  <1> QED
    BY <1>8, <1>11, <1>12 DEF Agrees, b

\* A page that is new has no node in use.
LEMMA NewAgrees ==
  ASSUME NEW f \in Frames \cup {Null}
  PROVE  /\ NewWithPrevPage(f) \in NodeStoragePage
         /\ Agrees(NewWithPrevPage(f), {})
         /\ NewWithPrevPage(f).next_page = Null /\ NewWithPrevPage(f).prev_page = f
  <1>1. Cardinality({}) = 0
    BY FS_EmptySet
  <1> QED
    BY <1>1, BitmapLength, MaxNodesAssumption DEF NewWithPrevPage, Agrees, NodeStoragePage

\* The bit of a node that was in use is cleared.
LEMMA UnreservedAgrees ==
  ASSUME NEW p \in NodeStoragePage, NEW M \in SUBSET Entry, Agrees(p, M), NEW i \in M,
         NEW q, q = [p EXCEPT !.usage_bitmap = @ \ {i}, !.free_entries = @ + 1]
  PROVE  /\ q \in NodeStoragePage
         /\ q.next_page = p.next_page /\ q.prev_page = p.prev_page
         /\ Agrees(q, M \ {i})
  <1> DEFINE U == p.usage_bitmap \ {i}
             c == p.free_entries + 1
  <1>1. q = [p EXCEPT !.usage_bitmap = U, !.free_entries = c]
    OBVIOUS
  <1>2. IsFiniteSet(M) /\ Cardinality(M) \in Nat
    BY EntriesFinite
  <1>3. Cardinality(M \ {i}) = Cardinality(M) - 1
    BY <1>2, FS_RemoveElement, Zenon
  <1>4. Cardinality(M \ {i}) \in 0 .. MaxNodes
    BY EntriesFinite
  <1>5. c = MaxNodes - Cardinality(M \ {i})
    BY <1>2, <1>3, MaxNodesAssumption DEF Agrees
  <1>6. c \in 0 .. MaxNodes
    BY <1>4, <1>5, MaxNodesAssumption
  <1>7. U \in SUBSET Bits
    BY DEF NodeStoragePage
  <1>8. /\ U = (M \ {i}) \cup INITIAL_USAGE_BITMAP
        /\ (M \ {i}) \cap INITIAL_USAGE_BITMAP = {}
    BY DEF Agrees
  <1> HIDE DEF U, c
  <1>9. /\ q \in NodeStoragePage
        /\ q.usage_bitmap = U /\ q.free_entries = c
        /\ q.next_page = p.next_page /\ q.prev_page = p.prev_page
    BY <1>1, <1>6, <1>7, Zenon DEF NodeStoragePage
  <1> QED
    BY <1>5, <1>8, <1>9 DEF Agrees
-----------------------------------------------------------------------------
\* The steps.

LEMMA InitIInv == Init => IInv
  <1> SUFFICES ASSUME Init PROVE IInv
    OBVIOUS
  <1>1. /\ head \in Frames /\ DOMAIN page = {head} /\ page[head] = NewWithPrevPage(Null)
        /\ page = [f \in {head} |-> NewWithPrevPage(Null)]
        /\ live = {} /\ status = "ok"
    BY DEF Init
  <1>2. /\ NewWithPrevPage(Null) \in NodeStoragePage
        /\ Agrees(NewWithPrevPage(Null), {})
        /\ NewWithPrevPage(Null).next_page = Null /\ NewWithPrevPage(Null).prev_page = Null
    BY NewAgrees
  <1>3. TypeOK
    BY <1>1, <1>2 DEF TypeOK
  <1>4. Linked
    BY <1>1, <1>2 DEF Linked
  <1>5. Chained
    <2> DEFINE list == [k \in 1 .. 1 |-> head]
    <2>1. list \in [1 .. 1 -> DOMAIN page] /\ list[1] = head
      BY <1>1
    <2>2. IsList(1, list)
      BY <1>1, <1>2, <2>1 DEF IsList
    <2>3. Numbering(1, list)
      <3> HIDE DEF list
      <3> QED
        BY <2>1, <2>2 DEF Numbering
    <2> QED
      BY <2>3 DEF Chained
  <1>6. Counted
    <2>1. Mine(head) = {}
      BY <1>1 DEF Mine
    <2> QED
      BY <1>1, <1>2, <2>1 DEF Counted
  <1>7. PagesInUse
    BY <1>1 DEF PagesInUse
  <1> QED
    BY <1>3, <1>4, <1>5, <1>6, <1>7 DEF IInv

\* Only the status changes: an assertion has failed.
LEMMA FailedKeeps ==
  ASSUME IInv, UNCHANGED <<page, head, live>>, status' \in {"ok", "entry_index", "unreachable"}
  PROVE  IInv'
  <1>1. TypeOK'
    BY DEF IInv, TypeOK
  <1>2. Linked' /\ Chained'
    BY LinksSame DEF IInv
  <1>3. Counted' /\ PagesInUse'
    BY DEF IInv, Counted, PagesInUse, Mine
  <1> QED
    BY <1>1, <1>2, <1>3 DEF IInv

\* The nodes of the other pages are the same.
LEMMA MineOfOthers ==
  ASSUME NEW f, NEW i, live' \in {live \cup {<<f, i>>}, live \ {<<f, i>>}}
  PROVE  \A g : g # f => Mine(g)' = Mine(g)
  BY DEF Mine

LEMMA FindAndReserveKeeps ==
  ASSUME IInv, NEW f \in DOMAIN page, FindAndReserveNode(f)
  PROVE  IInv'
  <1> DEFINE p == page[f]
             b == FirstClear(p)
  <1>1. ReserveIn(page, f, p) /\ head' = head
    BY DEF FindAndReserveNode, ReserveIn
  <1>2. CASE UNCHANGED <<page, live>> /\ status' \in {"entry_index", "unreachable"}
    BY <1>1, <1>2, FailedKeeps
  <1>3. CASE Bits \ p.usage_bitmap # {} /\ b \in Entry
    <2>1. /\ page' = [g \in DOMAIN page \cup {f} |-> IF g = f THEN Reserved(p) ELSE page[g]]
          /\ live' = live \cup {<<f, b>>} /\ status' = status
      BY <1>1, <1>3 DEF ReserveIn
    <2>2. /\ DOMAIN page' = DOMAIN page /\ page'[f] = Reserved(p)
          /\ \A g \in DOMAIN page \ {f} : page'[g] = page[g]
      BY <2>1
    <2>3. /\ p \in NodeStoragePage /\ Agrees(p, Mine(f)) /\ Mine(f) \in SUBSET Entry
          /\ f \in Frames
      BY DEF IInv, TypeOK, Counted, Mine
    <2>4. /\ Reserved(p) \in NodeStoragePage
          /\ Reserved(p).next_page = p.next_page /\ Reserved(p).prev_page = p.prev_page
          /\ Agrees(Reserved(p), Mine(f) \cup {b})
      BY <1>3, <2>3, ReservedAgrees
    <2> HIDE DEF b
    <2>5. Mine(f)' = Mine(f) \cup {b}
      BY <1>3, <2>1 DEF Mine
    <2>6. \A g : g # f => Mine(g)' = Mine(g)
      BY <2>1 DEF Mine
    <2>7. TypeOK'
      <3>1. \A g \in DOMAIN page : page'[g] \in NodeStoragePage
        BY <2>2, <2>4 DEF IInv, TypeOK
      <3>2. page' = [g \in DOMAIN page' |-> page'[g]]
        BY <2>1
      <3>3. live' \subseteq Frames \X Entry
        BY <1>3, <2>1, <2>3 DEF IInv, TypeOK
      <3> QED
        BY <1>1, <2>1, <2>2, <3>1, <3>2, <3>3 DEF IInv, TypeOK
    <2>8. Linked' /\ Chained'
      <3>1. \A g \in DOMAIN page : /\ page'[g].next_page = page[g].next_page
                                   /\ page'[g].prev_page = page[g].prev_page
        BY <2>2, <2>4
      <3> QED
        BY <1>1, <2>2, <3>1, LinksSame DEF IInv
    <2>9. Counted'
      BY <2>2, <2>4, <2>5, <2>6 DEF IInv, Counted
    <2>10. PagesInUse'
      <3>1. \A n \in live' : n[1] \in DOMAIN page'
        BY <2>1, <2>2 DEF IInv, PagesInUse
      <3>2. \A g \in DOMAIN page' \ {head'} : \E i \in Entry : <<g, i>> \in live'
        BY <1>1, <2>1, <2>2, Zenon DEF IInv, PagesInUse
      <3> QED
        BY <3>1, <3>2 DEF PagesInUse
    <2> QED
      BY <2>7, <2>8, <2>9, <2>10 DEF IInv
  <1> QED
    BY <1>1, <1>2, <1>3 DEF ReserveIn

LEMMA ReserveInNewPageKeeps ==
  ASSUME IInv, NEW last \in DOMAIN page, NEW new \in Frames \ DOMAIN page,
         ReserveInNewPage(last, new)
  PROVE  IInv'
  <1> DEFINE linked == [page EXCEPT ![last].next_page = new]
             p == NewWithPrevPage(last)
             b == FirstClear(p)
  <1>1. /\ ReserveIn(linked, new, p) /\ head' = head
        /\ page[last].free_entries = 0 /\ SearchEndsAt(last)
    BY DEF ReserveInNewPage, ReserveIn
  <1>2. CASE UNCHANGED <<page, live>> /\ status' \in {"entry_index", "unreachable"}
    BY <1>1, <1>2, FailedKeeps
  <1>3. CASE Bits \ p.usage_bitmap # {} /\ b \in Entry
    <2>1. /\ page' = [g \in DOMAIN linked \cup {new} |-> IF g = new THEN Reserved(p) ELSE linked[g]]
          /\ live' = live \cup {<<new, b>>} /\ status' = status
      BY <1>1, <1>3 DEF ReserveIn
    <2>2. page[last].next_page = Null
      BY <1>1 DEF SearchEndsAt
    <2>3. /\ last \in Frames /\ page[last] \in NodeStoragePage
          /\ \A g \in DOMAIN page : page[g] \in NodeStoragePage
      BY DEF IInv, TypeOK
    <2>4. /\ p \in NodeStoragePage /\ Agrees(p, {}) /\ p.next_page = Null /\ p.prev_page = last
      BY <2>3, NewAgrees
    <2>5. /\ Reserved(p) \in NodeStoragePage
          /\ Reserved(p).next_page = Null /\ Reserved(p).prev_page = last
          /\ Agrees(Reserved(p), {} \cup {b})
      <3> HIDE DEF p
      <3> QED
        BY <1>3, <2>4, ReservedAgrees
    <2> DEFINE e == [page[last] EXCEPT !.next_page = new]
    <2>6. /\ DOMAIN page' = DOMAIN page \cup {new} /\ page'[new] = Reserved(p)
          /\ page'[last] = e
          /\ \A g \in DOMAIN page \ {last} : page'[g] = page[g]
      BY <2>1
    <2>7. /\ e \in NodeStoragePage /\ e.next_page = new
          /\ e.prev_page = page[last].prev_page
          /\ e.usage_bitmap = page[last].usage_bitmap /\ e.free_entries = page[last].free_entries
      BY <2>3 DEF NodeStoragePage
    <2>8. page' = [g \in DOMAIN page' |-> page'[g]]
      BY <2>1
    <2> HIDE DEF b, e, p
    <2>9. Mine(new) = {}
      BY DEF IInv, PagesInUse, Mine
    <2>10. Mine(new)' = {b}
      <3>1. Mine(new)' = Mine(new) \cup {b}
        BY <1>3, <2>1 DEF Mine
      <3> QED
        BY <2>9, <3>1
    <2>11. \A g : g # new => Mine(g)' = Mine(g)
      BY <2>1, MineOfOthers
    <2>12. TypeOK'
      <3>1. \A g \in DOMAIN page' : page'[g] \in NodeStoragePage
        BY <2>3, <2>5, <2>6, <2>7
      <3>2. live' \subseteq Frames \X Entry
        BY <1>3, <2>1 DEF IInv, TypeOK
      <3>3. DOMAIN page' \subseteq Frames /\ head' \in DOMAIN page'
        BY <1>1, <2>6 DEF IInv, TypeOK
      <3> QED
        BY <2>1, <2>8, <3>1, <3>2, <3>3 DEF IInv, TypeOK
    <2>13. Linked' /\ Chained'
      BY <1>1, <2>2, <2>5, <2>6, <2>7, LinksAppend DEF IInv
    <2>14. Counted'
      <3> SUFFICES ASSUME NEW g \in DOMAIN page' PROVE Agrees(page'[g], Mine(g)')
        BY DEF Counted, Agrees
      <3>1. CASE g = new
        BY <2>5, <2>6, <2>10, <3>1
      <3>2. CASE g # new
        <4>1. /\ g \in DOMAIN page /\ page'[g].usage_bitmap = page[g].usage_bitmap
              /\ page'[g].free_entries = page[g].free_entries
          BY <2>6, <2>7, <3>2
        <4> QED
          BY <2>11, <3>2, <4>1 DEF IInv, Counted, Agrees
      <3> QED
        BY <3>1, <3>2
    <2>15. PagesInUse'
      <3>1. \A n \in live' : n[1] \in DOMAIN page'
        BY <2>1, <2>6 DEF IInv, PagesInUse
      <3>2. \A g \in DOMAIN page' \ {head'} : \E i \in Entry : <<g, i>> \in live'
        BY <1>1, <1>3, <2>1, <2>6 DEF IInv, PagesInUse
      <3> QED
        BY <3>1, <3>2 DEF PagesInUse
    <2> QED
      BY <2>12, <2>13, <2>14, <2>15 DEF IInv
  <1> QED
    BY <1>1, <1>2, <1>3 DEF ReserveIn

\* free_entries says whether the node is the only one in use on its page.
LEMMA OnlyNode ==
  ASSUME NEW p \in NodeStoragePage, NEW M \in SUBSET Entry, Agrees(p, M), NEW i \in M
  PROVE  p.free_entries + 1 = MaxNodes <=> M = {i}
  <1>1. IsFiniteSet(M) /\ Cardinality(M) \in Nat
    BY EntriesFinite
  <1>2. p.free_entries + 1 = MaxNodes <=> Cardinality(M) = 1
    BY <1>1, MaxNodesAssumption DEF Agrees
  <1>3. Cardinality(M) = 1 <=> \E x : M = {x}
    BY <1>1, FS_Singleton
  <1> QED
    BY <1>2, <1>3

LEMMA FreeKeeps ==
  ASSUME IInv, NEW f \in DOMAIN page, NEW i \in Entry, Free(f, i)
  PROVE  IInv'
  <1> DEFINE p == page[f]
  <1>1. /\ <<f, i>> \in live /\ live' = live \ {<<f, i>>} /\ head' = head /\ status' = status
        /\ page' = UnreserveNode(f, i)
    BY DEF Free
  <1>2. /\ p \in NodeStoragePage /\ Agrees(p, Mine(f)) /\ Mine(f) \in SUBSET Entry
        /\ i \in Mine(f) /\ f \in Frames
    BY <1>1 DEF IInv, TypeOK, Counted, Mine
  <1>3. Mine(f)' = Mine(f) \ {i}
    BY <1>1 DEF Mine
  <1>4. \A g : g # f => Mine(g)' = Mine(g)
    BY <1>1, MineOfOthers
  <1>5. p.free_entries + 1 = MaxNodes <=> Mine(f) = {i}
    BY <1>2, OnlyNode
  <1>6. live' \subseteq Frames \X Entry
    BY <1>1 DEF IInv, TypeOK
  <1>7. f # head <=> p.prev_page # Null
    BY PagesAreFrames DEF IInv, Linked
  <1>8. CASE Mine(f) = {i} /\ f # head
    <2>1. page' = Unlink(f)
      BY <1>1, <1>5, <1>7, <1>8 DEF UnreserveNode
    <2>2. Linked' /\ Chained'
      BY <1>1, <1>8, <2>1, LinksRemove DEF IInv
    <2>3. DOMAIN page' = DOMAIN page \ {f}
      BY <2>1 DEF Unlink
    <2>4. ASSUME NEW g \in DOMAIN page'
          PROVE  /\ page'[g] \in NodeStoragePage
                 /\ page'[g].usage_bitmap = page[g].usage_bitmap
                 /\ page'[g].free_entries = page[g].free_entries
      <3>1. g \in DOMAIN page \ {f} /\ page[g] \in NodeStoragePage
        BY <2>3 DEF IInv, TypeOK
      <3>2. {p.prev_page, p.next_page} \subseteq Frames \cup {Null}
        BY <1>2 DEF NodeStoragePage
      <3>3. page'[g] \in {page[g], [page[g] EXCEPT !.prev_page = p.prev_page],
                          [page[g] EXCEPT !.next_page = p.next_page]}
        BY <2>1, <3>1 DEF Unlink
      <3> HIDE DEF p
      <3> QED
        BY <3>1, <3>2, <3>3 DEF NodeStoragePage
    <2>5. TypeOK'
      <3>1. page' = [g \in DOMAIN page' |-> page'[g]]
        BY <2>1 DEF Unlink
      <3>2. DOMAIN page' \subseteq Frames /\ head' \in DOMAIN page'
        BY <1>1, <1>8, <2>3 DEF IInv, TypeOK
      <3> QED
        BY <1>1, <1>6, <2>4, <3>1, <3>2 DEF IInv, TypeOK
    <2>6. Counted'
      <3> SUFFICES ASSUME NEW g \in DOMAIN page' PROVE Agrees(page'[g], Mine(g)')
        BY DEF Counted, Agrees
      <3>1. g \in DOMAIN page /\ g # f
        BY <2>3
      <3> QED
        BY <1>4, <2>4, <3>1 DEF IInv, Counted, Agrees
    <2>7. PagesInUse'
      <3>1. ASSUME NEW n \in live' PROVE n[1] \in DOMAIN page'
        <4>1. n \in live /\ n # <<f, i>> /\ n[1] \in DOMAIN page
          BY <1>1 DEF IInv, PagesInUse
        <4>2. PICK g \in Frames, e \in Entry : n = <<g, e>>
          BY <4>1 DEF IInv, TypeOK
        <4>3. g = f => e \in Mine(f)
          BY <4>1, <4>2 DEF Mine
        <4> QED
          BY <1>8, <2>3, <4>1, <4>2, <4>3
      <3>2. ASSUME NEW g \in DOMAIN page' \ {head'} PROVE \E e \in Entry : <<g, e>> \in live'
        <4>1. g \in DOMAIN page \ {head} /\ g # f
          BY <1>1, <2>3
        <4>2. PICK e \in Entry : <<g, e>> \in live
          BY <4>1 DEF IInv, PagesInUse
        <4> QED
          BY <1>1, <4>1, <4>2
      <3> QED
        BY <3>1, <3>2, Zenon DEF PagesInUse
    <2> QED
      BY <2>2, <2>5, <2>6, <2>7 DEF IInv
  <1>9. CASE Mine(f) # {i} \/ f = head
    <2> DEFINE q == [p EXCEPT !.usage_bitmap = @ \ {i}, !.free_entries = @ + 1]
    <2>1. page' = [page EXCEPT ![f].usage_bitmap = @ \ {i}, ![f].free_entries = @ + 1]
      BY <1>1, <1>5, <1>7, <1>9 DEF UnreserveNode
    <2>2. /\ DOMAIN page' = DOMAIN page /\ page'[f] = q
          /\ \A g \in DOMAIN page \ {f} : page'[g] = page[g]
          /\ page' = [g \in DOMAIN page' |-> page'[g]]
      BY <2>1, <1>2, Zenon DEF NodeStoragePage, IInv, TypeOK
    <2>3. /\ q \in NodeStoragePage
          /\ q.next_page = p.next_page /\ q.prev_page = p.prev_page
          /\ Agrees(q, Mine(f) \ {i})
      BY <1>2, UnreservedAgrees, Zenon
    <2> HIDE DEF q
    <2>4. Linked' /\ Chained'
      <3>1. \A g \in DOMAIN page : /\ page'[g].next_page = page[g].next_page
                                   /\ page'[g].prev_page = page[g].prev_page
        BY <2>2, <2>3
      <3> QED
        BY <1>1, <2>2, <3>1, LinksSame DEF IInv
    <2>5. TypeOK'
      <3>1. \A g \in DOMAIN page' : page'[g] \in NodeStoragePage
        BY <2>2, <2>3 DEF IInv, TypeOK
      <3> QED
        BY <1>1, <1>6, <2>2, <3>1 DEF IInv, TypeOK
    <2>6. Counted'
      <3> SUFFICES ASSUME NEW g \in DOMAIN page' PROVE Agrees(page'[g], Mine(g)')
        BY DEF Counted, Agrees
      <3>1. CASE g = f
        BY <1>3, <2>2, <2>3, <3>1
      <3>2. CASE g # f
        BY <1>4, <2>2, <3>2 DEF IInv, Counted
      <3> QED
        BY <3>1, <3>2
    <2>7. PagesInUse'
      <3>1. \A n \in live' : n[1] \in DOMAIN page'
        BY <1>1, <2>2 DEF IInv, PagesInUse
      <3>2. ASSUME NEW g \in DOMAIN page' \ {head'} PROVE \E e \in Entry : <<g, e>> \in live'
        <4>1. g \in DOMAIN page \ {head}
          BY <1>1, <2>2
        <4>2. CASE g = f
          <5>1. PICK e \in Mine(f) : e # i
            BY <1>1, <1>2, <1>9, <4>1, <4>2
          <5> QED
            BY <1>1, <4>2, <5>1 DEF Mine
        <4>3. CASE g # f
          <5>1. PICK e \in Entry : <<g, e>> \in live
            BY <4>1 DEF IInv, PagesInUse
          <5> QED
            BY <1>1, <4>3, <5>1
        <4> QED
          BY <4>2, <4>3
      <3> QED
        BY <3>1, <3>2, Zenon DEF PagesInUse
    <2> QED
      BY <2>4, <2>5, <2>6, <2>7 DEF IInv
  <1> QED
    BY <1>8, <1>9

LEMMA NextIInv == IInv /\ [Next]_vars => IInv'
  <1> SUFFICES ASSUME IInv, [Next]_vars PROVE IInv'
    OBVIOUS
  <1>1. CASE \E f \in DOMAIN page : FindAndReserveNode(f)
    BY <1>1, FindAndReserveKeeps
  <1>2. CASE \E last \in DOMAIN page, new_page \in Frames \ DOMAIN page :
               ReserveInNewPage(last, new_page)
    BY <1>2, ReserveInNewPageKeeps
  <1>3. CASE \E f \in DOMAIN page, i \in Entry : Free(f, i)
    BY <1>3, FreeKeeps
  <1>4. CASE UNCHANGED vars
    <2>1. UNCHANGED <<page, head, live>> /\ status' = status
      BY <1>4 DEF vars
    <2>2. status' \in {"ok", "entry_index", "unreachable"}
      BY <2>1 DEF IInv, TypeOK
    <2> QED
      BY <2>1, <2>2, FailedKeeps
  <1> QED
    BY <1>1, <1>2, <1>3, <1>4 DEF Next

\* A numbering has as many numbers as there are pages.
LEMMA NumberOfPages ==
  ASSUME NEW n \in Nat \ {0}, NEW list, Numbering(n, list)
  PROVE  Cardinality(DOMAIN page) = n
  <1>1. IsFiniteSet(1 .. n) /\ Cardinality(1 .. n) = n
    BY FS_Interval
  <1>2. list \in Surjection(1 .. n, DOMAIN page) /\ list \in Injection(1 .. n, DOMAIN page)
    BY DEF Numbering, IsList, Surjection, Injection, IsInjective
  <1> QED
    BY <1>1, <1>2, FS_Surjection

\* The pages are one list from head on, and bitmaps and counts are exact, after
\* any order of find_and_reserve_node and NodePtr::free.
THEOREM PagesAreOneList == Spec => []ListSound
  <1>1. IInv => ListSound
    <2> SUFFICES ASSUME IInv PROVE ListSound
      OBVIOUS
    <2>n. PICK n \in Nat \ {0} : \E list : Numbering(n, list)
      BY DEF IInv, Chained
    <2>1. PICK list : Numbering(n, list)
      BY <2>n
    <2>2. Cardinality(DOMAIN page) = n
      BY <2>1, NumberOfPages
    <2>3. list \in [1 .. Cardinality(DOMAIN page) -> DOMAIN page]
          /\ IsList(Cardinality(DOMAIN page), list)
      BY <2>1, <2>2 DEF Numbering
    <2>4. ASSUME NEW f \in DOMAIN page
          PROVE  /\ page[f].usage_bitmap \cap Entry = Mine(f) \cup (INITIAL_USAGE_BITMAP \cap Entry)
                 /\ page[f].free_entries = MaxNodes - Cardinality(Mine(f))
      <3>1. Mine(f) \subseteq Entry /\ Agrees(page[f], Mine(f))
        BY DEF IInv, Counted, Mine
      <3> QED
        BY <3>1 DEF Agrees
    <2> QED
      BY <2>3, <2>4 DEF IInv, Linked, ListSound
  <1> QED
    BY InitIInv, NextIInv, <1>1, PTL DEF Spec

\* unreserve_node gives a page back exactly when its last node is freed, so that
\* no node is left on a page that was given back and no page is kept empty.
THEOREM EmptyPagesGivenBack == Spec => []PagesInUse
  <1>1. IInv => PagesInUse
    BY DEF IInv
  <1> QED
    BY InitIInv, NextIInv, <1>1, PTL DEF Spec

\* The search of find_and_reserve_node ends, whatever pages were added and
\* unlinked: it never goes round in a circle.
THEOREM SearchEnds == Spec => [](\E f \in DOMAIN page : SearchEndsAt(f))
  <1>1. IInv => \E f \in DOMAIN page : SearchEndsAt(f)
    <2> SUFFICES ASSUME IInv PROVE \E f \in DOMAIN page : SearchEndsAt(f)
      OBVIOUS
    <2>n. PICK n \in Nat \ {0} : \E list : Numbering(n, list)
      BY DEF IInv, Chained
    <2>1. PICK list : Numbering(n, list)
      BY <2>n
    <2>2. /\ Cardinality(DOMAIN page) = n
          /\ \A k \in 1 .. n : /\ list[k] \in DOMAIN page
                               /\ page[list[k]].next_page = Null <=> k = n
                               /\ k < n => page[list[k]].next_page = list[k + 1]
      BY <2>1, NumberOfPages, LastPage DEF IInv
    <2> DEFINE Ends == {k \in 1 .. n : page[list[k]].free_entries > 0 \/ k = n}
    <2>3. n \in Ends /\ Ends \in SUBSET Nat
      OBVIOUS
    <2>4. PICK m \in Ends : \A k \in Ends : m <= k
      BY <2>3, LeastNatural, Zenon
    <2>5. m \in 1 .. n /\ (page[list[m]].free_entries > 0 \/ m = n)
      BY <2>4
    <2>6. ASSUME NEW k \in 1 .. m - 1
          PROVE  page[list[k]].free_entries = 0 /\ page[list[k]].next_page = list[k + 1]
      <3>1. k \in 1 .. n /\ k < n /\ ~(m <= k)
        BY <2>5
      <3>2. k \notin Ends
        BY <2>4, <3>1
      <3>3. page[list[k]].free_entries \in Nat
        BY <2>2, <3>1, MaxNodesAssumption DEF IInv, TypeOK, NodeStoragePage
      <3> QED
        BY <2>2, <3>1, <3>2, <3>3
    <2> HIDE DEF Ends
    <2> DEFINE path == [k \in 1 .. m |-> list[k]]
    <2>7. path \in [1 .. m -> DOMAIN page]
      BY <2>2, <2>5
    <2>8. path[1] = head /\ path[m] = list[m]
      BY <2>1, <2>5 DEF Numbering, IsList
    <2>9. \A k \in 1 .. m - 1 :
            page[path[k]].free_entries = 0 /\ page[path[k]].next_page = path[k + 1]
      BY <2>5, <2>6
    <2> HIDE DEF path
    <2>10. SearchEndsAt(list[m])
      BY <2>2, <2>5, <2>7, <2>8, <2>9, Zenon DEF SearchEndsAt
    <2> QED
      BY <2>2, <2>5, <2>10
  <1> QED
    BY InitIInv, NextIInv, <1>1, PTL DEF Spec

\* find_and_reserve_node finds a clear bit on a page that counts a free entry.
\* It is past the end only if the last byte is not full and all entries before
\* that byte are in use.
LEMMA ClearBit ==
  ASSUME NEW p \in NodeStoragePage, NEW M \in SUBSET Entry, Agrees(p, M), p.free_entries > 0
  PROVE  /\ Bits \ p.usage_bitmap # {}
         /\ FirstClear(p) \notin Entry => MaxNodes % BitsPerByte # 0 /\ FullBytes \subseteq M
  <1> DEFINE Clear == Bits \ p.usage_bitmap
  <1>1. p.usage_bitmap = M \cup INITIAL_USAGE_BITMAP
    BY DEF Agrees
  <1>2. M # Entry
    <2>1. Cardinality(Entry) = MaxNodes
      BY MaxNodesAssumption, FS_Interval DEF Entry
    <2>2. p.free_entries = MaxNodes - Cardinality(M)
      BY DEF Agrees
    <2> QED
      BY <2>1, <2>2, MaxNodesAssumption
  <1>3. MaxNodes \notin Entry
    BY MaxNodesAssumption DEF Entry
  <1>4. Clear # {}
    <2>1. CASE MaxNodes % BitsPerByte = 0
      BY <1>1, <1>2, <2>1, BitmapLength
    <2>2. CASE MaxNodes % BitsPerByte # 0
      BY <1>1, <1>3, <2>2, BitmapLength
    <2> QED
      BY <2>1, <2>2
  <1>5. ASSUME FirstClear(p) \notin Entry PROVE MaxNodes % BitsPerByte # 0 /\ FullBytes \subseteq M
    <2>1. Clear \in SUBSET Nat
      BY BitmapLength, Zenon
    <2>2. \E y \in Clear : \A z \in Clear : y <= z
      BY <1>4, <2>1, LeastNatural, Zenon
    <2>3. FirstClear(p) \in Clear /\ \A z \in Clear : FirstClear(p) <= z
      BY <2>2 DEF FirstClear
    <2>4. MaxNodes % BitsPerByte # 0
      BY <1>5, <2>3, BitmapLength
    <2>5. ASSUME NEW i \in FullBytes PROVE i \in M
      <3>1. i \in Entry /\ i \notin INITIAL_USAGE_BITMAP
        BY BitmapLength
      <3>2. i \in Bits /\ i \in Nat /\ i < MaxNodes
        BY <3>1, BitmapLength, MaxNodesAssumption DEF Entry
      <3>3. FirstClear(p) \in Nat /\ ~(FirstClear(p) < MaxNodes)
        BY <1>5, <2>1, <2>3, MaxNodesAssumption DEF Entry
      <3>4. i \notin Clear
        BY <2>3, <3>2, <3>3, MaxNodesAssumption
      <3> QED
        BY <1>1, <3>1, <3>2, <3>4
    <2> QED
      BY <2>4, <2>5
  <1> QED
    BY <1>4, <1>5

\* Whatever the number of entries, also where the mask of the last byte is
\* inverted as in the kernel, a page gives out all entries of its full bytes
\* before an assertion of find_and_reserve_node fails, and only the one on
\* entry_index does.
THEOREM FailsOnlyAtLastByte == Spec => []FailsAtLastByte
  <1>1. Init => FailsAtLastByte
    BY DEF Init, FailsAtLastByte
  <1>2. IInv /\ FailsAtLastByte /\ [Next]_vars => FailsAtLastByte'
    <2> SUFFICES ASSUME IInv, FailsAtLastByte, [Next]_vars PROVE FailsAtLastByte'
      OBVIOUS
    <2>1. ASSUME NEW f \in DOMAIN page, FindAndReserveNode(f) PROVE FailsAtLastByte'
      <3>1. page[f] \in NodeStoragePage /\ Mine(f) \in SUBSET Entry /\ Agrees(page[f], Mine(f))
        BY DEF IInv, TypeOK, Counted, Mine
      <3>2. status = "ok" /\ page[f].free_entries > 0 /\ ReserveIn(page, f, page[f])
        BY <2>1 DEF FindAndReserveNode
      <3>3. /\ Bits \ page[f].usage_bitmap # {}
            /\ FirstClear(page[f]) \notin Entry =>
                 MaxNodes % BitsPerByte # 0 /\ FullBytes \subseteq Mine(f)
        BY <3>1, <3>2, ClearBit
      <3>4. \/ status' = "ok"
            \/ /\ status' = "entry_index" /\ page' = page /\ live' = live
               /\ FirstClear(page[f]) \notin Entry
        BY <3>2, <3>3, Zenon DEF ReserveIn
      <3> QED
        BY <3>3, <3>4, Zenon DEF FailsAtLastByte, Mine
    <2>2. ASSUME NEW last \in DOMAIN page, NEW new \in Frames \ DOMAIN page,
                 ReserveInNewPage(last, new)
          PROVE  FailsAtLastByte'
      <3> DEFINE p == NewWithPrevPage(last)
      <3>1. p \in NodeStoragePage /\ Agrees(p, {}) /\ p.free_entries > 0 /\ head \in DOMAIN page
        <4>1. last \in Frames /\ p.free_entries = MaxNodes /\ head \in DOMAIN page
          BY DEF IInv, TypeOK, NewWithPrevPage
        <4> QED
          BY <4>1, NewAgrees, MaxNodesAssumption
      <3>2. /\ status = "ok"
            /\ ReserveIn([page EXCEPT ![last].next_page = new], new, p)
        BY <2>2, Zenon DEF ReserveInNewPage
      <3> HIDE DEF p
      <3>3. /\ Bits \ p.usage_bitmap # {}
            /\ FirstClear(p) \notin Entry => MaxNodes % BitsPerByte # 0 /\ FullBytes \subseteq {}
        BY <3>1, ClearBit
      <3>4. \/ status' = "ok"
            \/ /\ status' = "entry_index" /\ page' = page /\ live' = live
               /\ FirstClear(p) \notin Entry
        BY <3>2, <3>3, Zenon DEF ReserveIn
      <3> QED
        BY <3>1, <3>3, <3>4, Zenon DEF FailsAtLastByte, Mine
    <2>3. CASE \E f \in DOMAIN page, i \in Entry : Free(f, i)
      BY <2>3, Zenon DEF Free, FailsAtLastByte
    <2>4. CASE UNCHANGED vars
      BY <2>4, Zenon DEF vars, FailsAtLastByte, Mine
    <2> QED
      BY <2>1, <2>2, <2>3, <2>4, Zenon DEF Next
  <1> QED
    BY InitIInv, NextIInv, <1>1, <1>2, PTL DEF Spec
-----------------------------------------------------------------------------
\* The segments of the allocator and its tasks.

\* A segment and a task have at least one address, and a task is inside its
\* own range.
NonEmpty ==
  /\ \A s \in segs : s.start <= s.end
  /\ \A k \in tasks : k.start <= k.current /\ k.current <= k.end

SegmentsIInv == SegmentsTypeOK /\ NonEmpty /\ SegmentsDisjoint /\ TasksOwnSegments /\ UnmapRefused

\* A range in a gap overlaps no segment: InGap only looks at where segments
\* start and at the one that contains the start of the range.
LEMMA InGapApart ==
  ASSUME SegmentsTypeOK, NonEmpty, NEW start \in Address, NEW end \in Address,
         start <= end, InGap(start, end), NEW s \in segs
  PROVE  ~(s.start <= end /\ start <= s.end)
<1>1. s.start \in Int /\ s.end \in Int /\ start \in Int /\ end \in Int /\ s.start <= s.end
  BY DEF SegmentsTypeOK, NonEmpty, Segment, Address
<1>2. ~(s.start <= start /\ start <= s.end) /\ ~(start < s.start /\ s.start <= end)
  BY DEF InGap, Contains
<1> QED BY <1>1, <1>2

LEMMA InitSegmentsIInv == AllocatorInit => SegmentsIInv
BY Zenon DEF AllocatorInit, SegmentsIInv, SegmentsTypeOK, NonEmpty, SegmentsDisjoint,
     TasksOwnSegments, UnmapRefused, Reply

\* start_try_map_at keeps the invariant: the new segment lies in a gap, and
\* every task has a segment, so the new task overlaps none.
LEMMA StartTryMapAtKeeps ==
  ASSUME SegmentsIInv, NEW start \in Address, NEW end \in Address, StartTryMapAt(start, end)
  PROVE  SegmentsIInv'
<1> USE DEF SegmentsIInv
<1>1. CASE UNCHANGED <<segs, tasks>>
  <2>1. reply' \in Reply /\ reply' # "UnmapTask" /\ UNCHANGED <<pages, halted, corrupt>>
    BY <1>1 DEF StartTryMapAt, Reply
  <2> QED BY <1>1, <2>1
    DEF SegmentsTypeOK, NonEmpty, SegmentsDisjoint, TasksOwnSegments, UnmapRefused, Overlap
<1>2. CASE ~UNCHANGED <<segs, tasks>>
  <2> DEFINE seg == [start |-> start, end |-> end, locked |-> TRUE]
             new == [start |-> start, end |-> end, current |-> start, failed |-> FALSE]
  <2>1. /\ start <= end /\ InGap(start, end) /\ reply' = "MapTask"
        /\ segs' = segs \cup {seg} /\ tasks' = tasks \cup {new} /\ ~corrupt
        /\ UNCHANGED <<pages, halted, corrupt>>
    BY <1>2 DEF StartTryMapAt, Running
  <2>2. seg \in Segment /\ new \in MapTask
    BY DEF Segment, MapTask
  <2>3. /\ seg.start = start /\ seg.end = end /\ seg.locked = TRUE
        /\ new.start = start /\ new.end = end /\ new.current = start
    OBVIOUS
  <2>4. \A s \in segs : ~(s.start <= end /\ start <= s.end)
    BY <2>1, InGapApart
  <2>5. \A k \in tasks : ~(k.start <= end /\ start <= k.end)
    BY <2>1, <2>4, Zenon DEF TasksOwnSegments
  <2> HIDE DEF seg, new
  <2>6. SegmentsTypeOK'
    BY <2>1, <2>2 DEF SegmentsTypeOK, Reply
  <2>7. NonEmpty'
    <3>1. start \in Int
      BY DEF Address
    <3> QED BY <2>1, <2>3, <3>1 DEF NonEmpty
  <2>8. SegmentsDisjoint'
    BY <2>1, <2>3, <2>4 DEF SegmentsDisjoint, Overlap
  <2>9. TasksOwnSegments'
    <3>1. \A k \in tasks' : [start |-> k.start, end |-> k.end, locked |-> TRUE] \in segs'
      BY <2>1, <2>3, Zenon DEF TasksOwnSegments, seg
    <3>2. \A k, l \in tasks' : k # l => ~Overlap(k, l)
      BY <2>1, <2>3, <2>5 DEF TasksOwnSegments, Overlap
    <3> QED BY <3>1, <3>2 DEF TasksOwnSegments
  <2>10. UnmapRefused'
    BY <2>1, <2>3 DEF UnmapRefused
  <2> QED BY <2>6, <2>7, <2>8, <2>9, <2>10
<1> QED BY <1>1, <1>2

\* start_unmap finds no unlocked segment and changes only the reply.
LEMMA StartUnmapKeeps ==
  ASSUME SegmentsIInv, NEW addr \in Address, StartUnmap(addr)
  PROVE  SegmentsIInv'
<1>1. {s \in {r \in segs : Contains(r, addr)} : ~s.locked} = {}
  BY DEF SegmentsIInv, UnmapRefused
<1>2. segs' = segs /\ UNCHANGED <<tasks, pages, halted, corrupt>>
  BY <1>1 DEF StartUnmap
<1>3. reply' \in Reply /\ reply' # "UnmapTask"
  BY <1>1 DEF StartUnmap, Reply
<1> QED BY <1>2, <1>3
  DEF SegmentsIInv, SegmentsTypeOK, NonEmpty, SegmentsDisjoint, TasksOwnSegments, UnmapRefused,
      Overlap

\* An iteration moves its task on and leaves it in its segment.
LEMMA MapPageKeeps ==
  ASSUME SegmentsIInv, NEW k \in tasks, MapPage(k)
  PROVE  SegmentsIInv'
<1> USE DEF SegmentsIInv
<1>1. segs' = segs /\ reply' = reply /\ corrupt' = corrupt /\ halted' \in BOOLEAN
  BY Zenon DEF MapPage, SegmentsTypeOK
<1>2. CASE UNCHANGED <<tasks, pages>>
  BY <1>1, <1>2 DEF SegmentsTypeOK, NonEmpty, SegmentsDisjoint, TasksOwnSegments, UnmapRefused,
                    Overlap
<1>3. CASE ~UNCHANGED <<tasks, pages>>
  <2> DEFINE new == [k EXCEPT !.current = @ + 1]
  <2>1. pages' = pages \cup {k.current} /\ tasks' = (tasks \ {k}) \cup {new} /\ k.current < k.end
    BY <1>3 DEF MapPage
  <2>2. /\ k.start \in Address /\ k.end \in Address /\ k.current \in Address
        /\ k.start <= k.current
    BY DEF SegmentsTypeOK, MapTask, NonEmpty
  <2>3. k.current + 1 \in Address /\ k.start <= k.current + 1 /\ k.current + 1 <= k.end
    BY <2>1, <2>2, AddressAssumption DEF Address
  <2>0. k \in MapTask
    BY DEF SegmentsTypeOK
  <2>4. new \in MapTask /\ new.start = k.start /\ new.end = k.end /\ new.current = k.current + 1
    BY <2>0, <2>3 DEF MapTask
  <2> HIDE DEF new
  <2>5. SegmentsTypeOK'
    BY <1>1, <2>1, <2>2, <2>4 DEF SegmentsTypeOK
  <2>6. NonEmpty' /\ SegmentsDisjoint'
    BY <1>1, <2>1, <2>3, <2>4 DEF NonEmpty, SegmentsDisjoint, Overlap
  <2>7. TasksOwnSegments'
    BY <1>1, <2>1, <2>4 DEF TasksOwnSegments, Overlap
  <2>8. UnmapRefused'
    BY <1>1, <2>1, <2>4 DEF UnmapRefused
  <2> QED BY <2>5, <2>6, <2>7, <2>8
<1> QED BY <1>2, <1>3

\* The last iteration deletes the segment of its task and no other.
LEMMA MapLastPageKeeps ==
  ASSUME SegmentsIInv, NEW k \in tasks, MapLastPage(k)
  PROVE  SegmentsIInv'
<1> USE DEF SegmentsIInv
<1>1. /\ pages' = pages \cup {k.current} /\ tasks' = tasks \ {k}
      /\ segs' = {s \in segs : ~(s.start <= k.start /\ k.start <= s.end)}
      /\ reply' = reply /\ halted' = halted /\ corrupt' = corrupt /\ ~corrupt
  BY DEF MapLastPage, Contains, Running
<1>2. k.current \in Address /\ k.start \in Int /\ k.current \in Int /\ k.end \in Int
  BY DEF SegmentsTypeOK, MapTask, Address
<1>3. k.start <= k.end
  BY <1>2 DEF NonEmpty
<1>4. SegmentsTypeOK' /\ NonEmpty' /\ SegmentsDisjoint'
  BY <1>1, <1>2 DEF SegmentsTypeOK, NonEmpty, SegmentsDisjoint, Overlap
<1>5. TasksOwnSegments'
  <2>1. SUFFICES ASSUME NEW l \in tasks, l # k
                 PROVE  [start |-> l.start, end |-> l.end, locked |-> TRUE] \in segs'
    BY <1>1 DEF TasksOwnSegments, Overlap
  <2>2. ~(l.start <= k.end /\ k.start <= l.end)
    BY <2>1 DEF TasksOwnSegments, Overlap
  <2>3. l.start \in Int /\ l.end \in Int
    BY DEF SegmentsTypeOK, MapTask, Address
  <2>4. ~(l.start <= k.start /\ k.start <= l.end)
    BY <1>2, <1>3, <2>2, <2>3
  <2> QED BY <1>1, <2>4 DEF TasksOwnSegments
<1>6. UnmapRefused'
  BY <1>1 DEF UnmapRefused
<1> QED BY <1>4, <1>5, <1>6

\* A deletion that corrupts the tree only removes segments.
LEMMA MapLastPageCorruptsKeeps ==
  ASSUME SegmentsIInv, NEW k \in tasks, NEW lost \in SUBSET segs, MapLastPageCorrupts(k, lost)
  PROVE  SegmentsIInv'
<1>1. /\ pages' = pages \cup {k.current} /\ tasks' = tasks \ {k} /\ segs' \subseteq segs
      /\ reply' = reply /\ halted' = halted /\ corrupt' = TRUE
  BY DEF MapLastPageCorrupts
<1>2. k.current \in Address
  BY DEF SegmentsIInv, SegmentsTypeOK, MapTask
<1> QED BY <1>1, <1>2
  DEF SegmentsIInv, SegmentsTypeOK, NonEmpty, SegmentsDisjoint, TasksOwnSegments, UnmapRefused,
      Overlap

\* A task that has failed keeps its segment.
LEMMA MapOutOfMemoryKeeps ==
  ASSUME SegmentsIInv, NEW k \in tasks, MapOutOfMemory(k)
  PROVE  SegmentsIInv'
<1> USE DEF SegmentsIInv
<1> DEFINE new == [k EXCEPT !.failed = TRUE]
<1>1. UNCHANGED <<segs, pages, reply, halted, corrupt>> /\ tasks' = (tasks \ {k}) \cup {new}
  BY DEF MapOutOfMemory
<1>2. k \in MapTask
  BY DEF SegmentsTypeOK
<1>3. new \in MapTask /\ new.start = k.start /\ new.end = k.end /\ new.current = k.current
  BY <1>2, Zenon DEF MapTask
<1> HIDE DEF new
<1>4. SegmentsTypeOK' /\ NonEmpty' /\ SegmentsDisjoint'
  BY <1>1, <1>3 DEF SegmentsTypeOK, NonEmpty, SegmentsDisjoint, Overlap
<1>5. TasksOwnSegments'
  BY <1>1, <1>3 DEF TasksOwnSegments, Overlap
<1>6. UnmapRefused'
  BY <1>1 DEF UnmapRefused
<1> QED BY <1>4, <1>5, <1>6

\* The cleanup changes no segment, and may only end its task.
LEMMA RewindKeeps ==
  ASSUME SegmentsIInv, pages' \subseteq pages, tasks' \subseteq tasks, halted' \in BOOLEAN,
         UNCHANGED <<segs, reply, corrupt>>
  PROVE  SegmentsIInv'
BY DEF SegmentsIInv, SegmentsTypeOK, NonEmpty, SegmentsDisjoint, TasksOwnSegments,
     UnmapRefused, Overlap

LEMMA NextSegmentsIInv == SegmentsIInv /\ [AllocatorNext]_allocatorVars => SegmentsIInv'
<1> SUFFICES ASSUME SegmentsIInv, [AllocatorNext]_allocatorVars PROVE SegmentsIInv'
  OBVIOUS
<1>1. CASE \E start, end \in Address : StartTryMapAt(start, end)
  BY <1>1, StartTryMapAtKeeps
<1>2. CASE \E addr \in Address : StartUnmap(addr)
  BY <1>2, StartUnmapKeeps
<1>3. CASE \E k \in tasks : MapPage(k)
  BY <1>3, MapPageKeeps
<1>4. CASE \E k \in tasks : MapLastPage(k)
  BY <1>4, MapLastPageKeeps
<1>5. CASE \E k \in tasks : MapOutOfMemory(k)
  BY <1>5, MapOutOfMemoryKeeps
<1>6. CASE \E k \in tasks, unmapped \in SUBSET pages : Rewind(k, unmapped)
  BY <1>6, RewindKeeps DEF Rewind, SegmentsIInv, SegmentsTypeOK
<1>7. CASE \E k \in tasks, unmapped \in SUBSET pages : RewindDone(k, unmapped)
  BY <1>7, RewindKeeps DEF RewindDone, SegmentsIInv, SegmentsTypeOK
<1>8. CASE \E k \in tasks : RewindPanics(k)
  BY <1>8, RewindKeeps DEF RewindPanics
<1>10. CASE \E k \in tasks, lost \in SUBSET segs : MapLastPageCorrupts(k, lost)
  BY <1>10, MapLastPageCorruptsKeeps
<1>9. CASE UNCHANGED allocatorVars
  BY <1>9
    DEF allocatorVars, SegmentsIInv, SegmentsTypeOK, NonEmpty, SegmentsDisjoint,
        TasksOwnSegments, UnmapRefused, Overlap
<1> QED BY <1>1, <1>2, <1>3, <1>4, <1>5, <1>6, <1>7, <1>8, <1>9, <1>10 DEF AllocatorNext

\* However calls and tasks interleave, segments never overlap, start_unmap
\* returns no task, and each task runs on a locked segment of its own until a
\* deletion has reused temp_node while it was a leaf of the tree.
THEOREM SegmentsCorrect ==
  AllocatorSpec => [](SegmentsTypeOK /\ SegmentsDisjoint /\ TasksOwnSegments /\ UnmapRefused)
<1>1. SegmentsIInv => SegmentsTypeOK /\ SegmentsDisjoint /\ TasksOwnSegments /\ UnmapRefused
  BY DEF SegmentsIInv
<1> QED BY InitSegmentsIInv, NextSegmentsIInv, <1>1, PTL DEF AllocatorSpec

\* No two segments overlap, although start_try_map_at compares only the ends of
\* a gap while other tasks are suspended.
THEOREM SegmentsStayDisjoint == AllocatorSpec => []SegmentsDisjoint
  BY SegmentsCorrect, PTL
=============================================================================
