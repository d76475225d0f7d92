---------------------------- MODULE NodeStorage -----------------------------
(***************************************************************************)
(* The storage of the nodes of a VMATree (NodeStorageList, NodeStoragePage *)
(* and NodePtr::free in vma.rs): a doubly linked list of pages, each with  *)
(* an array of nodes, a bitmap of those in use and a count of free ones.   *)
(*                                                                         *)
(* A node is named by the frame of its page and its index.  A bit of the   *)
(* bitmap is named by its number: bytes are scanned from the most          *)
(* significant bit.  VMATree holds the lock of the tree, so that each      *)
(* operation is one step.  The pages_used counter of the callers is left   *)
(* out.                                                                    *)
(***************************************************************************)
EXTENDS Integers, FiniteSets

CONSTANTS
  MaxNodes,     \* MAX_NODES: entries of a page
  BitsPerByte,  \* bits of a byte of usage_bitmap
  Frames        \* frames that PhysicalBlockAllocator may return

ASSUME MaxNodesAssumption == MaxNodes \in Nat \ {0}
ASSUME BitsPerByteAssumption == BitsPerByte \in Nat \ {0}
ASSUME FramesAssumption == Frames \subseteq Nat

VARIABLES
  page,    \* frame -> NodeStoragePage, for the frames that hold one
  head,    \* the frame of the head page
  live,    \* nodes that are in use
  status   \* "ok", or the assertion that failed

vars == <<page, head, live, status>>

Null == -1
Entry == 0 .. MaxNodes - 1

BITMAP_LEN == MaxNodes \div BitsPerByte + (IF MaxNodes % BitsPerByte > 0 THEN 1 ELSE 0)
Bits == 0 .. BITMAP_LEN * BitsPerByte - 1

NodeStoragePage ==
  [usage_bitmap : SUBSET Bits, free_entries : 0 .. MaxNodes,
   next_page : Frames \cup {Null}, prev_page : Frames \cup {Null}]

TypeOK ==
  /\ DOMAIN page \subseteq Frames
  /\ page \in [DOMAIN page -> NodeStoragePage]
  /\ head \in DOMAIN page
  /\ live \subseteq Frames \X Entry
  /\ status \in {"ok", "entry_index", "unreachable"}

\* The bits that are set in a new page: if the last byte is not full,
\* !((0x80 >> (last_byte_entries - 1)) - 1) sets its first last_byte_entries.
INITIAL_USAGE_BITMAP ==
  LET last_byte_entries == MaxNodes % BitsPerByte
      last_byte == (BITMAP_LEN - 1) * BitsPerByte
  IN  IF last_byte_entries = 0 THEN {} ELSE last_byte .. last_byte + last_byte_entries - 1

NewWithPrevPage(prev_page) ==
  [usage_bitmap |-> INITIAL_USAGE_BITMAP, free_entries |-> MaxNodes,
   next_page |-> Null, prev_page |-> prev_page]

\* NodeStorageList::new
Init ==
  /\ head \in Frames
  /\ page = [f \in {head} |-> NewWithPrevPage(Null)]
  /\ live = {}
  /\ status = "ok"
-----------------------------------------------------------------------------
\* The search of find_and_reserve_node ends at page f: it follows the list from
\* its head, past pages that are full, until a page has a free entry or is the
\* last.  It meets no page twice, unless it does not end.
SearchEndsAt(f) ==
  /\ page[f].free_entries > 0 \/ page[f].next_page = Null
  /\ \E n \in 1 .. Cardinality(DOMAIN page) : \E path \in [1 .. n -> DOMAIN page] :
       /\ path[1] = head /\ path[n] = f
       /\ \A k \in 1 .. n - 1 :
            page[path[k]].free_entries = 0 /\ page[path[k]].next_page = path[k + 1]

FirstClear(p) ==
  CHOOSE b \in Bits \ p.usage_bitmap : \A c \in Bits \ p.usage_bitmap : b <= c

\* The page after NodeStoragePage::find_and_reserve_node.
Reserved(p) ==
  [p EXCEPT !.usage_bitmap = @ \cup {FirstClear(p)}, !.free_entries = @ - 1]

\* NodeStoragePage::find_and_reserve_node on the page p in frame f, where
\* pages is the rest of the list.
ReserveIn(pages, f, p) ==
  /\ IF Bits \ p.usage_bitmap = {}
     THEN status' = "unreachable" /\ UNCHANGED <<page, live>>
     ELSE IF FirstClear(p) \notin Entry
     THEN status' = "entry_index" /\ UNCHANGED <<page, live>>
     ELSE /\ page' = [g \in DOMAIN pages \cup {f} |-> IF g = f THEN Reserved(p) ELSE pages[g]]
          /\ live' = live \cup {<<f, FirstClear(p)>>}
          /\ UNCHANGED status
  /\ UNCHANGED head

\* find_and_reserve_node when a page of the list has a free entry.
FindAndReserveNode(f) ==
  /\ status = "ok"
  /\ SearchEndsAt(f)
  /\ page[f].free_entries > 0
  /\ ReserveIn(page, f, page[f])

\* find_and_reserve_node when every page is full: a page is added at the end
\* of the list.  Without a frame it returns OutOfMemory and nothing changes.
ReserveInNewPage(last, new_page) ==
  /\ status = "ok"
  /\ SearchEndsAt(last)
  /\ page[last].free_entries = 0
  /\ ReserveIn([page EXCEPT ![last].next_page = new_page],
               new_page, NewWithPrevPage(last))

\* Mutant: the page after the one that is unlinked keeps its prev_page.
UnlinkForward(f) ==
  [g \in DOMAIN page \ {f} |->
     IF g = page[f].prev_page THEN [page[g] EXCEPT !.next_page = page[f].next_page]
     ELSE page[g]]

\* The other pages of the list once f is unlinked.
Unlink(f) ==
  [g \in DOMAIN page \ {f} |->
     IF g = page[f].next_page THEN [page[g] EXCEPT !.prev_page = page[f].prev_page]
     ELSE IF g = page[f].prev_page THEN [page[g] EXCEPT !.next_page = page[f].next_page]
     ELSE page[g]]

\* Mutant: a page is only found empty after its last node was unreserved.
UnreserveNodeLate(f, i) ==
  IF page[f].free_entries = MaxNodes /\ page[f].prev_page # Null
  THEN Unlink(f)
  ELSE [page EXCEPT ![f].usage_bitmap = @ \ {i}, ![f].free_entries = @ + 1]

\* unreserve_node: the pages that remain.
UnreserveNode(f, i) ==
  IF page[f].free_entries + 1 = MaxNodes /\ page[f].prev_page # Null
  THEN Unlink(f)
  ELSE [page EXCEPT ![f].usage_bitmap = @ \ {i}, ![f].free_entries = @ + 1]

\* NodePtr::free on a node of the tree.
Free(f, i) ==
  /\ status = "ok"
  /\ <<f, i>> \in live
  /\ page' = UnreserveNode(f, i)
  /\ live' = live \ {<<f, i>>}
  /\ UNCHANGED <<head, status>>

Next ==
  \/ \E f \in DOMAIN page : FindAndReserveNode(f)
  \/ \E last \in DOMAIN page, new_page \in Frames \ DOMAIN page : ReserveInNewPage(last, new_page)
  \/ \E f \in DOMAIN page, i \in Entry : Free(f, i)

Spec == Init /\ [][Next]_vars
-----------------------------------------------------------------------------
\* The nodes in use on page f.
Mine(f) == {i \in Entry : <<f, i>> \in live}

\* The pages that are allocated, in the order in which next_page links them.
IsList(n, list) ==
  /\ list[1] = head
  /\ \A k \in 1 .. n - 1 : page[list[k]].next_page = list[k + 1]
  /\ page[list[n]].next_page = Null
  /\ \A f \in DOMAIN page : \E k \in 1 .. n : list[k] = f

\* After any order of reserving and freeing, next_page and prev_page link the
\* pages that are allocated into one list that starts at head: no page is lost
\* or searched twice, and none that was given back is still linked.  The bitmap
\* and the count of each page agree with its nodes that the tree uses, so that
\* find_and_reserve_node finds an entry whenever the count says there is one,
\* and never one that is in use.
ListSound ==
  /\ page[head].prev_page = Null
  /\ \A f \in DOMAIN page : page[f].next_page # Null =>
       page[f].next_page \in DOMAIN page /\ page[page[f].next_page].prev_page = f
  /\ \A f \in DOMAIN page \ {head} :
       page[f].prev_page \in DOMAIN page /\ page[page[f].prev_page].next_page = f
  /\ LET n == Cardinality(DOMAIN page) IN \E list \in [1 .. n -> DOMAIN page] : IsList(n, list)
  /\ \A f \in DOMAIN page :
       /\ page[f].usage_bitmap \cap Entry = Mine(f) \cup (INITIAL_USAGE_BITMAP \cap Entry)
       /\ page[f].free_entries = MaxNodes - Cardinality(Mine(f))

\* A page that becomes empty is given back at once, and a page with nodes in
\* use never is: the nodes are on pages of the list, and every page but the
\* head has one.
PagesInUse ==
  /\ \A n \in live : n[1] \in DOMAIN page
  /\ \A f \in DOMAIN page \ {head} : \E i \in Entry : <<f, i>> \in live

\* Entries past the end of the array are marked as not free, so that
\* find_and_reserve_node never returns one (its debug_assert).
EntryIndexInBounds == status = "ok"

\* The entries whose bytes of the bitmap are full.
FullBytes == 0 .. (MaxNodes \div BitsPerByte) * BitsPerByte - 1

\* find_and_reserve_node never comes to its unreachable!(), and its
\* debug_assert fails only where the last byte is not full, on a page all of
\* whose entries in full bytes are in use: a page gives out that many nodes.
FailsAtLastByte ==
  status # "ok" =>
    /\ status = "entry_index"
    /\ MaxNodes % BitsPerByte # 0
    /\ \E f \in DOMAIN page : FullBytes \subseteq Mine(f)
=============================================================================
