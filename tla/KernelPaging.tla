---------------------------- MODULE KernelPaging ----------------------------
(***************************************************************************)
(* The kernel's page tables: the mapping operations of                     *)
(* PageAllocatorInternal (arch/x86_64/page_allocation.rs) and the callers  *)
(* that change them, which are tls::init, init_heap, LocalApic::new and    *)
(* IoApic::new while the kernel starts, and the heap at any time after its *)
(* initialisation.                                                         *)
(*                                                                         *)
(* Addresses are page numbers.  tables[f] is the content of the frame f    *)
(* when it is used as a page table.  An entry keeps the bits that the code *)
(* tells apart: present, huge_page, writable, no_execute and the address.  *)
(* Every page is mapped with the flags READ_WRITE, which has no_execute    *)
(* set, and so has READ.  The bootloader's entries need not have it.       *)
(*                                                                         *)
(* Translation lookaside buffers are not modelled: map_page_translation    *)
(* and unmap_and_free_page never invalidate one.                           *)
(***************************************************************************)
EXTENDS PageBitmap, Sequences

CONSTANTS
  Levels,        \* levels of page tables (LEVEL_MASKS)
  Fanout,        \* entries of a table
  TotalPages,    \* num_pages given to PageAllocatorInternal::new
  BootReserved,  \* frames reserved when the kernel starts
  BootTables,    \* the page tables that the bootloader leaves
  Root,          \* page_table.address()
  BootMaps,      \* the mappings made while the kernel starts, in order
  HeapMaps,      \* those of them before which the heap is not used
  HeapPages      \* virtual pages that the heap maps and unmaps

\* The pages that an entry covers n levels above the last one.
Span[n \in 0 .. Levels] == IF n = 0 THEN 1 ELSE Fanout * Span[n - 1]

VirtualPage == 0 .. Span[Levels] - 1
Index == 0 .. Fanout - 1

Entry ==
  [present : BOOLEAN, huge : BOOLEAN, writable : BOOLEAN, no_execute : BOOLEAN, addr : Nat]
ZERO ==
  [present |-> FALSE, huge |-> FALSE, writable |-> FALSE, no_execute |-> FALSE, addr |-> 0]

\* An entry made of READ_WRITE, or of READ, and an address.
ReplaceAddrWith(writable, addr) ==
  [present |-> TRUE, huge |-> FALSE, writable |-> writable, no_execute |-> TRUE, addr |-> addr]

VARIABLES
  al,      \* memory_bitmap, free_pages and total_pages
  tables,  \* frame -> its entries, for the frames that are page tables
  todo,    \* mappings that the kernel still has to make while it starts
  others,  \* frames that other clients of the page allocator hold
  halted   \* the kernel has panicked

vars == <<al, tables, todo, others, halted>>

BootMap == [op : {"map_page", "translation", "io_apic"}, va : VirtualPage, pa : Nat]

TypeOK ==
  /\ al \in Allocator
  /\ DOMAIN tables \subseteq Bit
  /\ tables \in [DOMAIN tables -> [Index -> Entry]]
  /\ todo \in Seq(BootMap)
  /\ others \subseteq Bit
  /\ halted \in BOOLEAN

Init ==
  /\ al = NewAllocator(BootReserved, TotalPages)
  /\ tables = BootTables
  /\ todo = BootMaps
  /\ others = {}
  /\ halted = FALSE
-----------------------------------------------------------------------------
\* The index of a virtual page in the table at level i.
IndexAt(va, i) == (va \div Span[Levels - i]) % Fanout

\* The entries on the walk for va.  After an entry that is not present or is
\* huge the walk does not go on, and the entry stands for the levels below.
Walk(tb, va) ==
  LET entry[i \in 1 .. Levels] ==
        IF i = 1 THEN tb[Root][IndexAt(va, 1)]
        ELSE LET e == entry[i - 1]
             IN  IF e.present /\ ~e.huge THEN tb[e.addr][IndexAt(va, i)] ELSE e
  IN  entry

Leaf(tb, va) == Walk(tb, va)[Levels]

\* is_address_identity_mapped: the page, or the huge page that contains it,
\* is mapped to its own address.
IsAddressIdentityMapped(tb, va) ==
  LET walk == Walk(tb, va)
  IN  \E i \in 1 .. Levels :
        /\ \A j \in 1 .. i - 1 : walk[j].present /\ ~walk[j].huge
        /\ walk[i].present
        /\ i = Levels \/ walk[i].huge
        /\ walk[i].addr = va - (va % Span[Levels - i])

\* The virtual pages that the kernel maps.
KernelPages ==
  HeapPages \cup
    {BootMaps[i].va : i \in {j \in DOMAIN BootMaps :
       BootMaps[j].op = "io_apic" => ~IsAddressIdentityMapped(BootTables, BootMaps[j].va)}}

\* The entries that the bootloader made: they map all of memory to its own
\* address, among other things.
BootEntry(t, x) == t \in DOMAIN BootTables /\ BootTables[t][x].present

\* The place of a table: its level, and the part of an address that leads to it.
Place == [level : 1 .. Levels, prefix : VirtualPage]

\* The entry x of a table at the place p is on the walk for va.
Covers(p, x, va) == va \div Span[Levels - p.level] = Fanout * p.prefix + x

\* The tables are a tree below Root, in which each has one place, and no page that
\* the kernel maps is in a huge page.
Placed(tb, place) ==
  /\ place \in [DOMAIN tb -> Place]
  /\ Root \in DOMAIN tb /\ place[Root] = [level |-> 1, prefix |-> 0]
  /\ \A t, u \in DOMAIN tb : place[t] = place[u] => t = u
  /\ \A t \in DOMAIN tb \ {Root} : \E u \in DOMAIN tb, x \in Index :
       /\ place[u].level < Levels
       /\ tb[u][x].present /\ ~tb[u][x].huge /\ tb[u][x].addr = t
  /\ \A t \in DOMAIN tb, x \in Index :
       tb[t][x].present /\ place[t].level < Levels =>
         IF tb[t][x].huge THEN \A va \in KernelPages : ~Covers(place[t], x, va)
         ELSE /\ tb[t][x].addr \in DOMAIN tb
              /\ place[tb[t][x].addr] = [level  |-> place[t].level + 1,
                                         prefix |-> Fanout * place[t].prefix + x]

ASSUME LevelsAssumption == Levels \in Nat \ {0} /\ Fanout \in Nat \ {0}

\* The bits past the end of memory are set.
ASSUME ReservedAssumption ==
  /\ BootReserved \subseteq Bit
  /\ TotalPages \in Nat /\ Bit \ BootReserved \subseteq 0 .. TotalPages - 1

\* The heap is a range of pages, and device memory is neither in it nor memory
\* that the page allocator gives out.
ASSUME MapsAssumption ==
  /\ HeapPages \subseteq VirtualPage
  /\ \A first, last \in HeapPages : first .. last \subseteq HeapPages
  /\ BootMaps \in Seq(BootMap)
  /\ \A i \in DOMAIN BootMaps :
       BootMaps[i].op # "map_page" =>
         /\ BootMaps[i].va \notin HeapPages
         /\ (IF BootMaps[i].op = "translation" THEN BootMaps[i].pa ELSE BootMaps[i].va)
              \notin Bit \ BootReserved

\* The bootloader's tables are in reserved frames and form a tree; it maps no page
\* of the heap, and nothing read-only above one.
ASSUME BootTablesAssumption ==
  /\ DOMAIN BootTables \subseteq BootReserved
  /\ BootTables \in [DOMAIN BootTables -> [Index -> Entry]]
  /\ \E place \in [DOMAIN BootTables -> Place] :
       /\ Placed(BootTables, place)
       /\ \A t \in DOMAIN BootTables, x \in Index, va \in HeapPages :
            BootEntry(t, x) /\ Covers(place[t], x, va) =>
              place[t].level < Levels /\ BootTables[t][x].writable
-----------------------------------------------------------------------------
\* An iteration of the loop of map_page_translation: the table s.cur at level i.
\* s also holds the bitmap, the tables, and the result, which is "None" until the
\* call returns.  The parents that were missing stay in the tables when a later
\* level runs out of pages.
MapLevel(s, i, pa, va, writable) ==
  LET x == IndexAt(va, i)
      e == s.tables[s.cur][x]
      new == FirstFree(s.al)
  IN  IF s.result # "None" THEN s
      ELSE CASE i = Levels /\ e.present -> [s EXCEPT !.result = "PageAlreadyExists"]
             [] i = Levels /\ ~e.present ->
                  [s EXCEPT !.tables[s.cur][x] = ReplaceAddrWith(writable, pa), !.result = "Ok"]
             [] i < Levels /\ ~e.present /\ ~HasFree(s.al) -> [s EXCEPT !.result = "OutOfPages"]
             [] i < Levels /\ ~e.present /\ HasFree(s.al) ->
                  [al     |-> Reserve(s.al),
                   tables |-> [f \in DOMAIN s.tables \cup {new} |->
                                 IF f = new THEN [y \in Index |-> ZERO]
                                 ELSE IF f = s.cur
                                 THEN [s.tables[f] EXCEPT ![x] = ReplaceAddrWith(TRUE, new)]
                                 ELSE s.tables[f]],
                   cur    |-> new,
                   result |-> "None"]
             [] i < Levels /\ e.present -> [s EXCEPT !.cur = e.addr]

MapPageTranslation(s, pa, va, writable) ==
  LET at[i \in 0 .. Levels] ==
        IF i = 0 THEN [s EXCEPT !.cur = Root] ELSE MapLevel(at[i - 1], i, pa, va, writable)
  IN  at[Levels]

\* Mutant: the page is not given back if the mapping fails.
MapPageLeaks(s, va, writable) ==
  IF ~HasFree(s.al) THEN [s EXCEPT !.result = "OutOfPages"]
  ELSE MapPageTranslation([s EXCEPT !.al = Reserve(s.al)], FirstFree(s.al), va, writable)

\* map_page: a frame is reserved before the tables are looked at, and given
\* back if the mapping fails.
MapPage(s, va, writable) ==
  IF ~HasFree(s.al) THEN [s EXCEPT !.result = "OutOfPages"]
  ELSE LET page == FirstFree(s.al)
           t == MapPageTranslation([s EXCEPT !.al = Reserve(s.al)], page, va, writable)
       IN  IF t.result = "Ok" THEN t ELSE [t EXCEPT !.al = Free(t.al, page)]

\* The entry has the flags READ_WRITE, or READ.
HasFlags(e, writable) == e.present /\ e.no_execute /\ (writable => e.writable)

\* The loop of check_flags goes down to the page va through the tables path,
\* without a test for huge pages, and finds the flags at every level.
FindsFlags(va, writable, path) ==
  /\ path[1] = Root
  /\ \A i \in 1 .. Levels :
       LET e == tables[path[i]][IndexAt(va, i)]
       IN  HasFlags(e, writable) /\ (i < Levels => path[i + 1] = e.addr)

\* Mutant: the last page is not looked at.
CheckFlagsExclusive(first, last, writable) ==
  \A va \in first .. last - 1 :
    \E path \in [1 .. Levels -> DOMAIN tables] : FindsFlags(va, writable, path)

\* check_flags on the pages first .. last.
CheckFlags(first, last, writable) ==
  \A va \in first .. last :
    \E path \in [1 .. Levels -> DOMAIN tables] : FindsFlags(va, writable, path)
-----------------------------------------------------------------------------
State == [al |-> al, tables |-> tables, cur |-> Root, result |-> "None"]

Becomes(s) == al' = s.al /\ tables' = s.tables

\* tls::init, init_heap, LocalApic::new and IoApic::new expect or unwrap the
\* result; IoApic::new maps nothing if the address is identity mapped.
Boot ==
  /\ ~halted
  /\ todo # <<>>
  /\ LET m == Head(todo)
         s == CASE m.op = "map_page" -> MapPage(State, m.va, TRUE)
                [] m.op = "translation" -> MapPageTranslation(State, m.pa, m.va, TRUE)
                [] m.op = "io_apic" -> IF IsAddressIdentityMapped(tables, m.va)
                                       THEN [State EXCEPT !.result = "Ok"]
                                       ELSE MapPageTranslation(State, m.va, m.va, TRUE)
     IN  /\ Becomes(s)
         /\ halted' = (s.result # "Ok")
         /\ todo' = Tail(todo)
  /\ UNCHANGED others

HeapReady == Len(todo) <= Len(BootMaps) - HeapMaps

\* KernelHeapAllocator::alloc: PageAlreadyExists is ignored, OutOfPages
\* panics.
HeapMap(va) ==
  /\ ~halted
  /\ HeapReady
  /\ LET s == MapPage(State, va, TRUE)
     IN  Becomes(s) /\ halted' = (s.result = "OutOfPages")
  /\ UNCHANGED <<todo, others>>

\* Mutant: the page is freed and its entry kept.
UnmapKeepsEntry(va) ==
  /\ ~halted
  /\ HeapReady
  /\ \A i \in 1 .. Levels : Walk(tables, va)[i].present
  /\ al' = Free(al, Leaf(tables, va).addr)
  /\ UNCHANGED <<tables, todo, others, halted>>

\* unmap_and_free_page, called by KernelHeapAllocator::dealloc
UnmapAndFreePage(va) ==
  /\ ~halted
  /\ HeapReady
  /\ \A i \in 1 .. Levels : Walk(tables, va)[i].present
  /\ LET walk == Walk(tables, va)
         f == IF Levels = 1 THEN Root ELSE walk[Levels - 1].addr
     IN  /\ tables' = [tables EXCEPT ![f][IndexAt(va, Levels)] = ZERO]
         /\ al' = Free(al, walk[Levels].addr)
  /\ UNCHANGED <<todo, others, halted>>

\* Another client reserves a page, or frees one it has.
ReserveOther ==
  /\ ~halted
  /\ HasFree(al)
  /\ al' = Reserve(al)
  /\ others' = others \cup {FirstFree(al)}
  /\ UNCHANGED <<tables, todo, halted>>

FreeOther(f) ==
  /\ ~halted
  /\ al' = Free(al, f)
  /\ others' = others \ {f}
  /\ UNCHANGED <<tables, todo, halted>>

Next ==
  \/ Boot
  \/ ReserveOther
  \/ \E f \in others : FreeOther(f)
  \/ \E va \in HeapPages : HeapMap(va)
  \/ \E va \in HeapPages : UnmapAndFreePage(va)

Spec == Init /\ [][Next]_vars
-----------------------------------------------------------------------------
\* The entries that the kernel made and that refer to a frame.
References(tb, f) ==
  {r \in (DOMAIN tb) \X Index :
     tb[r[1]][r[2]].present /\ tb[r[1]][r[2]].addr = f /\ ~BootEntry(r[1], r[2])}

\* Every frame that was reserved after the start is held by another client or
\* referenced by exactly one entry that the kernel made, and no free frame by
\* any.  So map_page leaks no frame on any of its error paths, no table is shared,
\* and no mapped page is given out again.
FramesAccounted ==
  \A f \in Bit \ BootReserved :
    Cardinality(References(tables, f)) = IF f \in al.reserved \ others THEN 1 ELSE 0

\* free_pages counts the clear bits across reservations for tables, failed
\* mappings and unmapped pages.
FreeCount == al.free_pages = Cardinality(Bit \ al.reserved)

\* The bootloader made an entry above the page va that allows execution.
UnderExecutable(va) ==
  \E i \in 1 .. Levels :
    LET e == Walk(BootTables, va)[i] IN e.present /\ ~e.no_execute

\* "Checks if all of the enabled flags exist on the mapped pages": what check_flags
\* tests at every level is as good as a look at the page itself, but for the
\* bootloader's entries that allow execution ("TODO: Make this work for NX"):
\* below one of those it returns false for any page.  The parents that
\* map_page_translation makes never restrict a page.
CheckFlagsExact ==
  \A first, last \in HeapPages, w \in BOOLEAN :
    CheckFlags(first, last, w) <=>
      \A va \in first .. last : HasFlags(Leaf(tables, va), w) /\ ~UnderExecutable(va)

\* "Returns `false` if some pages do not have the enabled flags or are not mapped",
\* and only then.
CheckFlagsOfPages ==
  \A first, last \in HeapPages, w \in BOOLEAN :
    CheckFlags(first, last, w) <=> \A va \in first .. last : HasFlags(Leaf(tables, va), w)

Mapped(tb) == {v \in VirtualPage : Leaf(tb, v).present}
MappedTo(tb) ==
  [v \in Mapped(tb) |-> [addr |-> Leaf(tb, v).addr, writable |-> Leaf(tb, v).writable]]

Abstract == INSTANCE AddressMap WITH
  Frame <- Bit \ BootReserved, Given <- Mapped(BootTables), pmap <- MappedTo(tables)

\* The tables implement a map from virtual pages to frames: a mapping that
\* exists is never changed, a failed operation changes none, and a page that
\* is mapped gets a frame that no other page has.
ImplementsAddressMap == Abstract!Spec
=============================================================================
