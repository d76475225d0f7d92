----------------------------- MODULE BootBitmap -----------------------------
(***************************************************************************)
(* How the Limine entry point (arch/x86_64/limine/entry.rs) builds the     *)
(* bitmap of physical pages that PageBitmap starts from.                   *)
(*                                                                         *)
(* The memory map is a sequence of entries, addresses are in bytes, and a  *)
(* bit of the bitmap is named by its number.  Indexing the bitmap beyond   *)
(* its length panics.                                                      *)
(***************************************************************************)
EXTENDS Integers, Sequences, FiniteSets, FiniteSetsExt

CONSTANTS
  BitRatio,     \* BIT_RATIO: bytes in a page
  BitsPerByte,  \* bits in a byte of the bitmap
  MemoryMaps    \* memory maps that the bootloader may report

VARIABLES
  memory_map,  \* the entries, [base, length, usable]
  kernel_bitmap,    \* [ptr, len, set]: where it is, its bytes, the bits that are set
  next,        \* index of the next entry to look at
  pc           \* "locate", "clear", "reserve", "done", "panic"

vars == <<memory_map, kernel_bitmap, next, pc>>

Entries == {memory_map[i] : i \in DOMAIN memory_map}
PagesOf(base, length) == (base \div BitRatio) .. ((base + length - 1) \div BitRatio)
Bits == 0 .. kernel_bitmap.len * BitsPerByte - 1

TypeOK ==
  /\ memory_map \in MemoryMaps
  /\ kernel_bitmap.ptr \in Nat /\ kernel_bitmap.len \in Nat
  /\ kernel_bitmap.set \subseteq Bits
  /\ next \in 1 .. Len(memory_map) + 1
  /\ pc \in {"locate", "clear", "reserve", "done", "panic"}

Init ==
  /\ memory_map \in MemoryMaps
  /\ kernel_bitmap = [ptr |-> 0, len |-> 0, set |-> {}]
  /\ next = 1
  /\ pc = "locate"

MappableBytes == Max({e.base + e.length : e \in Entries})

\* memory_map_page_size: the bytes are rounded down before they are rounded
\* up to whole pages.
MemoryMapPageSize ==
  LET bytes == MappableBytes \div (BitRatio * BitsPerByte)
  IN  bytes + ((BitRatio - (bytes % BitRatio)) % BitRatio)

LargeEntries ==
  {i \in DOMAIN memory_map : memory_map[i].usable /\ memory_map[i].length >= MemoryMapPageSize}

\* Mutant: the bitmap is not filled with ones.
FilledNot == {}

Filled == 0 .. MemoryMapPageSize * BitsPerByte - 1

\* The bitmap is put at the start of the first usable entry that is large
\* enough, and filled with ones.
Locate ==
  /\ pc = "locate"
  /\ IF LargeEntries = {}
     THEN pc' = "panic" /\ UNCHANGED kernel_bitmap
     ELSE /\ pc' = "clear"
          /\ kernel_bitmap' = [ptr |-> memory_map[Min(LargeEntries)].base,
                               len |-> MemoryMapPageSize, set |-> Filled]
  /\ UNCHANGED <<memory_map, next>>

\* The bits that START_MASKS and END_MASKS and the fill between them select.
StartMask(byte, bit) == {b \in Bits : b \div BitsPerByte = byte /\ b % BitsPerByte >= bit}
EndMask(byte, bit) == {b \in Bits : b \div BitsPerByte = byte /\ b % BitsPerByte <= bit}

Selected(start, end) ==
  LET start_byte_i == start \div BitsPerByte
      end_byte_i == end \div BitsPerByte
      first == StartMask(start_byte_i, start % BitsPerByte)
      last == EndMask(end_byte_i, end % BitsPerByte)
  IN  IF start_byte_i = end_byte_i
      THEN first \cap last
      ELSE first \cup last
             \cup {b \in Bits : b \div BitsPerByte \in start_byte_i + 1 .. end_byte_i - 1}

\* Indexing the bitmap's byte does not panic.
InBounds(end) == end \div BitsPerByte < kernel_bitmap.len

\* The bits of the next entry are cleared if it is usable.
ClearEntry ==
  LET e == memory_map[next]
      start == e.base \div BitRatio
      end == (e.base + e.length - 1) \div BitRatio
  IN  /\ pc = "clear"
      /\ next <= Len(memory_map)
      /\ IF ~e.usable
         THEN next' = next + 1 /\ UNCHANGED <<kernel_bitmap, pc>>
         ELSE IF InBounds(end)
         THEN /\ kernel_bitmap' = [kernel_bitmap EXCEPT !.set = @ \ Selected(start, end)]
              /\ next' = next + 1
              /\ UNCHANGED pc
         ELSE pc' = "panic" /\ UNCHANGED <<kernel_bitmap, next>>
      /\ UNCHANGED memory_map

ClearDone ==
  /\ pc = "clear"
  /\ next > Len(memory_map)
  /\ pc' = "reserve"
  /\ UNCHANGED <<memory_map, kernel_bitmap, next>>

\* Mutant: only the first page of the bitmap is reserved.
ReserveEndFirstPage == kernel_bitmap.ptr \div BitRatio

\* The last bit to reserve for the bitmap itself.
ReserveEnd == kernel_bitmap.ptr + kernel_bitmap.len - 1

\* The bitmap's own pages are set again: the last bit is computed without
\* dividing by BIT_RATIO.
ReserveBitmap ==
  LET start == kernel_bitmap.ptr \div BitRatio
  IN  /\ pc = "reserve"
      /\ IF InBounds(ReserveEnd)
         THEN /\ kernel_bitmap' = [kernel_bitmap EXCEPT !.set = @ \cup Selected(start, ReserveEnd)]
              /\ pc' = "done"
         ELSE pc' = "panic" /\ UNCHANGED kernel_bitmap
      /\ UNCHANGED <<memory_map, next>>

Next == Locate \/ ClearEntry \/ ClearDone \/ ReserveBitmap

Spec == Init /\ [][Next]_vars
-----------------------------------------------------------------------------
Usable == UNION {PagesOf(e.base, e.length) : e \in {f \in Entries : f.usable}}
BitmapPages == PagesOf(kernel_bitmap.ptr, kernel_bitmap.len)
FreePages == Bits \ kernel_bitmap.set

\* The allocator starts with no page free that is outside the usable memory,
\* nor one that holds the bitmap: it can never give out its own bitmap.
OnlyUsableFree ==
  pc = "done" => FreePages \subseteq Usable \ BitmapPages

\* Every usable page has a bit, or the entry point has panicked: the bitmap
\* is never silently too short for the memory map.
UsableHaveBits == pc = "done" => Usable \subseteq Bits

\* Of the usable pages only those that the bitmap occupies are reserved.
OnlyBitmapReserved == pc = "done" => FreePages = Usable \ BitmapPages
=============================================================================
