--------------------------- MODULE PhysicalMemory ---------------------------
(***************************************************************************)
(* BootBitmap and PageAllocator together: the entry point builds the       *)
(* bitmap from the bootloader's memory map, and the allocator runs on it   *)
(* from page_allocation::init on.                                          *)
(*                                                                         *)
(* NumPages is the size of the machine.  A memory map of another size is   *)
(* followed until its bitmap is built.                                     *)
(***************************************************************************)
EXTENDS PageAllocator, Sequences

CONSTANTS
  BitsPerByte,  \* bits in a byte of the bitmap
  MemoryMaps    \* memory maps that the bootloader may report

ASSUME BitsPerByteAssumption == BitsPerByte \in Nat \ {0}

\* The bits of the bitmap of a machine of NumPages pages: its bytes are rounded
\* up to whole pages.
ASSUME BitmapSizeAssumption ==
  LET bytes == NumPages \div BitsPerByte
  IN  BitmapBits = BitsPerByte * (bytes + ((PageSize - (bytes % PageSize)) % PageSize))

\* What the boot protocol guarantees: usable entries are not empty, start and
\* end at page boundaries, and page 0 is in none of them.
ASSUME MemoryMapsAssumption ==
  \A map \in MemoryMaps :
    /\ map \in Seq([base : Nat, length : Nat, usable : BOOLEAN])
    /\ map # <<>>
    /\ \A i \in DOMAIN map : map[i].usable =>
         /\ map[i].base % PageSize = 0 /\ map[i].length % PageSize = 0
         /\ map[i].base > 0 /\ map[i].length > 0

VARIABLES memory_map, kernel_bitmap, next, pc

Boot == INSTANCE BootBitmap WITH BitRatio <- PageSize

bootVars == <<memory_map, kernel_bitmap, next, pc>>
allVars == <<vars, bootVars>>

\* Before page_allocation::init there is no allocator.
MemoryInit ==
  /\ Boot!Init
  /\ stage = "boot"
  /\ boot = Page
  /\ al = NewAllocator(Bit, 0)
  /\ owned = {} /\ raw = {}

BuildBitmap == Boot!Next /\ UNCHANGED vars

\* page_allocation::init at the end of the block that builds the bitmap.
InitAllocator ==
  /\ stage = "boot" /\ pc = "done"
  /\ Boot!MappableBytes \div PageSize = NumPages
  /\ stage' = "limine"
  /\ al' = NewAllocator(kernel_bitmap.set, Boot!MappableBytes \div PageSize)
  /\ boot' = Page \cap kernel_bitmap.set
  /\ UNCHANGED <<owned, raw, bootVars>>

MemoryNext ==
  \/ BuildBitmap
  \/ InitAllocator
  \/ Next /\ UNCHANGED bootVars

MemorySpec == MemoryInit /\ [][MemoryNext]_allVars
-----------------------------------------------------------------------------
\* No page that a client ever holds is outside the usable memory or holds the
\* bitmap itself, and every bitmap that is built, of whatever size, has a bit
\* for each usable page and clear bits for such pages only.
OnlyUsable ==
  /\ owned \cup raw \subseteq Boot!Usable \ Boot!BitmapPages
  /\ Boot!OnlyUsableFree
  /\ Boot!UsableHaveBits

\* The allocator starts in a state that PageAllocator's Init allows, with the
\* bits past the end of memory set: what is proved from Init holds of the
\* allocator that the entry point starts.
StartsFromMap == [][stage = "boot" /\ stage' = "limine" => Init']_allVars
=============================================================================
