# 9x kernel: TLA+ models and proofs

9x is an x86_64 kernel in Rust that is started by the Limine bootloader. This
directory holds TLA+ modules of the parts of the kernel that keep state, the
TLC configurations that check them on small instances, and proofs that TLAPS
checks for every instance. `PROJECT.json` maps each definition to the lines that
it models.

Paths below are relative to `src/kernel/src/`; `x86/` stands for `arch/x86_64/`.

## The system

The Limine entry point builds a bitmap of physical pages from the memory map,
starts the **page allocator** on it, allocates what it needs, and hands the
bitmap to `kernel_main`, which starts the allocator again. From then on all
memory comes from it: the **kernel page tables** take tables and pages, the
**kernel heap** maps pages as it hands out memory, and an address space takes
tables for its **user page mapper** and pages for the nodes of its **VMA tree**.

An address space (`VMAAllocator`) is a red-black tree of segments under a lock,
and page tables. Mapping a segment reserves it in the tree and returns a task;
the task maps one page per iteration and may suspend between any two. Nothing
in the kernel calls `VMAAllocator`, `UserPageMapper` or the process list yet, so
the models let every legal sequence of calls happen.

Interrupts: the I/O APICs and the wiring of the legacy IRQs are read from the
firmware's MADT; `interrupts.rs` then routes IRQs through redirection entries to
IDT entries. The local APIC timer is calibrated against the real-time clock,
which uses such a route temporarily, and serves sleeps and countdowns. ACPICA
runs on top of an OS layer, of which `AcpiOsVprintf` is the part with control
flow of its own.

What the kernel logs goes to a debug port and, once `kernel_main` has found a
font in the initial ramdisk, to a terminal on the framebuffer. The panic handler
logs through the same path.

The kernel runs on one processor. The handlers of interrupts allocate nothing and
take none of the locks of the modelled parts. Of the handlers of exceptions, those
that panic log first, which `KernelLog` models at any point; the one for breakpoints
logs too (`x86/idt.rs:341`), but the kernel has no breakpoint instruction.

### Inventory

| Part | Source | Module |
|---|---|---|
| page allocator, block allocator | `x86/page_allocation.rs`, `physical_block_allocator.rs`, `main.rs` | `PageBitmap`, `PageAllocator` |
| boot memory bitmap | `x86/limine/entry.rs` | `BootBitmap`; with the allocator: `PhysicalMemory` |
| kernel page tables | `x86/page_allocation.rs`, `x86/paging.rs` | `KernelPaging` over `AddressMap` |
| kernel heap | `heap.rs` | `KernelHeap` |
| VMA tree | `vma.rs` | `VMATree` over `SegmentMap` |
| VMA node storage | `vma.rs` | `NodeStorage` |
| VMA allocator, map tasks | `vma.rs` | `VMAAllocator` |
| user page mapper and its tasks | `x86/user_page_mapping.rs` | `UserPageMapper` |
| legacy IRQs | `x86/interrupts.rs`, `x86/clock/apic.rs` | `LegacyIrqs` |
| MADT iterator, interrupt setup | `platform/acpi/mod.rs`, `x86/interrupts.rs` | `Madt` |
| local APIC (external) | `x86/apic.rs` | `LocalApic` |
| RTC calibration, clock manager | `x86/clock/rtc.rs`, `x86/clock/apic.rs`, `x86/clock/mod.rs` | `RtcCalibration` |
| APIC timer; all of the above from `init_stage_2` on | `x86/clock/apic.rs`, `x86/mod.rs` | `ApicTimer` |
| terminal | `terminal.rs` | `Terminal` |
| logging, panic, start of the terminal, cpio archive | `logging.rs`, `debugging.rs`, `main.rs`, `cpio.rs`, `x86/idt.rs` | `KernelLog` |
| ACPICA printf | `platform/acpi/acpica_os_layer.rs` | `AcpiPrintf` |
| virtual page mapper | `x86/virtual_page_mapping.rs` | none: see Not modelled |
| process list | `process.rs` | none: see Not modelled |
| OS layer locks | `platform/acpi/acpica_os_layer.rs` | none: see Not modelled |
| descriptor tables, TLS, CPU setup, debug ports, bootloader structures | `x86/*` | none: straight-line hardware access and data layouts |
| ACPICA C library | `utclib.c` | none: third-party, stateless |
| ramdisk programs | `src/initrd` | none: not started by the kernel |

## Modules

Conventions: an operator keeps the source's name in TLA+ spelling. Where a call
panics, the model records why in a `status` or `stopped` variable and takes no
further step, which is why most configurations switch deadlock checking off. An
error that changes nothing is a stuttering step and has no action. Operators
whose comment begins with "Mutant" are deliberately wrong variants of the
definition below them and are used by no specification; they show that a
property notices such an error.

**PageBitmap** is `PageAllocatorInternal` without page tables: `reserved` (the
set bits of `memory_bitmap`), `free_pages` and `total_pages`, with operators for
`new`, `find_and_reserve_page`, `free_page` and `num_pages_used`. It has no
behaviour of its own; three modules extend it.

**PageAllocator** adds the clients. A page that is held is either an
`OwnedPhysicalPage` or a raw address, and `into_raw`, `from_raw`, `drop`,
`free_page` and `PhysicalBlockAllocator` move it between the two. `Deinit` and
`KernelInit` are the handover.

**BootBitmap** builds the bitmap in the steps of the entry point: choose the
place, clear the bits of each usable entry with the start and end masks, set
those of the bitmap itself.

**PhysicalMemory** runs the two after each other: the bitmap of a memory map is
built, `page_allocation::init` counts it, and the allocator's clients start.

**KernelPaging** models tables as frames with entries. `map_page_translation` is a
loop over the levels; `MapLevel` is an iteration, which adds a missing table and
leaves it in place when a later level runs out of pages. The tables that the
bootloader leaves are a constant: a tree of reserved frames, with huge pages and
an identity map of memory that also covers free frames. An entry has the flags
present, huge page, writable and no-execute. Everything that the kernel maps is
no-execute; the bootloader's entries need not be, and `check_flags` asks for the
flag at every level. Only the entries that the kernel makes count as references to
a frame. Its abstract specification **AddressMap** is a map from virtual pages to
frames, in which the bootloader's mappings are given and stay; the refinement
mapping is what the tables translate. Both `KernelHeap` and `PageAllocator` show
how the heap uses these functions.

**KernelHeap** keeps the headers by address (`block`), the mapped pages and the
allocations clients hold. `alloc` is an action per outcome (the block is split,
taken whole, pages run out), `dealloc` frees, merges on both sides and unmaps.
A header on a page that is unmapped is `lost`, and nothing is modelled once a
walk reads one.

**VMATree** is the tree node by node: slots of the node storage, parent and
child links, colours, pivots and cached gap sizes. `Insert` and `Delete` are
whole calls made of operators named after the source's functions. A deletion may
leave `temp_node` in the tree as a leaf, and a later step of a deletion frees or
overwrites it (`LostLeaf`): from then on the tree is `bad`, and nothing is modelled.
Its abstract specification **SegmentMap** is a set of disjoint segments.

**NodeStorage** is the list of pages that the nodes are on. It stands apart from
`VMATree`, where nodes are slots, because only the pages and bitmaps matter to
it.

**VMAAllocator** composes the two halves of an address space at the level of
what they promise: the tree is a set of segments as in `SegmentMap`, each with
its lock, and the page tables are the set of mapped pages. An action of a task
is one iteration of its loop. What the parts do not promise is allowed here: the
deletion at the end of a task may lose any segments and leave a corrupt tree
(`MapLastPageCorrupts`, as `VMATree` shows), and the cleanup of a failed task may
remove other pages, not end, or panic (as `UserPageMapper` shows).

**UserPageMapper** models the page tables of a process and its tasks, again one
iteration per action, with the synchronous operations and `Drop`. `new` calls
`copy_from_slice` with 512 entries for a slice of 256 (l. 197) and always
panics; the model starts from the mapper that its comments describe.

The interrupt modules extend one another, `LegacyIrqs`, `Madt`, `LocalApic`,
`RtcCalibration`, `ApicTimer`, and are checked together in the last.

**LegacyIrqs** keeps the vector map, the IDT entries, the redirection entries of
each I/O APIC and `LEGACY_IRQS`. A call is one step. The second group of vectors is
unreachable: 16 IRQs, the timer and the vector that is never used fit in the
first 64. `Wire(irq)` is the global system interrupt of a legacy IRQ. `Slot` is the
entry that the kernel finds for it, in the first I/O APIC whose base and
`num_redirection_entries` cover it, and `Input` the one that the device drives. They
differ because that number is the version of the I/O APIC; without a match the call
panics, when mapping or only when unmapping. `Reached(irq)` says that they are the
same.

**Madt** reads a table of entries with lengths of their own, as
`MadtEntryIterator` does, and fills the tables that `LegacyIrqs` uses. For an I/O
APIC it takes the low 16 bits of register 1, as `IoApic::new` does, with the
assertion on them; the number of inputs is in the bits 16 to 23.

**LocalApic** is the external device: pending interrupts, the timer and its
entry of the local vector table. A pending interrupt remembers its source, so
that an interrupt that reaches the handler of another source can be told.

**RtcCalibration** is the choice of the clock and `calibration_sleep` statement
by statement against an external clock. The clock sets its flag each period
whether or not its interrupt is enabled, and the interrupt line is the flag and
the enable bit.

**ApicTimer** is the kernel from `init_stage_2` on: the MADT, the calibration,
`setup`, and then sleeps, countdowns and changes of the routing in any order.
`sleep_ms` and `start_countdown_ms` are modelled statement by statement, because
an earlier countdown may expire between any two. `countdown_remaining_ms` and
`countdown_ended` only read.

**Terminal** is `Terminal::write`, one character per action: text, the control
characters and escape sequences with up to five arguments; `new_line` scrolls and
`render` draws the cells that differ from the back buffer. Next to the code's
state it keeps `paper`, what a terminal with an endless roll of paper would have
printed.

**KernelLog** is the one thread that logs: `CURRENT_LOGGER`, the debug port,
`TERMINAL`, and `FRAMEBUFFER` inside `render`, none of which is reentrant. It
includes the start of the terminal in `kernel_main` with the search of the
ramdisk, and the panic handler with `PANIC_DEPTH` and the stack trace. An
exception may come between any two steps.

**AcpiPrintf** is the scanner of `AcpiOsVprintf`, a state per character, with the
padding that a conversion asks of `core::fmt`. The reference is a definition of
directives over the whole format string and of what C prints for each.

## Runs

A run takes seconds to a minute; `vma_tree`, `user_page_mapper` and `interrupts`
take one to two.

### Passing

| Run | Shows | Instance |
|---|---|---|
| `physical_memory` | every bitmap frees only usable pages, never its own, and has a bit for each; the allocator starts in an initial state of `PageAllocator`; bitmap, counter and holders agree; no page is granted twice, also across the handover | every map of three regions on up to 12 pages, 4 bits per byte; allocator on 12 pages, 16 bits |
| `kernel_paging` | no frame is lost on any error path, the tables implement `AddressMap`, `check_flags` says what the page allows unless the bootloader's entries above it are executable | 3 levels of 2 entries, 13 frames of which 7 are reserved, three tables and a huge page from the bootloader that identity map a free frame too; one heap page below its executable entry and one not |
| `kernel_heap` | the blocks tile the heap, free neighbours are merged, allocations are disjoint, mapped and undisturbed (`EmptyHeapIsWhole` follows) | 32 bytes, 4 pages, sizes 1, 4, 11, alignments 1, 4 |
| `vma_tree` | search order, balance, exact and joined gaps, no node leaked, implements `SegmentMap`, all up to the deletion that loses `temp_node` | 7 addresses, 13 nodes |
| `node_storage` | one linked list, exact bitmaps and counts, empty pages given back | 3 pages of 4 nodes, 2 bits per byte |
| `vma_allocator` | segments disjoint, each task on its own locked segment until the tree is corrupt | 4 pages, tasks unbounded |
| `user_page_mapper` | until an allocation fails, no freed frame is reachable, none is used twice and the counter is exact; a task that maps changes no other page and its cleanup only removes translations; a task ends or fails | 3 levels of 2 entries, 14 frames of which 8 may be in use elsewhere, 2 tasks, 4 calls, fair |
| `interrupts` | all entries of the MADT are followed; vectors unique, mapped IRQs whose own entry the kernel finds reach their handler, unmapped ones that are not moved are masked; no interrupt reaches the handler of another source; the calibration ends if the clock's entry is found and measures no more than a period; a sleep ends and is not shorter than its ticks | 2 IRQs, 6 tables (below), 5 vectors, period of 5, kernel delays up to 2 |
| `kernel_log` | the terminal shows the last rows of what was written, and has drawn them when a log call returns; no lock is taken twice unless a panic began under one; a panic that begins under none is reported and halts | 2 rows of 5 columns, 9 records of which 3 are logged, 5 archives, 5 stacks, one exception at any point |
| `acpi_printf` | output is what C prints for the format, but for three `Deviations`; panics only where it is unsupported | formats of up to 7 characters |

Each module that a run checks has a type invariant `TypeOK` (`ApicTimer` and
`KernelLog` have it for the modules they extend). It holds in every run, in
`PhysicalMemory` from `page_allocation::init` on. The runs do not list it; it is
part of the inductive invariants of `PageAllocator`, `KernelHeap`, `VMAAllocator`,
`NodeStorage` and `LegacyIrqs`, and proved with them.

Why the bounds suffice. Every boundary that the code distinguishes occurs: bytes
that are partly covered, blocks that fit exactly or leave no room for a header,
allocations across pages, tables shared by two tasks and not shared, running out
of memory at each level. The tree with 7 addresses has enough segments for every
case of `fix_insert` and `fix_delete` (each branch of those operators is
evaluated). `VMATree.cfg` uses a `VIEW` that renames slots by their position in
the tree; the operations do not depend on slot numbers, nor do the properties.
Calls of `UserPageMapper` are bounded by `MaxCalls`, which is enough for two tasks
to be interleaved with two more calls. A format of 7 characters holds a full
directive (flag, width, precision, specifier) with text next to it. The interrupt
run has the clock at every phase and with its flag set and clear when the
calibration begins, more IRQs and vectors than are mapped at once, and times of
zero and of several ticks. Its tables have I/O APICs of the versions 17 and 32
(0x11 and 0x20, the common ones) with 24 inputs each. One lists an IRQ with its
own number; one moves the clock and lists the other IRQ twice, first with an
interrupt for which the kernel finds no I/O APIC; in two the other IRQ, or the
clock, drives the second I/O APIC and the kernel programs the first, so that the
calibration waits for ever; in one, of version 4, mapping the moved clock succeeds
and unmapping it panics; and in one a further bit of register 1 is set, so that
the assertion fails at boot. The records of `kernel_log` wrap, scroll, change
colours, leave an escape sequence open across a record, overflow an argument and
use the last glyph; a stack is sound, loops, is unaligned, unmapped or ends in
zero.

Fairness. `UserPageMapper!FairSpec` has weak fairness for the steps of each
task: a task that returned `Poll::Pending` is run again; that is the contract
of `run`. `ApicTimer!FairSpec` has it for the kernel, for the delivery of a
pending interrupt and for time, none of which stops. `KernelLog!FairSpec` has it
for the thread once it is logging, starting the terminal or panicking: nothing
preempts it. No run assumes that a caller makes a call.

### Disagreements

In these places the code does something other than what its comments or
assertions say. Each is a property that is stated in the module and does not
hold. The runs `kernel_heap_headers_mapped` and `kernel_log_panic_reported` show
the first two, and `PROJECT.json` quotes the lines; they come first because the
kernel runs on this heap and reports its own failures through this handler. The
others are reproduced by checking the property alone in the named instance.

| Property | Instance | What the code does | What it says |
|---|---|---|---|
| `HeadersMapped` | `KernelHeap_HeadersMapped.cfg` | a merge unmaps a page that holds the header that it merged into | `heap.rs:182` "Check if merged block header page can be freed" |
| `PanicReported` | `KernelLog_PanicReported.cfg` | the last glyph of the font is empty (`terminal.rs:84`), so drawing it panics with the logger locked, and the panic handler waits for it before it reports | `debugging.rs:11` "this is just to get some debug information out if the kernel crashes" |
| `MiddlePagesFreed` | `KernelHeap.cfg` | middle pages go to `free_page` by virtual address and stay mapped | `heap.rs:165` "Free middle pages" |
| `CheckFlagsOfPages` | `KernelPaging.cfg` | below an entry of the bootloader that allows execution, `check_flags` returns false for every page, since callers ask for no-execute and it is tested at every level (l. 437) | `page_allocation.rs:415` "Returns `false` if some pages do not have the enabled flags or are not mapped."; l. 422 "TODO: Make this work for NX." |
| `UsedPagesExact` | `PhysicalMemory.cfg` | `main.rs:60` passes the size of memory in bytes as the number of pages | `kernel_args.rs:80` "Size of area represented by bitmap", `page_allocation.rs:17` `num_pages` |
| `Boot!OnlyBitmapReserved` | `PhysicalMemory.cfg` | l. 220 does not divide the end of the bitmap by the page size | `limine/entry.rs:216` "Reserve space used for kernel bitmap in kernel bitmap" |
| `TempNodeApart` | `VMATree.cfg` | `temp_node` stays in the tree after a deletion (l. 1149) and is freed by a later one | `vma.rs:197` "Used in node deletion operations.", `vma.rs:553` "Get NodeStoragePage containing self" |
| `EntryIndexInBounds` | `NodeStorage.cfg` with `MaxNodes = 5` | the mask of the last byte is inverted (l. 334); `MAX_NODES` is no multiple of 8, so a page panics before it is full | `vma.rs:325` "fill the least significant bits past the end", assertion l. 360 |
| `LocksHaveTasks` | `VMAAllocator.cfg` | a failed map task leaves its segment locked (l. 1454) | `vma.rs:60` "currently locked for mapping or unmapping by another task" |
| `MappedBelongsToSegment` | `VMAAllocator.cfg` | a map task that completes deletes its own segment (l. 1464) | `vma.rs:58` "Unmaps the segment containing `segment_address`." |
| `OnlyEmptyTablesFreed` | `UserPageMapper.cfg` | the `break` in l. 302 ends the inner loop only; tables in use are freed | `user_page_mapping.rs:261` "for if they're empty and able to be freed" |
| `TablesSound` without `~failed` | `UserPageMapper.cfg` | parent tables that are freed stay linked (l. 253) | l. 250 "Cleanup created parent pages if an error occurred" |
| `RewindCleansUp` | `UserPageMapper.cfg` | the page count is not zero after a cleanup | l. 101 "cleans up all intermediate allocated pages", assertion l. 160 |
| `TaskTerminates` | `UserPageMapper.cfg` | a cleanup that starts below the first page does not end (l. 123) | l. 101 |
| `RelaxingOnlyAdds` | `UserPageMapper.cfg` | relaxing flags removes write permission (l. 477) | l. 442 "Relaxes the flags" |
| `BufferIsCopied` | `UserPageMapper.cfg` | copying a buffer that does not fit on its first page panics (l. 363) | l. 309 "Fills pages with data from provided buffer." |
| `EveryRoutedToHandler` | `ApicTimer.cfg` | `num_redirection_entries` is the low half of register 1, the version: the kernel programs another I/O APIC than the device's, or panics in `unreachable!()` (`interrupts.rs:219`) | `apic.rs:222` "I/O APIC {id} has {num_redirection_entries} redirection entries" |
| `EveryUnmappedIsMasked` | `ApicTimer.cfg` | unmapping an IRQ that an override moves masks the entry of `irq_source` (`interrupts.rs:230`) | `clock/rtc.rs:37` "Map RTC IRQ temporarily" |
| `NotShorter` | `ApicTimer.cfg` | interrupts are enabled before register C is flushed; a flag from before starts the measurement early (l. 56) | `clock/rtc.rs:28` "returns the number of microseconds slept" |
| `SleepNeverShort` | `ApicTimer.cfg` | the interrupt of an earlier countdown that is pending, or expires before the new count is written, ends a sleep (`clock/apic.rs:95`) | `clock/apic.rs:94` "Request interrupt in requested number of ticks", l. 98 "Wait for timer interrupt" |
| `EverySleepEnds` | `ApicTimer.cfg` | a time of zero ticks stops the timer, and the sleep waits for ever (`clock/apic.rs:96`) | the same lines |
| `PrintsAsC` | `AcpiPrintf.cfg` | `%c` ignores its width (l. 344), and a left-aligned number with a precision or the flag 0 gets its zeros on the right: `%-3.3d` of 5 prints 500 (l. 394) | `acpica_os_layer.rs:385` "C99 says precision for decimal types should pad digits up to precision" |
| `StringsAreUtf8`, `ConversionsEnd` | `AcpiPrintf.cfg` | the length of a `%s` argument is found by testing its first byte only (l. 357, 365) | `acpica_os_layer.rs:373` "formatted string should be UTF-8", l. 648 "Check final state, print end of format string" |

The passing runs use instances in which these do not occur (`NodeStorage`: a full
last byte) or exempt them explicitly, so that they say what the code does otherwise:

- `VMATree`: every property is about trees that are not `bad`, and
  `ImplementsSegmentMap` allows any change in the step that makes it so;
  `VMAAllocator`: `TasksOwnSegments` is about trees that are not `corrupt`.
- `KernelPaging`: `CheckFlagsExact` says that pages `UnderExecutable` are refused.
- `UserPageMapper`: `TablesSound` and `TasksKeepOthers` hold until `failed`, except
  that a cleanup only removes translations; `TaskEndsOrFails` says nothing of it.
- Interrupts: `RoutedToHandler` is about IRQs that are `Reached`, `UnmappedIsMasked`
  about IRQs that are not moved, `CalibrationEnds` about a clock that is reached and
  can be unmapped, `SleepNotShort` and `SleepEnds` about sleeps of at least one tick
  with nothing pending. `NotLonger` bounds the measured time from above only.
- `KernelHeap`: `AllocationMapped` is about the moment at which `alloc` returns.
- `KernelLog`: `NoSelfDeadlock` and `PanicHalts` are about panics under no lock,
  `ScreenShown` about records whose newline was not taken by an escape sequence.
- `AcpiPrintf`: `OutputExact` allows the `Deviations` and nothing else.

## Proofs

Every theorem holds for every value of the constants that the named assumptions
allow. TLC evaluates the assumptions on the instances of the runs. The proofs of
`KernelPagingProofs` and `UserPageMapperProofs` take about 25 minutes each, those of
`ApicTimerProofs` about 15, the others 6 or less.

Each safety theorem follows one pattern: an inductive invariant, a lemma that
`Init` implies it, a lemma per action that the action keeps it, and the property
from the invariant. What the invariants add to the properties is said below.

**PhysicalMemoryProofs**, for every number of pages, padding and boot map with at
most as many pages as bits, and virtual addresses beyond memory
(`NumPagesAssumption`, `PageSizeAssumption`, `VirtualPagesAssumption`,
`BitmapBitsAssumption`):

- `AllocatorCorrect` and `CounterIsExact`: `TypeOK`, `Ownership` and `FreeCount`
  always hold.
- `PagesGrantedOnce`: a step that makes a page held takes it from the clear bits.

The inductive invariant adds `PagesBound`, that held pages are below
`total_pages`: `free_page` silently ignores others, so without it a free might
not clear its bit. The counting lemmas `ReserveCounts` and `FreeCounts` relate
`free_pages` to the cardinality of the clear bits.

The second part is about the allocator that the entry point starts (`MemorySpec`),
for every memory map whose usable entries are page-aligned, not empty and not at
page 0 (`MemoryMapsAssumption`, which the boot protocol guarantees), and a bitmap
of the size that the entry point gives it (`BitmapSizeAssumption`,
`BitsPerByteAssumption`):

- `AllocatorStartsFromMap`: `page_allocation::init` makes an initial state of
  `PageAllocator` from the bitmap (`StartsFromMap`).
- `ClientsHoldUsable`: `OnlyUsable` always holds.
- `MemoryAccounted` and `MemoryGrantedOnce`: the results of the first part hold
  from the first step of the entry point on.

`BootInv` says what a clear and a set bit mean after the first `next - 1` entries
of the map, byte by byte with the start and end masks.

**KernelHeapProofs**, for every heap that has room for more than two headers,
every page size, and all nonzero sizes and alignments (`HeapAssumption`,
`HeaderAssumption`, `PageAssumption`, `LayoutAssumption`):

- `HeapCorrect`, `FreeNeighboursMerge` and `UsedBlocksAreLive`: `TypeOK`,
  `Tiling`, `Coalesced` and `LiveBlocks` always hold;
  their conjunction is inductive, and none of them is alone. `dealloc` searches
  for the block that contains a pointer; that it finds a used one, and merges
  only free ones, follows from `LiveBlocks`, which needs `Tiling`.
- `AllocationsNeverOverlap`, `HeapIsReclaimed` and `OthersAreUndisturbed` follow
  from it.
- `AllocationIsMapped`: `AllocationMapped`, every byte that `alloc` returns is on
  a page that it has mapped. The pages of the loop are those from the start of the
  block to the end of the allocation, and `AlignOrder` is that rounding down keeps
  the order.

`DeallocMerges` shows that the two in-place merges amount to one replacement of
up to three blocks by one, and `SplitInside` that a split stays in its block.

**KernelPagingProofs**, for every number of levels and entries, every memory
(`LevelsAssumption`, `ReservedAssumption`), every sequence of mappings at boot with
device memory outside of the heap and of what the allocator gives out
(`MapsAssumption`), and every tree of tables that the bootloader may leave in
reserved frames, executable or not, in which the kernel's own pages are not in huge
pages and the heap is not mapped (`BootTablesAssumption`):

- `FramesStayAccounted` and `CheckFlagsStaysExact`: `FramesAccounted` and
  `CheckFlagsExact` always hold. The second says of every heap page that
  `check_flags` fails below an executable entry of the bootloader, and elsewhere
  agrees with the last entry: the entries above it are the kernel's, with all flags,
  or the bootloader's. The heap's pages are below no huge page, so that its walk,
  which has no test for one, is the translation's.
- `TablesImplementMap`: `KernelPaging` implements `AddressMap`. Each step of the
  kernel maps one page, unmaps one, or changes no translation.

The inductive invariant says that the tables are a tree: there is a function
`place` that gives each table its level and the part of the address that leads to
it (`Placed`), two tables have different places, and each frame that is reserved
and not held elsewhere is referenced by exactly one entry of the kernel's. So a
walk reaches a table by one path (`OnWalk`), and changing one entry changes the
translation of the pages below it only. Without the places the invariant is not
inductive: two entries for one table would let an unmapping remove a page that it
does not name. The bootloader's entries are kept apart because they do refer to
free frames. `map_page_translation` is treated as the loop it is: `Loop` holds
after each iteration (`MapLevelKeeps`), and `RangeInduction` carries it to the
last one.

**UserPageMapperProofs**, for every number of levels and entries, any number of
frames and any of them in use elsewhere, and any tasks, ranges and buffers
(`LevelsAssumption`, `RootAssumption`, `RangesAssumption`, `BuffersAssumption`,
`ElsewhereAssumption`):

- `TablesStaySound`: `TablesSound` always holds. However the steps of the tasks and
  the other operations interleave, until `map_blank_page` has failed, no entry that
  can be reached refers to a frame that is free or that another entry refers to.
- `TasksAlwaysKeepOthers`: every step satisfies `TasksKeepOthers`. The half about the
  cleanup needs no sound tables: `unmap_page` only clears entries, and a walk that
  succeeds after entries were cleared did so before (`ZeroedWalks`).

`TablesSound` is not inductive, because it is about the tables that are reached.
`unmap_page` also frees tables that are not empty, and what was below them is cut
off: it stays reserved and keeps its entries. The inductive invariant says that
there are a set `T` of frames and a level for each (`Sound`): `T` holds the tables
that are reached and those that were cut off, each entry of `T` refers to a table
of `T` one level down or, from the last level, to a frame that is no table, and no
two entries of `T` refer to one frame. Reaching is then by induction on the level
(`ReachedInTables`). Unlike `KernelPagingProofs` it does not say which addresses
lead to a table, because nothing leads to one that was cut off. The invariant
promises nothing after a failure, which leaves links to freed tables, and after
`Drop`.

The loops of the module are recursive functions. That such a function exists and
takes the values of its definition is a lemma about any loop (`Iteration`,
`TraceOf`); one iteration is shown to keep the invariant (`ParentKeeps`,
`FreeEntryClimbs`, `CopyPageKeeps`, `ChangeLeafKeeps`), and `RangeInduction` carries
that to the last one. `FreePageTree` is not one of them: nothing is stated of the
allocator after `Drop`.

**VMAProofs.** The first part is about `NodeStorage`, for every number of entries of a
page and of bits of a byte (`MaxNodesAssumption`, `BitsPerByteAssumption`, `FramesAssumption`):

- `PagesAreOneList` and `EmptyPagesGivenBack`: `ListSound` and `PagesInUse` always
  hold.
- `SearchEnds`: the search for a page with a free entry comes to one or to the
  end of the list.
- `FailsOnlyAtLastByte`: `FailsAtLastByte` always holds, also of the inverted mask.
  `find_and_reserve_node` never comes to its `unreachable!()`, and its assertion on the
  entry's index fails only if the entries do not fill the last byte and the page has
  given out all those of its full bytes. In the kernel they do not; see
  `EntryIndexInBounds` above.

The inductive invariant numbers the pages in the order of the list. That the links
of neighbours agree is not enough: it allows a cycle of pages apart from the list.

The second part is about `VMAAllocator`, for every address space and any number of
tasks:

- `SegmentsCorrect` and `SegmentsStayDisjoint`: `SegmentsDisjoint`,
  `TasksOwnSegments` (with its exemption of a `corrupt` tree) and `UnmapRefused`
  (`start_unmap` never returns a task). The inductive invariant adds that no segment
  is empty, because the search of `start_try_map_at` compares only starts
  (`InGapApart`).

**ApicTimerProofs.** The first part is about `LegacyIrqs` alone, for every set of
IRQs that fits a group of vectors (`GroupSizeAssumption`), every wiring that is
`WellWired`, and its calls in any order (`IrqSpec`):

- `VectorsStayUnique`, `MappedIsRouted` and `UnmappedStaysMasked`: `VectorsUnique`,
  `RoutedToHandler` and `UnmappedIsMasked` always hold, whatever the versions of the
  I/O APICs make of the search. The inductive invariant adds that the entry the
  kernel finds for a mapped IRQ holds the vector that `LEGACY_IRQS` has for it
  (`RoutesAgree`), and that every entry that is not masked is the one found for an
  IRQ that is mapped or moved (`EntriesUsed`). A free bit exists in the first group because there are more bits than IRQs, which is
  where the lemmas on cardinality are used, and `entry_index` is then the number of
  the bit although the code adds the number of the group instead of multiplying it.
  `WellWired` is needed because unmapping masks the entry of the IRQ's own number,
  which must not be that of another.

The second part is about the kernel from `init_stage_2` on, for every MADT that is
laid out as ACPI says and wires each IRQ to an input of its own (`MadtAssumption`),
every period of the clock, and every delay of the kernel below it
(`PeriodAssumption`):

- `TableIsFollowed`: `MadtFollowed` always holds. The lists have the items of the
  entries that the iterator has passed, in their order, each I/O APIC with what
  `IoApic::new` read; this makes the wiring `WellWired` when the loop ends.
- `RoutesStayRight`: the properties of the first part hold from the MADT on,
  through its assertion, the calibration and the timer's setup.
- `NothingStrays`: `NoStrayInterrupt` always holds.
- `MeasuredNotLonger`: `NotLonger` always holds.
- `SleepsLongEnough`: `SleepNotShort` always holds.

The inductive invariant `TimerInv` says at each statement which interrupts may be
pending, and relates the timer's count to the phase of the clock: while the second
wait lasts, the time measured is at most the phase unless the interrupt that ends
it is pending, and then at most a period and the time the kernel has run (`Waits`).
If the clock's entry is not the one that was programmed, its interrupt never comes
and the kernel stays in the first wait (`Unheard`). For a sleep, the time
slept and the count add up to the ticks asked for.

**KernelLogProofs.** The first part is about `Terminal` alone, for every text and
every screen that is wider than the last tab stop (`ScreenAssumption`):

- `ScreenStaysWindow`: `ScreenIsWindow` always holds. The inductive invariant adds
  that the cursor is on the screen and that the buffer and the paper have their
  shapes. `NewRow` is the lemma of a new line, with and without scrolling, and
  `PutPrints` that of a character.

The second part is about the kernel's thread, for every set of records
(`RecordsAssumption`), every ramdisk and every stack, with exceptions at any point:

- `LoggedIsShown`: `ScreenShown` always holds.
- `NeverSelfDeadlocks`: `NoSelfDeadlock` always holds.
- `LogIsWindow`: `ScreenIsWindow` holds of what the logger writes.
- `HaltIsReported`: the handler of a panic does not halt before the debug port has
  its message. That it gets there is liveness and model-checked (`PanicHalts`).

The inductive invariant says which locks are held at each place of the code
(`Locks`), that a panic that began under one gets no further than that lock
(`Reports`), that a record ends with a newline, after which nothing is left to draw
(`Lines`), and that the two buffers and the framebuffer agree outside of `write`
(`Buffers`).

`NaturalsFacts` holds what the proofs share: facts of arithmetic, induction over the
iterations of a loop (`RangeInduction`), and the existence of a function that a loop
defines (`Iteration`, `TraceOf`).

### Only model-checked

- Liveness: `CalibrationEnds`, `SleepEnds`, `PanicHalts` and `TaskEndsOrFails`. It
  needs fairness and `ENABLED`, which are out of reach of the prover.
- `VMATree` (`SearchTree`, `RedBlack`, `AreasExact`, `ReservedReachable`,
  `ImplementsSegmentMap`): its searches and its rebalancing go up and down a tree
  whose height is not bounded by a constant. They are recursive operators, for
  which the prover has no induction.
- `AcpiPrintf` (`OutputExact`): the reference is recursive over the format, with
  folds for the numbers in it; that the scanner agrees with it is an induction over
  data.

## Not modelled

- Translation lookaside buffers: the code invalidates none.
- The contents of pages, except which frames are tables, and headers of the heap.
- Overflow of addresses: all arithmetic is on addresses that the callers keep in
  range, and the build checks overflow.
- `VMATree::drop` (which leaves the first node page allocated), the `pages_used`
  counter of the callers, and moving a `VMATree`, whose `temp_node` is embedded.
- `UnmapTask::run`, which is unreachable (`UnmapRefused`).
- That `dealloc` of the heap drops its lock guard at once (l. 154): nothing runs
  concurrently with it.
- The encoding of device registers and redirection entries (polarity, trigger
  mode, destination), the pixels of a glyph, and `Terminal::reset`, which nothing
  calls.
- Screens of 64 columns or fewer, where a tab leaves the row, and of more than
  65536 cells, where the 16-bit index of a cell overflows (`ScreenAssumption`);
  stacks whose frame pointers form a cycle of several frames, on which the trace
  does not end (`StackAssumption`).
- `calibration_sleep` of `x86/clock/cmos.rs`: the real-time clock is preferred and
  always available.
- `x86/virtual_page_mapping.rs`, an older variant of the user page mapper that
  nothing calls; it would repeat `UserPageMapper`.
- `process.rs`: nothing calls it, and `push_back` never sets `head`, so there is no
  behaviour of a list to state.
- The locks and semaphores of the ACPICA OS layer: they are counters for one
  thread, and the order of calls is that of ACPICA, which is not in the repository.
- Descriptor tables, CPU setup, bootloader structures: straight-line code.

## Plan

1. Compositions: `NodeStorage` below `VMATree`, `KernelHeap` over `KernelPaging`.
2. That `Drop` of `UserPageMapper` gives back every frame, for tables from which
   nothing was cut off.
3. Unmapping tasks of `VMAAllocator` once the code can start one.
