----------------------------- MODULE LegacyIrqs -----------------------------
(***************************************************************************)
(* Routing of the legacy IRQs to handlers (arch/x86_64/interrupts.rs): the *)
(* map of interrupt vectors in use, the redirection entries of the I/O     *)
(* APICs, the APIC part of the IDT and the table LEGACY_IRQS.              *)
(*                                                                         *)
(* A vector is named by its index in idt.apic_interrupts (128 less than    *)
(* its number).  The device of an IRQ drives the global system interrupt   *)
(* Wire(irq); the MADT tells the kernel with an interrupt source override  *)
(* when that is not the IRQ's own number.  That interrupt is an input of   *)
(* one of the I/O APICs, each of which has the inputs from its base on.    *)
(* The kernel does not know how many: the 16 bits that IoApic::new takes   *)
(* from the register of that number are the version of the device.  So the *)
(* I/O APIC that it finds for an interrupt (Slot) may be another one than  *)
(* that of the device (Input), or there may be none.                       *)
(*                                                                         *)
(* The callers are external.  The kernel runs on one processor, whose      *)
(* local APIC has an id below 256, and a call is one step because          *)
(* interrupts are off during it.                                           *)
(***************************************************************************)
EXTENDS Integers, FiniteSets, Sequences

CONSTANTS
  Irq,        \* legacy IRQs that are used
  GroupSize,  \* bits of a group of interrupt_vector_map
  Handler,    \* handler functions
  None

\* The 16 IRQs, the timer and the vector that is never used fit into the
\* first group.
ASSUME GroupSizeAssumption ==
  /\ IsFiniteSet(Irq)
  /\ GroupSize \in Nat
  /\ GroupSize > Cardinality(Irq) + 2

ASSUME NoneAssumption == None \notin Handler \cup Nat

Groups == 0 .. 1
Index == 0 .. GroupSize - 1

VARIABLES
  io_apics,     \* sequence of [base, num_redirection_entries], with the number
                \* of inputs that the device has
  interrupt_source_overrides,  \* sequence of [irq_source, gsi]
  vector_map,   \* interrupt_vector_map: the bits <<group, index>> that are set
  idt,          \* index -> handler, or None for Entry::missing
  redirect,     \* the redirection entries that are not masked: <<position of the
                \* I/O APIC in io_apics, index of the entry>> -> vector
  legacy_irqs,  \* LEGACY_IRQS: irq -> entry_index, or None
  timer,        \* local_apic.interrupt_idt_index
  wanted,       \* irq -> the handler its caller has mapped, or None
  panicked

tables == <<io_apics, interrupt_source_overrides>>
routes == <<vector_map, idt, redirect, legacy_irqs, timer, wanted, panicked>>
irqVars == <<tables, routes>>

OverridesOf(irq) ==
  {i \in DOMAIN interrupt_source_overrides : interrupt_source_overrides[i].irq_source = irq}

\* The interrupt that register_legacy_irq finds for an IRQ: that of the first
\* override, or the IRQ's own number.
Wire(irq) ==
  IF OverridesOf(irq) = {} THEN irq
  ELSE LET first == CHOOSE i \in OverridesOf(irq) : \A j \in OverridesOf(irq) : i <= j
       IN  interrupt_source_overrides[first].gsi

\* The I/O APICs of which the kernel takes g to be an input, and those of which
\* it is one.
Found(g) ==
  {k \in DOMAIN io_apics :
     io_apics[k].base <= g /\ g < io_apics[k].base + io_apics[k].num_redirection_entries}
Wired(g) ==
  {k \in DOMAIN io_apics : io_apics[k].base <= g /\ g < io_apics[k].base + io_apics[k].inputs}

\* The redirection entry of g in the first of some I/O APICs.
EntryIn(ks, g) ==
  LET first == CHOOSE k \in ks : \A l \in ks : k <= l
  IN  <<first, g - io_apics[first].base>>

\* The entry that the kernel programs for g, and the one that the device drives.
Slot(g) == EntryIn(Found(g), g)
Input(g) == EntryIn(Wired(g), g)

\* register_legacy_irq neither fails its assertion about the override nor gets to
\* the unreachable!().
Registers(irq) == Wire(irq) <= 255 /\ Found(Wire(irq)) # {}

\* It programs the entry that the device drives.
Reached(irq) == Registers(irq) /\ Slot(Wire(irq)) = Input(Wire(irq))

\* What the firmware guarantees: each IRQ has an input of its own, and it is
\* not moved to the number of another IRQ that is used.
WellWired ==
  /\ \A k \in DOMAIN io_apics : k \in Nat /\ io_apics[k].base \in Nat
  /\ \A irq \in Irq : irq \in Nat /\ Wire(irq) \in Nat /\ Wired(Wire(irq)) # {}
  /\ \A i, j \in Irq : Wire(i) \in {j, Wire(j)} => i = j

IrqTypeOK ==
  /\ vector_map \subseteq Groups \X Index
  /\ idt \in [Index -> Handler \cup {None}]
  /\ redirect \in [DOMAIN redirect -> Index]
  /\ legacy_irqs \in [Irq -> Index \cup {None}]
  /\ timer \in Index \cup {None}
  /\ wanted \in [Irq -> Handler \cup {None}]
  /\ panicked \in BOOLEAN

\* STATE as apic::init_from_madt leaves it, and the IDT of tls::init.  The
\* firmware leaves the redirection entries masked.
RoutesInit ==
  /\ vector_map = {<<0, 0>>}
  /\ idt = [i \in Index |-> None]
  /\ redirect = [slot \in {} |-> 0]
  /\ legacy_irqs = [irq \in Irq |-> None]
  /\ timer = None
  /\ wanted = [irq \in Irq |-> None]
  /\ panicked = FALSE
-----------------------------------------------------------------------------
Clear == (Groups \X Index) \ vector_map

\* The bit that try_find_and_reserve_entry sets: the first clear one of the
\* first group that has one.
FirstClear ==
  CHOOSE b \in Clear : \A c \in Clear : b[1] < c[1] \/ (b[1] = c[1] /\ b[2] <= c[2])

\* What it returns: the number of the group is added, not multiplied.
EntryIndex(b) == b[1] + b[2]

\* Mutant: the bit is not set.
ReserveEntryUnmarked(index) == index = EntryIndex(FirstClear) /\ UNCHANGED vector_map

\* try_find_and_reserve_entry returns index.
ReserveEntry(index) ==
  /\ index = EntryIndex(FirstClear)
  /\ vector_map' = vector_map \cup {FirstClear}

\* free_entry
FreeEntry(index) ==
  vector_map' = vector_map \ {<<index \div GroupSize, index % GroupSize>>}

\* write_redirection_entry of an entry that is not masked.
Unmasked(slot, vector) ==
  [s \in DOMAIN redirect \cup {slot} |-> IF s = slot THEN vector ELSE redirect[s]]

\* Mutant: the override is not looked up.
RegisterLegacyIrqSource(irq, vector) ==
  redirect' = IF Registers(irq) /\ Found(irq) # {} THEN Unmasked(Slot(irq), vector) ELSE redirect

\* register_legacy_irq writes the entry of the override's interrupt.
RegisterLegacyIrq(irq, vector) ==
  redirect' = IF Registers(irq) THEN Unmasked(Slot(Wire(irq)), vector) ELSE redirect

\* Mutant: the entry is left unmasked.
UnregisterLegacyIrqUnmasked(irq) == redirect' = redirect

\* unregister_legacy_irq looks the override up and takes its irq_source, which
\* is irq again.  The entry is masked.
UnregisterLegacyIrq(irq) ==
  redirect' = [s \in DOMAIN redirect \ {Slot(irq)} |-> redirect[s]]

\* map_legacy_irq: that the IRQ is not mapped already is asserted last, once
\* the new handler is in place.
MapLegacyIrq(irq, handler) ==
  /\ ~panicked
  /\ \E index \in Index :
       /\ ReserveEntry(index)
       /\ idt' = [idt EXCEPT ![index] = handler]
       /\ RegisterLegacyIrq(irq, index)
       /\ panicked' = (~Registers(irq) \/ legacy_irqs[irq] # None)
       /\ legacy_irqs' = [legacy_irqs EXCEPT ![irq] = IF panicked' THEN @ ELSE index]
       /\ wanted' = [wanted EXCEPT ![irq] = handler]
  /\ UNCHANGED <<tables, timer>>

\* unmap_legacy_id, and the drop of a ScopedLegacyIrqMapping.
UnmapLegacyId(irq) ==
  /\ ~panicked
  /\ legacy_irqs[irq] # None
  /\ Found(irq) # {}
  /\ legacy_irqs' = [legacy_irqs EXCEPT ![irq] = None]
  /\ UnregisterLegacyIrq(irq)
  /\ FreeEntry(legacy_irqs[irq])
  /\ idt' = [idt EXCEPT ![legacy_irqs[irq]] = None]
  /\ wanted' = [wanted EXCEPT ![irq] = None]
  /\ UNCHANGED <<tables, timer, panicked>>

\* unmap_legacy_id unwraps the entry of an IRQ that is not mapped, or
\* unregister_legacy_irq gets to its unreachable!() once the entry is taken.
UnmapPanics(irq) ==
  /\ ~panicked
  /\ legacy_irqs[irq] = None \/ Found(irq) = {}
  /\ legacy_irqs' = [legacy_irqs EXCEPT ![irq] = None]
  /\ panicked' = TRUE
  /\ UNCHANGED <<tables, vector_map, idt, redirect, timer, wanted>>

\* clock::apic::setup, once at boot, reserves the vector of the timer.
TimerSetup ==
  /\ ~panicked
  /\ timer = None
  /\ \E index \in Index : ReserveEntry(index) /\ timer' = index
  /\ UNCHANGED <<tables, idt, redirect, legacy_irqs, wanted, panicked>>

\* clock::apic::set_interrupt_type
SetInterruptType(handler) ==
  /\ ~panicked
  /\ timer # None
  /\ idt' = [idt EXCEPT ![timer] = handler]
  /\ UNCHANGED <<tables, vector_map, redirect, legacy_irqs, timer, wanted, panicked>>

IrqNext ==
  \/ \E irq \in Irq, handler \in Handler : MapLegacyIrq(irq, handler)
  \/ \E irq \in Irq : UnmapLegacyId(irq)
  \/ \E irq \in Irq : UnmapPanics(irq)
  \/ TimerSetup
  \/ \E handler \in Handler : SetInterruptType(handler)

\* The calls alone, once the tables are filled in.
IrqSpec == WellWired /\ RoutesInit /\ [][IrqNext]_irqVars
-----------------------------------------------------------------------------
VectorsInUse == {legacy_irqs[irq] : irq \in Irq} \cup {timer}

\* The vectors in use are all different, and the bits of interrupt_vector_map
\* are exactly theirs and that of the first vector: mapping, unmapping and the
\* timer never share a vector and never lose one.
VectorsUnique ==
  ~panicked =>
    /\ vector_map = {<<0, 0>>} \cup {<<0, i>> : i \in VectorsInUse \ {None}}
    /\ 0 \notin VectorsInUse
    /\ \A i, j \in Irq : legacy_irqs[i] = legacy_irqs[j] /\ i # j => legacy_irqs[i] = None
    /\ \A i \in Irq : timer # None => legacy_irqs[i] # timer

\* An interrupt of a device whose IRQ is mapped reaches the handler that was
\* mapped for it last, if the I/O APIC that register_legacy_irq finds is the one
\* of the device: neither the override nor what else is mapped and unmapped gets
\* in the way.
RoutedToHandler ==
  ~panicked =>
    \A irq \in Irq : wanted[irq] # None /\ Reached(irq) =>
      LET input == Input(Wire(irq))
      IN  input \in DOMAIN redirect /\ idt[redirect[input]] = wanted[irq]

\* The same of every IRQ that is mapped.
EveryRoutedToHandler ==
  ~panicked =>
    \A irq \in Irq : wanted[irq] # None =>
      LET input == Input(Wire(irq))
      IN  input \in DOMAIN redirect /\ idt[redirect[input]] = wanted[irq]

\* Once an IRQ is unmapped ("Map RTC IRQ temporarily"), its device interrupts
\* the kernel no more.
EveryUnmappedIsMasked ==
  ~panicked =>
    \A irq \in Irq : wanted[irq] = None => \A slot \in DOMAIN redirect : slot # Input(Wire(irq))

\* That holds of the IRQs that drive the interrupt of their own number (an
\* override may list one to change its polarity only), whatever the others do.
UnmappedIsMasked ==
  ~panicked =>
    \A irq \in Irq : wanted[irq] = None /\ Wire(irq) = irq =>
      \A slot \in DOMAIN redirect : slot # Input(irq)
=============================================================================
