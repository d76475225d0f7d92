-------------------------------- MODULE Madt --------------------------------
(***************************************************************************)
(* How the interrupt system is set up from the firmware's MADT:            *)
(* MadtEntryIterator (platform/acpi/mod.rs) and apic::init_from_madt       *)
(* (arch/x86_64/interrupts.rs).                                            *)
(*                                                                         *)
(* A table is a record of its length and of a function from the offsets at *)
(* which entries start to the entries.  Entries keep the header (the type, *)
(* the length in bytes) and what init_from_madt takes from them; the other *)
(* types of entry are all "other".  The entry of an I/O APIC also has what *)
(* the device at its address holds in register 1.                          *)
(***************************************************************************)
EXTENDS LegacyIrqs

CONSTANT Madts  \* the MADTs that the firmware may provide

VARIABLES
  pc,             \* where the kernel is
  madt,           \* the table in the firmware's memory
  current_header  \* MadtEntryIterator, as an offset into the table

madtVars == <<madt, current_header>>

MadtSize == 44  \* size_of::<Madt>()

\* The entries of a table follow each other from the end of its header to its own
\* end, and an entry is at least as long as the header of an entry.
WellFormed(table) ==
  /\ table.length \in Nat
  /\ DOMAIN table.at \subseteq Nat
  /\ MadtSize \in DOMAIN table.at \cup {table.length}
  /\ \A o \in DOMAIN table.at :
       LET end == o + table.at[o].length
       IN  /\ table.at[o].length \in Nat /\ table.at[o].length >= 2
           /\ o >= MadtSize /\ end <= table.length
           /\ end \in DOMAIN table.at \cup {table.length}
           /\ \A p \in DOMAIN table.at : p > o => p >= end
           /\ {table.at[o].base, table.at[o].register} \subseteq Nat

\* The wiring that a table describes: the first override of an IRQ tells its
\* interrupt.
Overriding(table, irq) ==
  {o \in DOMAIN table.at : table.at[o].type = "override" /\ table.at[o].irq_source = irq}

FirmwareWire(table, irq) ==
  IF Overriding(table, irq) = {} THEN irq
  ELSE table.at[CHOOSE o \in Overriding(table, irq) :
                  \A p \in Overriding(table, irq) : o <= p].gsi

\* Register 1 of an I/O APIC has the version of the device in its bits 0 to 7
\* and the number of its last redirection entry in the bits 16 to 23.
Inputs(register) == ((register \div 2^16) % 2^8) + 1

IsInput(table, g) ==
  \E o \in DOMAIN table.at :
    /\ table.at[o].type = "io_apic"
    /\ table.at[o].base <= g /\ g < table.at[o].base + Inputs(table.at[o].register)

\* What the firmware guarantees of a table: its entries are laid out as the ACPI
\* specification says, each IRQ has an input of its own, and it is not moved to
\* the number of another IRQ that is used.
ASSUME MadtAssumption ==
  /\ Irq \subseteq Nat
  /\ \A table \in Madts :
       /\ WellFormed(table)
       /\ \A irq \in Irq : /\ FirmwareWire(table, irq) \in Nat
                           /\ IsInput(table, FirmwareWire(table, irq))
       /\ \A i, j \in Irq : FirmwareWire(table, i) \in {j, FirmwareWire(table, j)} => i = j

\* Madt::entry_iter: the address of the table's last byte.
EndAddress == madt.length - 1

\* Mutant: the end is taken to be the last header's worth of bytes earlier.
MoreEntriesBefore(header) == header + 12 < EndAddress

\* The test of MadtEntryIterator::next.
MoreEntries(header) == header < EndAddress

\* The memory of an Entry of the table, which must be one.
EntryAt(header) == madt.at[header]

MadtInit ==
  /\ pc = "madt"
  /\ madt \in Madts
  /\ current_header = MadtSize
  /\ io_apics = <<>>
  /\ interrupt_source_overrides = <<>>

\* IoApic::new reads register 1 "as u16" and asserts that this is small.
NumRedirectionEntries(register) == register % 2^16
MaxRedirectionEntries == 63

IoApic(e) == [base |-> e.base,
              num_redirection_entries |-> NumRedirectionEntries(e.register),
              inputs |-> Inputs(e.register)]

\* An iteration of the loop of init_from_madt: next moves on by the length in
\* the header, and skips an entry of an unknown type by calling itself.
NextEntry ==
  LET e == EntryAt(current_header)
  IN  /\ pc = "madt"
      /\ MoreEntries(current_header)
      /\ current_header' = current_header + e.length
      /\ io_apics' = IF e.type = "io_apic" THEN Append(io_apics, IoApic(e)) ELSE io_apics
      /\ panicked' = (/\ e.type = "io_apic"
                      /\ NumRedirectionEntries(e.register) >= MaxRedirectionEntries)
      /\ interrupt_source_overrides' =
           IF e.type = "override"
           THEN Append(interrupt_source_overrides, [irq_source |-> e.irq_source, gsi |-> e.gsi])
           ELSE interrupt_source_overrides
      /\ UNCHANGED <<pc, madt, vector_map, idt, redirect, legacy_irqs, timer, wanted>>

\* The loop ends; RoutesInit is the State that is stored then.
EntriesDone ==
  /\ pc = "madt"
  /\ ~MoreEntries(current_header)
  /\ pc' = "clocks1"
  /\ UNCHANGED <<madtVars, irqVars>>
-----------------------------------------------------------------------------
EntriesOf(type) == {o \in DOMAIN madt.at : madt.at[o].type = type}

\* The kernel knows every I/O APIC and every override of the table, each once,
\* when it begins to map IRQs, and the overrides in the table's order; so the
\* interrupt it looks for on behalf of an IRQ is that which the firmware says the
\* device drives.
MadtFollowed ==
  pc # "madt" =>
    /\ Len(io_apics) = Cardinality(EntriesOf("io_apic"))
    /\ \A o \in EntriesOf("io_apic") : \E k \in DOMAIN io_apics : io_apics[k] = IoApic(madt.at[o])
    /\ Len(interrupt_source_overrides) = Cardinality(EntriesOf("override"))
    /\ \A o \in EntriesOf("override") :
         (\A p \in EntriesOf("override") : p < o => madt.at[p].irq_source # madt.at[o].irq_source)
           => Wire(madt.at[o].irq_source) = madt.at[o].gsi
=============================================================================
