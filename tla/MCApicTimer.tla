---------------------------- MODULE MCApicTimer -----------------------------
(***************************************************************************)
(* Two IRQs, that of the clock and another one, on one or two I/O APICs    *)
(* with the usual versions and 24 inputs each, whose bases are 0 and 24.   *)
(***************************************************************************)
EXTENDS ApicTimer

Entry(type, length) == [type |-> type, length |-> length, base |-> 0, register |-> 0,
                        irq_source |-> 0, gsi |-> 0]
IoApicEntry(base, version, inputs) ==
  [Entry("io_apic", 12) EXCEPT !.base = base, !.register = (inputs - 1) * 2^16 + version]
OverrideEntry(irq, gsi) == [Entry("override", 10) EXCEPT !.irq_source = irq, !.gsi = gsi]

\* The table of a sequence of entries.
Table(entries) ==
  LET offset[i \in 1 .. Len(entries) + 1] ==
        IF i = 1 THEN MadtSize ELSE offset[i - 1] + entries[i - 1].length
  IN  [length |-> offset[Len(entries) + 1],
       at |-> [o \in {offset[i] : i \in DOMAIN entries} |->
                 entries[CHOOSE i \in DOMAIN entries : offset[i] = o]]]

\* In the first table IRQ 1 is listed with its own number, in the second one the
\* clock is moved to another interrupt and IRQ 1 is listed twice, first with an
\* interrupt for which the kernel finds no I/O APIC.  In the others, too, the
\* version misleads the kernel:
\*   - IRQ 1, and then the clock, drive an input of the second I/O APIC, which
\*     the kernel takes for one of the first;
\*   - it finds one for the clock, but not to unmap it again;
\*   - a bit above the version (of the pin assertion register) is set.
MCMadts ==
  { Table(<<Entry("other", 8), IoApicEntry(0, 17, 24), OverrideEntry(1, 1),
            IoApicEntry(24, 32, 24)>>),
    Table(<<IoApicEntry(0, 17, 24), Entry("other", 6), OverrideEntry(8, 9), OverrideEntry(1, 20),
            OverrideEntry(1, 4)>>),
    Table(<<IoApicEntry(0, 32, 24), IoApicEntry(24, 32, 24), OverrideEntry(1, 26)>>),
    Table(<<IoApicEntry(0, 32, 24), IoApicEntry(24, 32, 24), OverrideEntry(8, 26)>>),
    Table(<<IoApicEntry(0, 4, 16), OverrideEntry(8, 2)>>),
    Table(<<IoApicEntry(0, 2^15 + 32, 24)>>) }
=============================================================================
