----------------------------- MODULE LocalApic ------------------------------
(***************************************************************************)
(* The local APIC and its timer, as the kernel uses them (the registers of *)
(* arch/x86_64/apic.rs).  The device is external.  It keeps one pending    *)
(* interrupt of a vector; the timer counts down by one with each unit of   *)
(* time, stops at zero, and makes its vector pending when it gets there    *)
(* unmasked.  Masking the timer neither stops it nor takes an interrupt    *)
(* back.                                                                   *)
(*                                                                         *)
(* A pending interrupt is <<vector, source>>: the source is not visible to *)
(* the kernel and serves to state what a handler is called for.            *)
(***************************************************************************)
EXTENDS Madt

CONSTANTS
  MaxCount,               \* 0xFFFFFFFF
  RtcHandler,             \* Rtc::sleep_handler_apic
  SleepHandler            \* clock::apic::sleep_handler

ASSUME HandlerAssumption ==
  {RtcHandler, SleepHandler} \subseteq Handler /\ RtcHandler # SleepHandler

VARIABLES
  irr,     \* the pending interrupts
  lvt,     \* LvtTimer: [vector, masked]
  count,   \* CurrentCount
  stray    \* <<source, handler>> of interrupts that reached another handler

apicVars == <<irr, lvt, count, stray>>

LocalApicInit ==
  /\ irr = {}
  /\ lvt = [vector |-> None, masked |-> TRUE]
  /\ count = 0
  /\ stray = {}

\* What the timer makes pending when a unit of time passes.
TimerRaises == IF count = 1 /\ ~lvt.masked THEN {<<lvt.vector, "timer">>} ELSE {}

HandlerOf(source) == IF source = "rtc" THEN RtcHandler ELSE SleepHandler

\* The processor takes the interrupt of a vector.  A missing entry of the IDT
\* is an exception, whose handler panics.
Take(vector) ==
  LET sources == {p[2] : p \in {q \in irr : q[1] = vector}}
  IN  /\ sources # {}
      /\ irr' = {q \in irr : q[1] # vector}
      /\ panicked' = (idt[vector] = None)
      /\ stray' = stray \cup {<<s, idt[vector]>> : s \in {t \in sources : idt[vector] # HandlerOf(t)}}
      /\ UNCHANGED <<lvt, count>>
-----------------------------------------------------------------------------
\* An interrupt is handled by the code that asked for it.  The vector that the
\* clock had during the calibration is given to the timer next: no interrupt of
\* the clock ends a sleep or is taken once its entry of the IDT is gone.  A
\* timer interrupt finds no handler only before set_interrupt_type.
NoStrayInterrupt == stray \subseteq {<<"timer", None>>}
=============================================================================
