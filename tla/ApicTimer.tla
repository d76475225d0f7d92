----------------------------- MODULE ApicTimer ------------------------------
(***************************************************************************)
(* The interrupt system from init_stage_2 (arch/x86_64/mod.rs) on: the     *)
(* MADT is read, the timer of the local APIC is calibrated against the     *)
(* clock, set up, and used for sleeps and countdowns (clock/apic.rs) while *)
(* IRQs are mapped and unmapped.                                           *)
(*                                                                         *)
(* The callers are external.  There is one thread, and interrupts are off  *)
(* in it but for the "sti; hlt; cli" of a sleep, as everywhere in the      *)
(* kernel.  Time passes between any two statements.                        *)
(***************************************************************************)
EXTENDS RtcCalibration

CONSTANTS
  MsRange,   \* the times, in milliseconds, that callers ask for
  UsPerMs    \* 1000; Period is the 62500 microseconds of a calibration

ASSUME MsAssumption == MsRange \subseteq Nat /\ UsPerMs \in Nat

VARIABLES
  interrupt_received,  \* local_apic.interrupt_received
  ticks,    \* time_apic_ticks of the last sleep or countdown
  call,     \* the call under way: "sleep", "countdown", "none"
  slept,    \* time since a sleep wrote InitialCount
  clean     \* no timer interrupt was pending when it did

timerVars == <<interrupt_received, ticks, call, slept, clean>>
vars == <<pc, irqVars, madtVars, apicVars, rtcVars, timerVars>>

Init ==
  /\ MadtInit /\ RoutesInit /\ LocalApicInit /\ RtcInit
  /\ interrupt_received = FALSE
  /\ ticks = 0
  /\ call = "none"
  /\ slept = 0
  /\ clean = FALSE

TypeOK ==
  /\ IrqTypeOK
  /\ irr \subseteq Index \X {"rtc", "timer"}
  /\ lvt \in [vector : Index \cup {None}, masked : BOOLEAN]
  /\ count \in 0 .. MaxCount
  /\ phase \in 0 .. Period - 1 /\ lag \in 0 .. MaxLag
  /\ {received, flag, enabled, interrupt_received, clean} \subseteq BOOLEAN
  /\ numerator \in 0 .. MaxCount /\ ticks \in 0 .. MaxCount /\ slept \in 0 .. MaxCount
-----------------------------------------------------------------------------
\* setup
Setup ==
  /\ Goto("setup", "clocks2")
  /\ TimerSetup
  /\ lvt' = [vector |-> timer', masked |-> TRUE]
  /\ count' = MaxCount
  /\ TIMERS' = TIMERS \cup {"apic"}
  /\ UNCHANGED <<irr, stray, manager, received, rtc, time, numerator, madtVars, timerVars>>

Available == pc = "idle" /\ ~panicked /\ manager.timer = "apic"

\* The number of ticks of a time, as a u32.
Ticks(ms) == ((numerator * (ms * UsPerMs)) \div Period) % (MaxCount + 1)

\* sleep_ms and start_countdown_ms compute the ticks ...
Begin(what, ms) ==
  /\ Available
  /\ pc' = "unmask"
  /\ call' = what
  /\ ticks' = Ticks(ms)
  /\ UNCHANGED <<interrupt_received, slept, clean, irqVars, madtVars, apicVars, rtcVars>>

\* Mutant: the timer stays masked.
UnmaskNothing ==
  /\ Goto("unmask", "clear")
  /\ UNCHANGED <<apicVars, timerVars, irqVars, madtVars, rtcVars>>

\* ... enable timer interrupts ...
Unmask ==
  /\ Goto("unmask", "clear")
  /\ lvt' = [lvt EXCEPT !.masked = FALSE]
  /\ UNCHANGED <<irr, count, stray, timerVars, irqVars, madtVars, rtcVars>>

\* ... reset the indicator ...
ClearReceived ==
  /\ Goto("clear", "count")
  /\ interrupt_received' = FALSE
  /\ UNCHANGED <<ticks, call, slept, clean, irqVars, madtVars, apicVars, rtcVars>>

\* ... and write InitialCount; zero stops the timer.
WriteCount ==
  /\ Goto("count", IF call = "sleep" THEN "test3" ELSE "idle")
  /\ count' = ticks
  /\ call' = IF call = "sleep" THEN call ELSE "none"
  /\ slept' = 0
  /\ clean' = (call = "sleep" /\ <<lvt.vector, "timer">> \notin irr)
  /\ UNCHANGED <<interrupt_received, ticks, irr, lvt, stray, irqVars, madtVars, rtcVars>>

\* while !interrupt_received
TestReceived ==
  /\ Goto("test3", IF interrupt_received THEN "awake" ELSE "halt3")
  /\ UNCHANGED <<timerVars, irqVars, madtVars, apicVars, rtcVars>>

\* sleep_ms returns.
Awake ==
  /\ Goto("awake", "idle")
  /\ interrupt_received' = FALSE
  /\ call' = "none"
  /\ slept' = 0 /\ clean' = FALSE
  /\ UNCHANGED <<ticks, irqVars, madtVars, apicVars, rtcVars>>

\* stop_countdown
StopCountdown ==
  /\ Available
  /\ lvt' = [lvt EXCEPT !.masked = TRUE]
  /\ UNCHANGED <<pc, irr, count, stray, timerVars, irqVars, madtVars, rtcVars>>

\* interrupts.rs and set_interrupt_type, called from elsewhere.  Only the sleep
\* handler exists; the drivers' handlers are the others.
IrqCall ==
  /\ Available
  /\ \/ \E irq \in Irq, handler \in Handler \ {RtcHandler, SleepHandler} : MapLegacyIrq(irq, handler)
     \/ \E irq \in Irq : UnmapLegacyId(irq) \/ UnmapPanics(irq)
     \/ SetInterruptType(SleepHandler)
  /\ UNCHANGED <<pc, madtVars, apicVars, rtcVars, timerVars>>
-----------------------------------------------------------------------------
Wakes(p) == CASE p \in {"halt1", "wake1"} -> "wake1"
              [] p \in {"halt2", "wake2"} -> "wake2"
              [] p \in {"halt3", "wake3"} -> "wake3"

\* "sti; hlt; cli": interrupts are taken once the processor has halted, and
\* until the cli.  The handlers set their indicators.
Deliver ==
  /\ pc \in Halted \cup {"wake1", "wake2", "wake3"}
  /\ ~panicked
  /\ \E vector \in Index :
       /\ Take(vector)
       /\ received' = (received \/ idt[vector] = RtcHandler)
       /\ interrupt_received' = (interrupt_received \/ idt[vector] = SleepHandler)
  /\ pc' = Wakes(pc)
  /\ UNCHANGED <<clockVars, rtc, time, numerator, ticks, call, slept, clean, tables, vector_map,
                 idt, redirect, legacy_irqs, timer, wanted, madtVars>>

\* Time passes after the calibration, while the timer runs.
TimerTick ==
  /\ timer # None
  /\ count > 0
  /\ ~panicked
  /\ count' = count - 1
  /\ irr' = irr \cup TimerRaises
  /\ slept' = IF call = "sleep" /\ slept < MaxCount THEN slept + 1 ELSE slept
  /\ UNCHANGED <<pc, lvt, stray, interrupt_received, ticks, call, clean, irqVars, madtVars, rtcVars>>

Tick == (CalibrationTick /\ UNCHANGED timerVars) \/ TimerTick

Boot ==
  /\ ~panicked
  /\ \/ NextEntry /\ UNCHANGED <<apicVars, rtcVars>>
     \/ EntriesDone /\ UNCHANGED <<apicVars, rtcVars>>
     \/ UpdateClocks("clocks1", "map")
     \/ Calibrate
     \/ UpdateClocks("clocks2", "idle")
  /\ UNCHANGED timerVars

Calls ==
  \/ \E ms \in MsRange, what \in {"sleep", "countdown"} : Begin(what, ms)
  \/ StopCountdown
  \/ IrqCall

Sleep ==
  /\ ~panicked
  /\ \/ Unmask \/ ClearReceived \/ WriteCount \/ TestReceived \/ Awake
     \/ Cli("wake3", "test3") /\ UNCHANGED timerVars

Kernel == Boot \/ Setup \/ Sleep

Next == Kernel \/ Calls \/ Deliver \/ Tick

Spec == Init /\ [][Next]_vars

\* The kernel and time move on, and a pending interrupt is taken.
FairSpec == Spec /\ WF_vars(Kernel) /\ WF_vars(Deliver) /\ WF_vars(Tick)
-----------------------------------------------------------------------------
\* A sleep lasts at least as long as the ticks it asks for, unless an earlier
\* countdown or sleep left an interrupt pending: neither a stale indicator nor
\* an interrupt of the clock ends it early.
SleepNotShort == pc = "awake" /\ clean => slept >= ticks

\* The same of every sleep.
SleepNeverShort == pc = "awake" => slept >= ticks

\* A sleep of at least one tick ends, once set_interrupt_type has been called:
\* its interrupt is neither lost before the processor halts nor masked.
SleepEnds ==
  (pc = "test3" /\ ticks > 0 /\ idt[timer] # None) ~> (pc = "idle")

\* The same of every sleep.
EverySleepEnds == (pc = "test3" /\ idt[timer] # None) ~> (pc = "idle")
=============================================================================
