--------------------------- MODULE RtcCalibration ---------------------------
(***************************************************************************)
(* The calibration of the local APIC timer against the periodic interrupt  *)
(* of the real-time clock: calibration_sleep and its handler               *)
(* (arch/x86_64/clock/rtc.rs), called by calibrate (clock/apic.rs), and    *)
(* the choice of the clock (clock/mod.rs).                                 *)
(*                                                                         *)
(* The kernel, the clock and the local APIC take turns.  The clock is      *)
(* external: it sets the periodic flag of register C each Period whether   *)
(* or not its interrupt is enabled, holds its line while the flag and the  *)
(* enable bit of register B are set, and clears the flag when C is read.   *)
(* The I/O APIC reports the edges of the line, unless the entry is masked. *)
(***************************************************************************)
EXTENDS LocalApic

CONSTANTS
  Period,   \* units of time between two periodic ticks of the clock
  MaxLag    \* units of time that the kernel takes at most from halt to halt

ASSUME PeriodAssumption ==
  /\ MaxLag \in Nat /\ Period \in Nat /\ MaxLag < Period
  /\ MaxCount \in Nat /\ MaxCount > 3 * Period

VARIABLES
  manager,   \* MANAGER: [calibration_timer, timer], the clocks chosen
  TIMERS,    \* the timers that are set up
  received,  \* INTERRUPT_RECEIVED
  flag,      \* the periodic flag of register C
  enabled,   \* the periodic enable bit of register B
  phase,     \* time since the last tick of the clock
  lag,       \* time that the kernel has been running
  numerator  \* timer_us_numerator: ticks of the timer in one Period

clockVars == <<manager, TIMERS>>
rtc == <<flag, enabled>>
time == <<phase, lag>>
rtcVars == <<clockVars, received, rtc, time, numerator>>

RtcIrq == 8

ASSUME RtcIrqAssumption == RtcIrq \in Irq

Halted == {"halt1", "halt2", "halt3"}
Calibrating ==
  pc \in {"reset1", "enable", "flush1", "test1", "halt1", "wake1", "start_timer", "flush2",
          "reset2", "test2", "halt2", "wake2", "disable", "flush3", "reset3", "unmap", "measure"}

CALIBRATION_TIMERS == {"rtc", "cmos"}

RtcInit ==
  /\ manager = [calibration_timer |-> "dummy", timer |-> "dummy"]
  /\ TIMERS = {}
  /\ received = TRUE
  /\ flag \in BOOLEAN
  /\ enabled = FALSE  \* "must not be ... in use"
  /\ phase \in 0 .. Period - 1
  /\ lag = 0
  /\ numerator = 0
-----------------------------------------------------------------------------
\* get_preferred_clock: the first clock of the list that is available.
Preferred(list, available) ==
  LET some == {i \in DOMAIN list : list[i] \in available}
  IN  IF some = {} THEN "dummy" ELSE list[CHOOSE i \in some : \A j \in some : i <= j]

Goto(from, to) == pc = from /\ pc' = to

\* update_clock_functions
UpdateClocks(from, to) ==
  /\ Goto(from, to)
  /\ manager' = [calibration_timer |-> Preferred(<<"hpet", "apic", "pit", "rtc", "cmos">>,
                                                 CALIBRATION_TIMERS),
                 timer |-> Preferred(<<"apic", "hpet", "pit">>, TIMERS)]
  /\ UNCHANGED <<TIMERS, received, rtc, time, numerator, irqVars, madtVars, apicVars>>

\* What a change of the flag and the enable bit makes pending: an edge of the
\* line, at the vector of the redirection entry.
ClockRaises(f, e) ==
  LET input == Input(Wire(RtcIrq))
  IN  IF f /\ e /\ ~(flag /\ enabled) /\ input \in DOMAIN redirect
      THEN {<<redirect[input], "rtc">>}
      ELSE {}

Clock(f, e) ==
  /\ flag' = f /\ enabled' = e
  /\ irr' = irr \cup ClockRaises(f, e)
  /\ UNCHANGED <<lvt, count, stray>>

\* Time passes during the calibration.  The kernel does not run for longer
\* than MaxLag, and while it sleeps it does so until an interrupt.
CalibrationTick ==
  /\ Calibrating
  /\ ~panicked
  /\ lag < MaxLag \/ (pc \in Halted /\ irr = {})
  /\ lag' = IF pc \in Halted /\ irr = {} THEN 0 ELSE lag + 1
  /\ phase' = (phase + 1) % Period
  /\ flag' = (flag \/ phase' = 0)
  /\ count' = IF count = 0 THEN 0 ELSE count - 1
  /\ irr' = irr \cup ClockRaises(flag', enabled) \cup TimerRaises
  /\ UNCHANGED <<pc, clockVars, received, enabled, numerator, lvt, stray, irqVars, madtVars>>

\* calibrate calls calibration_sleep, which maps the IRQ "temporarily" with
\* interrupts off.  Without a calibration timer it is unimplemented.
Map ==
  /\ manager.calibration_timer = "rtc"
  /\ Goto("map", "reset1")
  /\ MapLegacyIrq(RtcIrq, RtcHandler)
  /\ UNCHANGED <<rtcVars, madtVars, apicVars>>

\* Mutant: the indicator is not reset.
ResetNothing(from, to) ==
  /\ Goto(from, to)
  /\ UNCHANGED <<rtcVars, irqVars, madtVars, apicVars>>

Reset(from, to) ==
  /\ Goto(from, to)
  /\ received' = FALSE
  /\ UNCHANGED <<clockVars, rtc, time, numerator, irqVars, madtVars, apicVars>>

\* Register A, whose rate does not move the phase, is written just before.
Enable ==
  /\ Goto("enable", "flush1")
  /\ Clock(flag, TRUE)
  /\ UNCHANGED <<clockVars, received, time, numerator, irqVars, madtVars>>

\* Mutant: C is not read.
FlushNothing(from, to) ==
  /\ Goto(from, to)
  /\ UNCHANGED <<rtcVars, irqVars, madtVars, apicVars>>

\* Register C is read.
Flush(from, to) ==
  /\ Goto(from, to)
  /\ Clock(FALSE, enabled)
  /\ UNCHANGED <<clockVars, received, time, numerator, irqVars, madtVars>>

\* while !INTERRUPT_RECEIVED
Test(test, halt, exit) ==
  /\ Goto(test, IF received THEN exit ELSE halt)
  /\ UNCHANGED <<rtcVars, irqVars, madtVars, apicVars>>

\* The cli that ends "sti; hlt; cli".
Cli(wake, test) ==
  /\ Goto(wake, test)
  /\ UNCHANGED <<rtcVars, irqVars, madtVars, apicVars>>

\* Mutant: the timer runs since it was powered on.
StartTimerEarly ==
  /\ Goto("start_timer", "flush2")
  /\ UNCHANGED <<rtcVars, irqVars, madtVars, apicVars>>

\* calibrate's start_timer writes InitialCount.
StartTimer ==
  /\ Goto("start_timer", "flush2")
  /\ count' = MaxCount
  /\ UNCHANGED <<irr, lvt, stray, rtcVars, irqVars, madtVars>>

Disable ==
  /\ Goto("disable", "flush3")
  /\ Clock(flag, FALSE)
  /\ UNCHANGED <<clockVars, received, time, numerator, irqVars, madtVars>>

\* _handler_mapping is dropped.
Unmap ==
  /\ Goto("unmap", "measure")
  /\ UnmapLegacyId(RtcIrq) \/ UnmapPanics(RtcIrq)
  /\ UNCHANGED <<rtcVars, madtVars, apicVars>>

\* calibrate reads CurrentCount.  The clock is not looked at again: its phase
\* and flag are not tracked any further.
Measure ==
  /\ Goto("measure", "setup")
  /\ numerator' = MaxCount - count
  /\ flag' = FALSE /\ phase' = 0 /\ lag' = 0
  /\ UNCHANGED <<clockVars, received, enabled, irqVars, madtVars, apicVars>>

Calibrate ==
  \/ Map
  \/ Reset("reset1", "enable") \/ Enable \/ Flush("flush1", "test1")
  \/ Test("test1", "halt1", "start_timer") \/ Cli("wake1", "test1") \/ StartTimer
  \/ Flush("flush2", "reset2") \/ Reset("reset2", "test2")
  \/ Test("test2", "halt2", "disable") \/ Cli("wake2", "test2") \/ Disable
  \/ Flush("flush3", "reset3") \/ Reset("reset3", "unmap") \/ Unmap \/ Measure
-----------------------------------------------------------------------------
\* The time measured is no longer than the time that calibration_sleep returns,
\* but for the time in which the kernel itself runs.
NotLonger == numerator <= Period + MaxLag

\* calibration_sleep "returns the number of microseconds slept": the sleep is
\* no shorter than that either.
NotShorter == timer # None => numerator >= Period - MaxLag

\* The interrupt of the clock reaches the kernel, and can be unmapped again.
ClockFound == Reached(RtcIrq) /\ Found(RtcIrq) # {}

\* The calibration ends, if IoApic::new accepts the I/O APICs and the one that is
\* found for the clock is the right one: no interrupt that it waits for is lost,
\* neither before it halts nor because C was not read.
CalibrationEnds == <>(pc = "setup" \/ IF pc = "madt" THEN panicked ELSE ~ClockFound)
=============================================================================
